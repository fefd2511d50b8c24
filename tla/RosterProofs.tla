---------------------------- MODULE RosterProofs ----------------------------
(***************************************************************************)
(* Theorems about Roster and Overbooking for every set of requests,        *)
(* students and classes.                                                   *)
(***************************************************************************)
EXTENDS Overbooking, FiniteSetTheorems, TLAPS

(***************************************************************************)
(* Frames                                                                  *)
(***************************************************************************)

\* The frame of each program counter.
LEMMA FrameTable ==
    /\ \A p \in {"idle", "error"} : p \in PC /\ FrameOf(p) = {NoFrame}
    /\ \A p \in {"class", "existing", "insert"} :
         p \in PC /\ FrameOf(p) = StudentFrame
    /\ "count" \in PC /\ FrameOf("count") = CountFrame
    /\ "status" \in PC /\ FrameOf("status") = StatusFrame
    /\ "slot" \in PC /\ FrameOf("slot") = SlotFrame
    /\ "unslot" \in PC /\ FrameOf("unslot") = SlotRowFrame
    /\ \A p \in {"capacity", "enrolled", "scheduled", "select"} :
         p \in PC /\ FrameOf(p) = EntityFrame
    /\ "update" \in PC /\ FrameOf("update") = DirtyFrame
BY DEF PC, StudentPC, EntityPC, FrameOf

\* The locals a handler holds at a program counter are a frame.
LEMMA FrameOfIsFrame ==
    ASSUME NEW p \in PC
    PROVE  FrameOf(p) \subseteq Frame
BY DEF PC, StudentPC, EntityPC, FrameOf, Frame

\* Going to the next await with locals of the right type keeps every
\* suspended handler's locals typed.
LEMMA GotoTyped ==
    ASSUME pc \in [Request -> PC], loc \in [Request -> Frame],
           \A q \in Request : loc[q] \in FrameOf(pc[q]),
           NEW r \in Request, NEW p \in PC, NEW f \in FrameOf(p),
           Goto(r, p, f)
    PROVE  /\ pc' \in [Request -> PC]
           /\ loc' \in [Request -> Frame]
           /\ \A q \in Request : loc'[q] \in FrameOf(pc'[q])
<1>1. f \in Frame
  BY FrameOfIsFrame
<1>2. pc' \in [Request -> PC] /\ loc' \in [Request -> Frame]
  BY <1>1 DEF Goto
<1>3. ASSUME NEW q \in Request PROVE loc'[q] \in FrameOf(pc'[q])
  <2>1. CASE q = r
    BY <2>1 DEF Goto
  <2>2. CASE q # r
    <3>1. pc'[q] = pc[q] /\ loc'[q] = loc[q]
      BY <2>2 DEF Goto
    <3>2. QED
      BY <3>1
  <2>3. QED
    BY <2>1, <2>2
<1>4. QED
  BY <1>2, <1>3

\* Answering and failing are moves to a program counter without locals.
LEMMA FinishTyped ==
    ASSUME pc \in [Request -> PC], loc \in [Request -> Frame],
           \A q \in Request : loc[q] \in FrameOf(pc[q]),
           NEW r \in Request, Finish(r) \/ Fail(r)
    PROVE  /\ pc' \in [Request -> PC]
           /\ loc' \in [Request -> Frame]
           /\ \A q \in Request : loc'[q] \in FrameOf(pc'[q])
<1>1. CASE Finish(r)
  BY <1>1, FrameTable, GotoTyped DEF Finish
<1>2. CASE Fail(r)
  BY <1>2, FrameTable, GotoTyped DEF Fail
<1>3. QED
  BY <1>1, <1>2

(***************************************************************************)
(* Type correctness                                                        *)
(***************************************************************************)

\* What TypeOK says of the suspended handlers.
FramesTyped ==
    /\ pc \in [Request -> PC]
    /\ loc \in [Request -> Frame]
    /\ \A r \in Request : loc[r] \in FrameOf(pc[r])

\* The initial state is typed.
LEMMA InitTyped == Init => TypeOK
<1>1. NoFrame \in Frame
  BY DEF Frame
<1>2. 0 \in 0..MaxDay
  BY RosterAssumption
<1>3. QED
  BY <1>1, <1>2, FrameTable DEF Init, TypeOK, RecordStatus

\* The steps of the enrollment endpoints keep the types.
LEMMA EnrollmentTyped ==
    ASSUME TypeOK, NEW r \in Request, EnrollmentStep(r)
    PROVE  TypeOK'
<1> USE DEF TypeOK
<1>1. ASSUME NEW s \in Student, NEW c \in Class, EnrollReadStudent(r, s, c)
      PROVE  TypeOK'
  <2>1. [stu |-> s, cls |-> c] \in FrameOf("class")
    BY FrameTable DEF StudentFrame
  <2>2. FramesTyped'
    BY <1>1, <2>1, FrameTable, GotoTyped DEF EnrollReadStudent, FramesTyped
  <2>3. QED
    BY <1>1, <2>2 DEF EnrollReadStudent, store, FramesTyped
<1>2. ASSUME NEW s \in Student, NEW c \in Class, NEW target \in EnrollmentStatus,
             SetStatusRead(r, s, c, target)
      PROVE  TypeOK'
  <2>1. [stu |-> s, cls |-> c, target |-> target] \in FrameOf("status")
    BY FrameTable DEF StatusFrame
  <2>2. FramesTyped'
    BY <1>2, <2>1, FrameTable, GotoTyped DEF SetStatusRead, FramesTyped
  <2>3. QED
    BY <1>2, <2>2 DEF SetStatusRead, store, FramesTyped
<1>3. ASSUME NEW s \in Student, NEW c \in Class, UnenrollRead(r, s, c)
      PROVE  TypeOK'
  <2>1. [stu |-> s, cls |-> c, target |-> "CANCELLED"] \in FrameOf("status")
    BY FrameTable DEF StatusFrame, EnrollmentStatus
  <2>2. FramesTyped'
    BY <1>3, <2>1, FrameTable, GotoTyped DEF UnenrollRead, FramesTyped
  <2>3. QED
    BY <1>3, <2>2 DEF UnenrollRead, store, FramesTyped
<1>4. CASE EnrollReadClass(r)
  <2>1. loc[r] \in StudentFrame
    BY <1>4, FrameTable DEF EnrollReadClass
  <2>2. [stu |-> loc[r].stu, cls |-> loc[r].cls,
         cap |-> class[loc[r].cls].capacity] \in FrameOf("count")
    BY <2>1, FrameTable DEF StudentFrame, CountFrame, ClassRow
  <2>3. FramesTyped'
    BY <1>4, <2>2, FrameTable, GotoTyped, FinishTyped DEF EnrollReadClass, FramesTyped
  <2>4. QED
    BY <1>4, <2>3 DEF EnrollReadClass, store, FramesTyped
<1>5. CASE EnrollCount(r)
  <2>1. loc[r] \in CountFrame
    BY <1>5, FrameTable DEF EnrollCount
  <2>2. [stu |-> loc[r].stu, cls |-> loc[r].cls] \in FrameOf("existing")
    BY <2>1, FrameTable DEF StudentFrame, CountFrame
  <2>3. FramesTyped'
    BY <1>5, <2>2, FrameTable, GotoTyped, FinishTyped DEF EnrollCount, FramesTyped
  <2>4. QED
    BY <1>5, <2>3 DEF EnrollCount, store, FramesTyped
<1>6. CASE EnrollFindExisting(r)
  <2>1. loc[r] \in FrameOf("insert")
    BY <1>6, FrameTable DEF EnrollFindExisting
  <2>2. FramesTyped'
    BY <1>6, <2>1, FrameTable, GotoTyped, FinishTyped
    DEF EnrollFindExisting, FramesTyped
  <2>3. QED
    BY <1>6, <2>2 DEF EnrollFindExisting, store, FramesTyped
<1>7. CASE EnrollInsert(r)
  <2>1. FramesTyped'
    BY <1>7, FinishTyped DEF EnrollInsert, FramesTyped
  <2>2. enrollment' \in [Class -> [Student -> EnrollmentStatus \cup {"NONE"}]]
    BY <1>7 DEF EnrollInsert, EnrollmentStatus
  <2>3. QED
    BY <1>7, <2>1, <2>2 DEF EnrollInsert, FramesTyped
<1>8. CASE SaveStatus(r)
  <2>1. loc[r] \in StatusFrame
    BY <1>8, FrameTable DEF SaveStatus
  <2>2. FramesTyped'
    BY <1>8, FinishTyped DEF SaveStatus, FramesTyped
  <2>3. enrollment' \in [Class -> [Student -> EnrollmentStatus \cup {"NONE"}]]
    BY <1>8, <2>1 DEF SaveStatus, StatusFrame
  <2>4. QED
    BY <1>8, <2>2, <2>3 DEF SaveStatus, FramesTyped
<1>9. QED
  BY <1>1, <1>2, <1>3, <1>4, <1>5, <1>6, <1>7, <1>8 DEF EnrollmentStep

\* A class save leaves a class row.
LEMMA SavedRowTyped ==
    ASSUME TypeOK, NEW r \in Request, SaveUpdate(r)
    PROVE  class' \in [Class -> ClassRow]
<1>1. loc[r] \in DirtyFrame
  BY FrameTable DEF SaveUpdate, TypeOK
<1>2. loc[r].cls \in Class /\ loc[r].row \in ClassRow
  BY <1>1 DEF DirtyFrame
<1>3. class[loc[r].cls] \in ClassRow
  BY <1>2 DEF TypeOK
<1>4. QED
  BY <1>2, <1>3 DEF SaveUpdate, TypeOK, ClassRow

\* The steps of the class and schedule endpoints keep the types.
LEMMA ClassTyped ==
    ASSUME TypeOK, NEW r \in Request, ClassStep(r)
    PROVE  TypeOK'
<1> USE DEF TypeOK
<1>1. ASSUME NEW c \in Class, NEW new \in ClassRow, ClassUpdateRead(r, c, new)
      PROVE  TypeOK'
  <2>1. \A p \in {"capacity", "select"} :
          p \in PC /\ [cls |-> c, row |-> new] \in FrameOf(p)
    BY FrameTable DEF EntityFrame
  <2>2. FramesTyped'
    BY <1>1, <2>1, GotoTyped DEF ClassUpdateRead, FramesTyped
  <2>3. QED
    BY <1>1, <2>2 DEF ClassUpdateRead, store, FramesTyped
<1>2. ASSUME NEW c \in Class, ClassRemoveRead(r, c)
      PROVE  TypeOK'
  <2>1. Deactivated(class[c]) \in ClassRow
    BY DEF Deactivated, ClassRow, RecordStatus, LifecycleStatus
  <2>2. [cls |-> c, row |-> Deactivated(class[c])] \in FrameOf("enrolled")
    BY <2>1, FrameTable DEF EntityFrame
  <2>3. FramesTyped'
    BY <1>2, <2>2, FrameTable, GotoTyped DEF ClassRemoveRead, FramesTyped
  <2>4. QED
    BY <1>2, <2>3 DEF ClassRemoveRead, store, FramesTyped
<1>3. ASSUME NEW c \in Class, ScheduleReadClass(r, c)
      PROVE  TypeOK'
  <2>1. [cls |-> c] \in FrameOf("slot")
    BY FrameTable DEF SlotFrame
  <2>2. FramesTyped'
    BY <1>3, <2>1, FrameTable, GotoTyped DEF ScheduleReadClass, FramesTyped
  <2>3. QED
    BY <1>3, <2>2 DEF ScheduleReadClass, store, FramesTyped
<1>4. ASSUME NEW c \in Class, NEW k \in Slot, ScheduleReadRow(r, c, k)
      PROVE  TypeOK'
  <2>1. [cls |-> c, row |-> k] \in FrameOf("unslot")
    BY FrameTable DEF SlotRowFrame
  <2>2. FramesTyped'
    BY <1>4, <2>1, FrameTable, GotoTyped DEF ScheduleReadRow, FramesTyped
  <2>3. QED
    BY <1>4, <2>2 DEF ScheduleReadRow, store, FramesTyped
<1>5. CASE ClassUpdateCount(r)
  <2>1. loc[r] \in FrameOf("select")
    BY <1>5, FrameTable DEF ClassUpdateCount
  <2>2. FramesTyped'
    BY <1>5, <2>1, FrameTable, GotoTyped, FinishTyped
    DEF ClassUpdateCount, FramesTyped
  <2>3. QED
    BY <1>5, <2>2 DEF ClassUpdateCount, store, FramesTyped
<1>6. CASE ClassRemoveCountEnrollments(r)
  <2>1. loc[r] \in FrameOf("scheduled")
    BY <1>6, FrameTable DEF ClassRemoveCountEnrollments
  <2>2. FramesTyped'
    BY <1>6, <2>1, FrameTable, GotoTyped, FinishTyped
    DEF ClassRemoveCountEnrollments, FramesTyped
  <2>3. QED
    BY <1>6, <2>2 DEF ClassRemoveCountEnrollments, store, FramesTyped
<1>7. CASE ClassRemoveCountSchedules(r)
  <2>1. loc[r] \in FrameOf("select")
    BY <1>7, FrameTable DEF ClassRemoveCountSchedules
  <2>2. FramesTyped'
    BY <1>7, <2>1, FrameTable, GotoTyped, FinishTyped
    DEF ClassRemoveCountSchedules, FramesTyped
  <2>3. QED
    BY <1>7, <2>2 DEF ClassRemoveCountSchedules, store, FramesTyped
<1>8. CASE ScheduleInsert(r)
  <2>1. FramesTyped'
    BY <1>8, FinishTyped DEF ScheduleInsert, FramesTyped
  <2>2. slots' \in [Class -> SUBSET Slot]
    <3>1. PICK k \in Slot \ slots[loc[r].cls] :
            slots' = [slots EXCEPT ![loc[r].cls] = @ \cup {k}]
      BY <1>8 DEF ScheduleInsert
    <3>2. QED
      BY <3>1
  <2>3. QED
    BY <1>8, <2>1, <2>2 DEF ScheduleInsert, FramesTyped
<1>9. CASE ScheduleDelete(r)
  <2>1. FramesTyped'
    BY <1>9, FinishTyped DEF ScheduleDelete, FramesTyped
  <2>2. slots' \in [Class -> SUBSET Slot]
    BY <1>9 DEF ScheduleDelete
  <2>3. QED
    BY <1>9, <2>1, <2>2 DEF ScheduleDelete, FramesTyped
<1>10. CASE SaveSelect(r)
  <2>1. loc[r] \in EntityFrame
    BY <1>10, FrameTable DEF SaveSelect
  <2>2. [cls |-> loc[r].cls, row |-> loc[r].row,
         dirty |-> {k \in Column : loc[r].row[k] # class[loc[r].cls][k]}]
           \in FrameOf("update")
    BY <2>1, FrameTable DEF EntityFrame, DirtyFrame
  <2>3. FramesTyped'
    BY <1>10, <2>2, FrameTable, GotoTyped DEF SaveSelect, FramesTyped
  <2>4. QED
    BY <1>10, <2>3 DEF SaveSelect, store, FramesTyped
<1>11. CASE SaveUpdate(r)
  <2>1. FramesTyped'
    BY <1>11, FinishTyped DEF SaveUpdate, FramesTyped
  <2>2. QED
    BY <1>11, <2>1, SavedRowTyped DEF SaveUpdate, FramesTyped
<1>12. QED
  BY <1>1, <1>2, <1>3, <1>4, <1>5, <1>6, <1>7, <1>8, <1>9, <1>10, <1>11
  DEF ClassStep

\* Every step keeps the types.
LEMMA NextTyped == TypeOK /\ [Next]_vars => TypeOK'
<1> SUFFICES ASSUME TypeOK, [Next]_vars PROVE TypeOK'
  OBVIOUS
<1>1. ASSUME NEW r \in Request, Abandon(r) PROVE TypeOK'
  <2>1. FramesTyped'
    BY <1>1, FinishTyped DEF Abandon, TypeOK, FramesTyped
  <2>2. QED
    BY <1>1, <2>1 DEF Abandon, store, TypeOK, FramesTyped
<1>2. ASSUME NEW s \in Student, NEW status \in RecordStatus,
             StudentUpdateStatus(s, status)
      PROVE  TypeOK'
  BY <1>2 DEF StudentUpdateStatus, TypeOK
<1>3. CASE Tick
  BY <1>3, RosterAssumption DEF Tick, TypeOK
<1>4. CASE UNCHANGED vars
  BY <1>4 DEF vars, TypeOK
<1>5. QED
  BY <1>1, <1>2, <1>3, <1>4, EnrollmentTyped, ClassTyped DEF Next

\* Every reachable state of the roster is typed.
THEOREM TypeCorrect == Spec => []TypeOK
BY InitTyped, NextTyped, PTL DEF Spec

(***************************************************************************)
(* Overlapping requests overbook a class by less than their number         *)
(***************************************************************************)

\* A set that takes at most one value from each element of R beside those
\* of A is no larger than A and R together.
LEMMA OneEachBound ==
    ASSUME NEW A, IsFiniteSet(A), NEW R, IsFiniteSet(R), NEW f,
           NEW T, T \subseteq A \cup {f[r] : r \in R}
    PROVE  Cardinality(T) <= Cardinality(A) + Cardinality(R)
<1> DEFINE g == [r \in R |-> f[r]]
           I == {f[r] : r \in R}
<1>1. g \in Surjection(R, I)
  BY DEF Surjection
<1>2. IsFiniteSet(I) /\ Cardinality(I) <= Cardinality(R)
  BY <1>1, FS_Surjection, Zenon
<1>3. /\ IsFiniteSet(A \cup I)
      /\ Cardinality(A \cup I)
           = Cardinality(A) + Cardinality(I) - Cardinality(A \cap I)
  BY <1>2, FS_Union
<1>4. IsFiniteSet(A \cap I)
  BY FS_Subset, A \cap I \subseteq A
<1>5. Cardinality(T) <= Cardinality(A \cup I)
  BY <1>3, FS_Subset
<1> HIDE DEF I
<1>6. /\ Cardinality(A) \in Nat /\ Cardinality(I) \in Nat
      /\ Cardinality(R) \in Nat /\ Cardinality(A \cap I) \in Nat
      /\ IsFiniteSet(T) /\ Cardinality(T) \in Nat
  BY <1>2, <1>3, <1>4, FS_CardinalityType, FS_Subset DEF I
<1>7. QED
  BY <1>2, <1>3, <1>5, <1>6

\* Request r is past the last check that could keep it from making s ACTIVE
\* in c: it passed create's count, or is about to save the status ACTIVE.
MayActivate(r, c, s) ==
    /\ \/ pc[r] \in {"existing", "insert"}
       \/ pc[r] = "status" /\ loc[r].target = "ACTIVE"
    /\ loc[r].cls = c
    /\ loc[r].stu = s

\* The students that are ACTIVE in c or will be if nobody answers first.
Potential(c) ==
    Active(c) \cup {s \in Student : \E r \in Request : MayActivate(r, c, s)}

\* The seats a class has had since it was quiet, and what they bound: the
\* students it may end up with, the capacities that handlers hold.
PeakInv ==
    /\ DOMAIN peak = Class
    /\ \A c \in Class :
         /\ peak[c] \in Nat /\ class[c].capacity <= peak[c]
         /\ Cardinality(Potential(c)) < peak[c] + Cardinality(Request)
    /\ \A r \in Request : pc[r] = "count" => loc[r].cap <= peak[loc[r].cls]

\* The potential of a class is a finite set of students.
LEMMA PotentialFinite ==
    ASSUME NEW c \in Class
    PROVE  /\ IsFiniteSet(Potential(c)) /\ IsFiniteSet(Active(c))
           /\ Active(c) \subseteq Potential(c)
<1>1. Potential(c) \subseteq Student /\ Active(c) \subseteq Student
  BY DEF Potential, Active
<1>2. QED
  BY <1>1, FS_Subset, RosterAssumption DEF Potential

\* A step of request r adds a student to the potential of a class only by
\* what r itself stores or is about to store.
LEMMA GotoPotential ==
    ASSUME TypeOK, NEW r \in Request, NEW p, NEW f, Goto(r, p, f),
           NEW c \in Class, Active(c)' \subseteq Potential(c),
           \A s \in Student : MayActivate(r, c, s)' => s \in Potential(c)
    PROVE  Potential(c)' \subseteq Potential(c)
<1>1. ASSUME NEW q \in Request, q # r, NEW s \in Student, MayActivate(q, c, s)'
      PROVE  s \in Potential(c)
  BY <1>1 DEF Goto, TypeOK, MayActivate, Potential
<1>2. QED
  BY <1>1 DEF Potential

\* Answering a request adds nobody.
LEMMA FinishPotential ==
    ASSUME TypeOK, NEW r \in Request, Finish(r) \/ Fail(r),
           NEW c \in Class, Active(c)' \subseteq Potential(c)
    PROVE  Potential(c)' \subseteq Potential(c)
<1>1. \A s \in Student : ~MayActivate(r, c, s)'
  BY DEF Finish, Fail, Goto, TypeOK, MayActivate
<1>2. QED
  BY <1>1, GotoPotential DEF Finish, Fail

\* A successful count is the one step that adds a student, and it has just
\* seen fewer ACTIVE students than the capacity that its handler holds.
CountedIn(c) ==
    /\ Cardinality(Potential(c)') <= Cardinality(Active(c)) + Cardinality(Request)
    /\ \E r \in Request : /\ pc[r] = "count" /\ loc[r].cls = c
                          /\ Cardinality(Active(c)) < loc[r].cap

\* A count keeps the potential of a class or has counted a student in.
LEMMA CountPotential ==
    ASSUME TypeOK, NEW r \in Request, EnrollCount(r), NEW c \in Class
    PROVE  Potential(c)' \subseteq Potential(c) \/ CountedIn(c)
<1> DEFINE f == loc[r]
<1>1. /\ f \in CountFrame /\ UNCHANGED enrollment
      /\ Active(c)' = Active(c) /\ pc[r] = "count"
  BY FrameTable DEF EnrollCount, TypeOK, store, Active
<1>2. CASE ~HasSeat(f.cls, f.cap)
  <2>1. Finish(r)
    BY <1>2 DEF EnrollCount
  <2>2. QED
    BY <1>1, <2>1, FinishPotential, PotentialFinite
<1>3. CASE HasSeat(f.cls, f.cap)
  <2>1. Goto(r, "existing", [stu |-> f.stu, cls |-> f.cls])
    BY <1>3 DEF EnrollCount
  <2>2. CASE c # f.cls
    <3>1. \A s \in Student : ~MayActivate(r, c, s)'
      BY <1>1, <2>1, <2>2 DEF Goto, TypeOK, MayActivate, CountFrame
    <3>2. QED
      BY <1>1, <2>1, <3>1, GotoPotential, PotentialFinite
  <2>3. CASE c = f.cls
    <3> DEFINE held == [q \in Request |-> loc'[q].stu]
    <3>1. Potential(c)' \subseteq Active(c) \cup {held[q] : q \in Request}
      BY <1>1 DEF Potential, MayActivate
    <3>2. Cardinality(Potential(c)') <= Cardinality(Active(c)) + Cardinality(Request)
      BY <3>1, PotentialFinite, RosterAssumption, OneEachBound
    <3>3. QED
      BY <1>1, <1>3, <2>3, <3>2 DEF CountedIn, HasSeat
  <2>4. QED
    BY <2>2, <2>3
<1>4. QED
  BY <1>2, <1>3

\* No other step of the enrollment endpoints adds a student.
LEMMA EnrollmentPotential ==
    ASSUME TypeOK, NEW r \in Request, EnrollmentStep(r), ~EnrollCount(r),
           NEW c \in Class
    PROVE  Potential(c)' \subseteq Potential(c)
<1>0. ASSUME UNCHANGED enrollment PROVE Active(c)' \subseteq Potential(c)
  BY <1>0 DEF Active, Potential
<1>1. ASSUME NEW s \in Student, NEW d \in Class, EnrollReadStudent(r, s, d)
      PROVE  Potential(c)' \subseteq Potential(c)
  <2>1. \A x \in Student : ~MayActivate(r, c, x)'
    BY <1>1 DEF EnrollReadStudent, Goto, TypeOK, MayActivate
  <2>2. QED
    BY <1>0, <1>1, <2>1, GotoPotential DEF EnrollReadStudent, store
<1>2. ASSUME NEW s \in Student, NEW d \in Class, NEW target \in EnrollmentStatus,
             SetStatusRead(r, s, d, target)
      PROVE  Potential(c)' \subseteq Potential(c)
  <2>1. enrollment[d][s] = "ACTIVE"
    BY <1>2 DEF SetStatusRead, AllowedTransitions
  <2>2. \A x \in Student : MayActivate(r, c, x)' => x \in Potential(c)
    BY <1>2, <2>1 DEF SetStatusRead, Goto, TypeOK, MayActivate, Potential, Active
  <2>3. QED
    BY <1>0, <1>2, <2>2, GotoPotential DEF SetStatusRead, store
<1>3. ASSUME NEW s \in Student, NEW d \in Class, UnenrollRead(r, s, d)
      PROVE  Potential(c)' \subseteq Potential(c)
  <2>1. \A x \in Student : ~MayActivate(r, c, x)'
    BY <1>3 DEF UnenrollRead, Goto, TypeOK, MayActivate
  <2>2. QED
    BY <1>0, <1>3, <2>1, GotoPotential DEF UnenrollRead, store
<1>4. CASE EnrollReadClass(r)
  <2>1. CASE Finish(r)
    BY <1>0, <1>4, <2>1, FinishPotential DEF EnrollReadClass, store
  <2>2. CASE OpenForEnrollment(class[loc[r].cls])
    <3>1. \A x \in Student : ~MayActivate(r, c, x)'
      BY <1>4, <2>2 DEF EnrollReadClass, Goto, TypeOK, MayActivate
    <3>2. QED
      BY <1>0, <1>4, <2>2, <3>1, GotoPotential DEF EnrollReadClass, store
  <2>3. QED
    BY <1>4, <2>1, <2>2 DEF EnrollReadClass
<1>5. CASE EnrollFindExisting(r)
  <2>1. CASE Finish(r)
    BY <1>0, <1>5, <2>1, FinishPotential DEF EnrollFindExisting, store
  <2>2. CASE Goto(r, "insert", loc[r])
    <3>1. \A x \in Student : MayActivate(r, c, x)' => x \in Potential(c)
      BY <1>5, <2>2 DEF EnrollFindExisting, Goto, TypeOK, MayActivate, Potential
    <3>2. QED
      BY <1>0, <1>5, <2>2, <3>1, GotoPotential DEF EnrollFindExisting, store
  <2>3. QED
    BY <1>5, <2>1, <2>2 DEF EnrollFindExisting
<1>6. CASE EnrollInsert(r)
  <2>1. loc[r] \in StudentFrame
    BY <1>6, FrameTable DEF EnrollInsert, TypeOK
  <2>2. \A x \in Active(c)' : x \in Active(c) \/ MayActivate(r, c, x)
    BY <1>6, <2>1 DEF EnrollInsert, TypeOK, StudentFrame, Active, MayActivate
  <2>3. Active(c)' \subseteq Potential(c)
    BY <2>2 DEF Potential, Active
  <2>4. QED
    BY <1>6, <2>3, FinishPotential DEF EnrollInsert
<1>7. CASE SaveStatus(r)
  <2>1. loc[r] \in StatusFrame
    BY <1>7, FrameTable DEF SaveStatus, TypeOK
  <2>2. \A x \in Active(c)' : x \in Active(c) \/ MayActivate(r, c, x)
    BY <1>7, <2>1 DEF SaveStatus, TypeOK, StatusFrame, Active, MayActivate
  <2>3. Active(c)' \subseteq Potential(c)
    BY <2>2 DEF Potential, Active
  <2>4. QED
    BY <1>7, <2>3, FinishPotential DEF SaveStatus
<1>8. QED
  BY <1>1, <1>2, <1>3, <1>4, <1>5, <1>6, <1>7 DEF EnrollmentStep

\* Class and schedule endpoints hold no student.
LEMMA ClassPotential ==
    ASSUME TypeOK, NEW r \in Request, ClassStep(r), NEW c \in Class
    PROVE  Potential(c)' \subseteq Potential(c)
<1>1. UNCHANGED enrollment
  BY DEF ClassStep, ClassUpdateRead, ClassRemoveRead, ScheduleReadClass,
         ScheduleReadRow, ClassUpdateCount, ClassRemoveCountEnrollments,
         ClassRemoveCountSchedules, ScheduleInsert, ScheduleDelete, SaveSelect,
         SaveUpdate, store
<1>2. Active(c)' \subseteq Potential(c)
  BY <1>1 DEF Active, Potential
<1>3. PICK p \in PC \ {"existing", "insert", "status"}, f \in Frame \cup {loc'[r]} :
        Goto(r, p, f)
  BY FrameTable
  DEF ClassStep, ClassUpdateRead, ClassRemoveRead, ScheduleReadClass,
      ScheduleReadRow, ClassUpdateCount, ClassRemoveCountEnrollments,
      ClassRemoveCountSchedules, ScheduleInsert, ScheduleDelete, SaveSelect,
      SaveUpdate, Finish, Goto, TypeOK
<1>4. \A s \in Student : ~MayActivate(r, c, s)'
  BY <1>3 DEF Goto, TypeOK, MayActivate
<1>5. QED
  BY <1>2, <1>3, <1>4, GotoPotential

\* Every step leaves the potential of a class as small as it was, or has
\* counted a student in.
LEMMA PotentialStep ==
    ASSUME TypeOK, [Next]_vars, NEW c \in Class
    PROVE  Potential(c)' \subseteq Potential(c) \/ CountedIn(c)
<1>1. ASSUME NEW r \in Request, EnrollmentStep(r)
      PROVE  Potential(c)' \subseteq Potential(c) \/ CountedIn(c)
  BY <1>1, CountPotential, EnrollmentPotential
<1>2. ASSUME NEW r \in Request, ClassStep(r) PROVE Potential(c)' \subseteq Potential(c)
  BY <1>2, ClassPotential
<1>3. ASSUME NEW r \in Request, Abandon(r) PROVE Potential(c)' \subseteq Potential(c)
  <2>1. Active(c)' \subseteq Potential(c)
    BY <1>3 DEF Abandon, store, Active, Potential
  <2>2. QED
    BY <1>3, <2>1, FinishPotential DEF Abandon
<1>4. ASSUME UNCHANGED <<enrollment, pc, loc>>
      PROVE  Potential(c)' \subseteq Potential(c)
  BY <1>4 DEF Potential, Active, MayActivate
<1>5. QED
  BY <1>1, <1>2, <1>3, <1>4 DEF Next, StudentUpdateStatus, Tick, vars

\* The capacity a handler counts against is the one it has just read.
LEMMA CountBegins ==
    ASSUME TypeOK, [Next]_vars, NEW q \in Request, pc'[q] = "count"
    PROVE  \/ pc[q] = "count" /\ loc'[q] = loc[q]
           \/ loc'[q].cap = class[loc'[q].cls].capacity
<1>1. ASSUME NEW r \in Request, EnrollmentStep(r)
      PROVE  \/ pc[q] = "count" /\ loc'[q] = loc[q]
             \/ loc'[q].cap = class[loc'[q].cls].capacity
  BY <1>1
  DEF EnrollmentStep, EnrollReadStudent, SetStatusRead, UnenrollRead,
      EnrollReadClass, EnrollCount, EnrollFindExisting, EnrollInsert,
      SaveStatus, Finish, Fail, Goto, TypeOK
<1>2. ASSUME NEW r \in Request, ClassStep(r) \/ Abandon(r)
      PROVE  pc[q] = "count" /\ loc'[q] = loc[q]
  BY <1>2
  DEF ClassStep, Abandon, ClassUpdateRead, ClassRemoveRead, ScheduleReadClass,
      ScheduleReadRow, ClassUpdateCount, ClassRemoveCountEnrollments,
      ClassRemoveCountSchedules, ScheduleInsert, ScheduleDelete, SaveSelect,
      SaveUpdate, Finish, Goto, TypeOK
<1>3. QED
  BY <1>1, <1>2 DEF Next, StudentUpdateStatus, Tick, vars

\* The numbers that the peak is compared with.
LEMMA CapacityNat ==
    ASSUME TypeOK, NEW c \in Class
    PROVE  /\ class[c] \in ClassRow
           /\ class[c].capacity \in Nat
           /\ Cardinality(Active(c)) \in Nat
           /\ Cardinality(Potential(c)) \in Nat
           /\ Cardinality(Request) \in Nat /\ Cardinality(Request) > 0
<1>1. Cardinality(Request) # 0
  BY RosterAssumption, FS_EmptySet
<1>2. QED
  BY <1>1, RosterAssumption, PotentialFinite, FS_CardinalityType
  DEF TypeOK, ClassRow, Capacity

\* Every step keeps the bounds that the peak sets.
LEMMA NextPeak ==
    ASSUME TypeOK, TypeOK', PeakInv, [Next]_vars, RememberPeak
    PROVE  PeakInv'
<1>1. ASSUME NEW c \in Class
      PROVE  /\ peak'[c] \in Nat /\ class'[c].capacity <= peak'[c]
             /\ ~Quiet(c)' => peak[c] <= peak'[c]
             /\ Cardinality(Potential(c)') < peak'[c] + Cardinality(Request)
  <2>1. /\ class'[c].capacity \in Nat /\ class[c].capacity \in Nat
        /\ Cardinality(Active(c)) \in Nat /\ Cardinality(Active(c)') \in Nat
        /\ Cardinality(Potential(c)) \in Nat /\ Cardinality(Potential(c)') \in Nat
        /\ Cardinality(Request) \in Nat /\ Cardinality(Request) > 0
    <3>1. class'[c] \in ClassRow
      BY DEF TypeOK
    <3>2. IsFiniteSet(Active(c)') /\ IsFiniteSet(Potential(c)')
      BY RosterAssumption, FS_Subset DEF Active, Potential
    <3>3. QED
      BY <3>1, <3>2, CapacityNat, FS_CardinalityType DEF ClassRow, Capacity
  <2>2. /\ peak[c] \in Nat /\ class[c].capacity <= peak[c]
        /\ Cardinality(Potential(c)) < peak[c] + Cardinality(Request)
    BY DEF PeakInv
  <2>3. CASE Quiet(c)' /\ Excess(c)' <= 0
    <3>1. peak'[c] = class'[c].capacity
      BY <2>3 DEF RememberPeak
    <3>2. Potential(c)' = Active(c)'
      BY <2>3 DEF Quiet, WorksOn, Potential, MayActivate
    <3>3. Cardinality(Potential(c)') <= class'[c].capacity
      BY <2>1, <2>3, <3>2 DEF Excess
    <3>4. Cardinality(Potential(c)') < peak'[c] + Cardinality(Request)
      BY <2>1, <3>1, <3>3
    <3>5. peak'[c] \in Nat /\ class'[c].capacity <= peak'[c]
      BY <2>1, <3>1
    <3>6. QED
      BY <2>3, <3>4, <3>5
  <2>4. CASE ~(Quiet(c)' /\ Excess(c)' <= 0)
    <3>1. peak'[c] = IF class'[c].capacity > peak[c] THEN class'[c].capacity ELSE peak[c]
      BY <2>4 DEF RememberPeak
    <3>2. /\ peak'[c] \in Nat /\ class'[c].capacity <= peak'[c]
          /\ peak[c] <= peak'[c]
      BY <2>1, <2>2, <3>1
    <3>3. CASE Potential(c)' \subseteq Potential(c)
      <4>1. Cardinality(Potential(c)') <= Cardinality(Potential(c))
        BY <3>3, PotentialFinite, FS_Subset
      <4>2. QED
        BY <2>1, <2>2, <3>2, <4>1
    <3>4. CASE CountedIn(c)
      <4>1. PICK r \in Request : /\ pc[r] = "count" /\ loc[r].cls = c
                                 /\ Cardinality(Active(c)) < loc[r].cap
        BY <3>4 DEF CountedIn
      <4>2. loc[r] \in CountFrame
        BY <4>1, FrameTable DEF TypeOK
      <4>3. loc[r].cap \in Nat /\ loc[r].cap <= peak[c]
        BY <4>1, <4>2 DEF CountFrame, Capacity, PeakInv
      <4>4. Cardinality(Potential(c)') <= Cardinality(Active(c)) + Cardinality(Request)
        BY <3>4 DEF CountedIn
      <4>5. QED
        BY <2>1, <2>2, <3>2, <4>1, <4>3, <4>4
    <3>5. QED
      BY <3>3, <3>4, PotentialStep
  <2>5. QED
    BY <2>3, <2>4
<1>2. ASSUME NEW r \in Request, pc'[r] = "count"
      PROVE  loc'[r].cap <= peak'[loc'[r].cls]
  <2>1. loc'[r] \in CountFrame
    BY <1>2, FrameTable DEF TypeOK
  <2>2. PICK c \in Class : c = loc'[r].cls
    BY <2>1 DEF CountFrame
  <2>3. ~Quiet(c)'
    BY <1>2, <2>2 DEF Quiet, WorksOn
  <2>4. loc'[r].cap <= peak[c]
    BY <1>2, <2>2, CountBegins DEF PeakInv
  <2>5. peak[c] \in Nat /\ loc'[r].cap \in Nat
    BY <2>1 DEF PeakInv, CountFrame, Capacity
  <2>6. QED
    BY <1>1, <2>2, <2>3, <2>4, <2>5
<1>3. DOMAIN peak' = Class
  BY DEF RememberPeak
<1>4. QED
  BY <1>1, <1>2, <1>3 DEF PeakInv

\* Nobody is enrolled at first.
LEMMA InitPeak == OverlapInit => PeakInv
<1> SUFFICES ASSUME OverlapInit PROVE PeakInv
  OBVIOUS
<1>1. TypeOK
  BY InitTyped DEF OverlapInit
<1>2. ASSUME NEW c \in Class PROVE Cardinality(Potential(c)) = 0
  <2>1. Potential(c) = {}
    BY DEF OverlapInit, Init, Potential, Active, MayActivate
  <2>2. QED
    BY <2>1, FS_EmptySet
<1>3. QED
  BY <1>1, <1>2, CapacityNat DEF OverlapInit, Init, PeakInv

\* The steps that the history watches are those of the roster.
LEMMA OverlapImplementsRoster == OverlapSpec => Spec
<1>1. OverlapInit => Init
  BY DEF OverlapInit
<1>2. [OverlapNext]_<<vars, history>> => [Next]_vars
  BY DEF OverlapNext, history
<1>3. QED
  BY <1>1, <1>2, PTL DEF OverlapSpec, Spec

\* However requests overlap, a class has fewer ACTIVE students than seats,
\* of those it has had since it was last quiet and within its capacity, and
\* requests in flight together: the damage of the unlocked counts in
\* EnrollmentsService.create and ClassesService.update is bounded by concurrency.
THEOREM OverbookingIsBounded == OverlapSpec => []OverbookingBounded
<1>1. TypeOK /\ TypeOK' /\ PeakInv /\ [OverlapNext]_<<vars, history>> => PeakInv'
  <2>1. ASSUME UNCHANGED <<vars, history>>, PeakInv PROVE PeakInv'
    BY <2>1 DEF PeakInv, Potential, Active, MayActivate, vars, history
  <2>2. QED
    BY <2>1, NextPeak DEF OverlapNext
<1>2. OverlapSpec => []TypeOK
  BY OverlapImplementsRoster, TypeCorrect, PTL
<1>3. OverlapSpec => []PeakInv
  BY <1>1, <1>2, InitPeak, PTL DEF OverlapSpec
<1>4. TypeOK /\ PeakInv => OverbookingBounded
  <2> SUFFICES ASSUME TypeOK, PeakInv, NEW c \in Class
               PROVE  Cardinality(Active(c)) < peak[c] + Cardinality(Request)
    BY DEF OverbookingBounded
  <2>1. Cardinality(Active(c)) <= Cardinality(Potential(c))
    BY PotentialFinite, FS_Subset
  <2>2. QED
    BY <2>1, CapacityNat DEF PeakInv
<1>5. QED
  BY <1>2, <1>3, <1>4, PTL

(***************************************************************************)
(* What a race cannot reach                                                *)
(***************************************************************************)

\* A handler that enters program counter "status" read the row as ACTIVE.
LEMMA StatusBegins ==
    ASSUME TypeOK, [Next]_vars, NEW q \in Request, pc'[q] = "status"
    PROVE  \/ pc[q] = "status" /\ loc'[q] = loc[q]
           \/ enrollment[loc'[q].cls][loc'[q].stu] = "ACTIVE"
<1>1. ASSUME NEW r \in Request, EnrollmentStep(r)
      PROVE  \/ pc[q] = "status" /\ loc'[q] = loc[q]
             \/ enrollment[loc'[q].cls][loc'[q].stu] = "ACTIVE"
  <2>1. ASSUME NEW s \in Student, NEW c \in Class, NEW target \in EnrollmentStatus,
               SetStatusRead(r, s, c, target)
        PROVE  enrollment[c][s] = "ACTIVE"
    BY <2>1 DEF SetStatusRead, AllowedTransitions
  <2>2. ASSUME NEW s \in Student, NEW c \in Class, UnenrollRead(r, s, c)
        PROVE  enrollment[c][s] = "ACTIVE"
    BY <2>2 DEF UnenrollRead, TypeOK, EnrollmentStatus
  <2>3. QED
    BY <1>1, <2>1, <2>2
    DEF EnrollmentStep, EnrollReadStudent, SetStatusRead, UnenrollRead,
        EnrollReadClass, EnrollCount, EnrollFindExisting, EnrollInsert,
        SaveStatus, Finish, Fail, Goto, TypeOK
<1>2. ASSUME NEW r \in Request, ClassStep(r) \/ Abandon(r)
      PROVE  pc[q] = "status" /\ loc'[q] = loc[q]
  BY <1>2
  DEF ClassStep, Abandon, ClassUpdateRead, ClassRemoveRead, ScheduleReadClass,
      ScheduleReadRow, ClassUpdateCount, ClassRemoveCountEnrollments,
      ClassRemoveCountSchedules, ScheduleInsert, ScheduleDelete, SaveSelect,
      SaveUpdate, Finish, Goto, TypeOK
<1>3. QED
  BY <1>1, <1>2 DEF Next, StudentUpdateStatus, Tick, vars

\* An enrollment changes only by an INSERT of a missing row or by the save
\* of a handler that holds it.
LEMMA EnrollmentChanges ==
    ASSUME TypeOK, [Next]_vars, NEW c \in Class, NEW s \in Student,
           enrollment'[c][s] # enrollment[c][s]
    PROVE  \/ enrollment[c][s] = "NONE"
           \/ \E r \in Request : /\ pc[r] = "status" /\ loc[r].cls = c
                                 /\ loc[r].stu = s
<1>1. ASSUME NEW r \in Request, EnrollInsert(r) PROVE enrollment[c][s] = "NONE"
  BY <1>1 DEF EnrollInsert, TypeOK
<1>2. ASSUME NEW r \in Request, SaveStatus(r)
      PROVE  pc[r] = "status" /\ loc[r].cls = c /\ loc[r].stu = s
  BY <1>2 DEF SaveStatus, TypeOK
<1>3. ASSUME NEW r \in Request, EnrollmentStep(r)
      PROVE  EnrollInsert(r) \/ SaveStatus(r)
  BY <1>3
  DEF EnrollmentStep, EnrollReadStudent, SetStatusRead, UnenrollRead,
      EnrollReadClass, EnrollCount, EnrollFindExisting, store
<1>4. ASSUME NEW r \in Request, ClassStep(r) \/ Abandon(r) PROVE FALSE
  BY <1>4
  DEF ClassStep, Abandon, ClassUpdateRead, ClassRemoveRead, ScheduleReadClass,
      ScheduleReadRow, ClassUpdateCount, ClassRemoveCountEnrollments,
      ClassRemoveCountSchedules, ScheduleInsert, ScheduleDelete, SaveSelect,
      SaveUpdate, store
<1>5. PICK r \in Request : EnrollmentStep(r) \/ ClassStep(r) \/ Abandon(r)
  BY DEF Next, StudentUpdateStatus, Tick, vars
<1>6. QED
  BY <1>1, <1>2, <1>3, <1>4, <1>5

\* A settled enrollment stays as it is for ever: history is rewritten only
\* by handlers that read the row before it became final.
THEOREM SettledStaysFinal == Spec => SettledIsFinal
<1>1. ASSUME TypeOK, [Next]_vars, NEW c \in Class, NEW s \in Student, Settled(c, s)
      PROVE  Settled(c, s)' /\ enrollment'[c][s] = enrollment[c][s]
  <2>1. enrollment'[c][s] = enrollment[c][s]
    BY <1>1, EnrollmentChanges DEF Settled
  <2>2. ASSUME NEW q \in Request, pc'[q] = "status"
        PROVE  ~(loc'[q].cls = c /\ loc'[q].stu = s)
    BY <1>1, <2>2, StatusBegins DEF Settled
  <2>3. QED
    BY <1>1, <2>1, <2>2 DEF Settled
<1>2. TypeOK /\ [Next]_vars =>
        [\A c \in Class, s \in Student :
           Settled(c, s) => /\ Settled(c, s)'
                            /\ enrollment'[c][s] = enrollment[c][s]]_vars
  BY <1>1
<1>3. QED
  BY <1>2, TypeCorrect, PTL DEF Spec, SettledIsFinal

\* The steps of the enrollment endpoints keep a closed class closed.
LEMMA EnrollmentKeepsClosed ==
    ASSUME TypeOK, NEW c \in Class, ClosedForGood(c),
           NEW r \in Request, EnrollmentStep(r)
    PROVE  ClosedForGood(c)' /\ slots' = slots
<1> DEFINE closed == ClosedForGood(c)' /\ slots' = slots
<1> USE DEF TypeOK, ClosedForGood, Harmless, EntityPC, Cancelled
<1>1. ASSUME NEW s \in Student, NEW d \in Class, EnrollReadStudent(r, s, d)
      PROVE  closed
  BY <1>1 DEF EnrollReadStudent, Goto, store, Active
<1>2. ASSUME NEW s \in Student, NEW d \in Class, NEW target \in EnrollmentStatus,
             SetStatusRead(r, s, d, target)
      PROVE  closed
  <2>1. d # c
    BY <1>2 DEF SetStatusRead, AllowedTransitions, Active
  <2>2. QED
    BY <1>2, <2>1 DEF SetStatusRead, Goto, store, Active
<1>3. ASSUME NEW s \in Student, NEW d \in Class, UnenrollRead(r, s, d)
      PROVE  closed
  BY <1>3 DEF UnenrollRead, Goto, store, Active
<1>4. CASE EnrollReadClass(r)
  BY <1>4 DEF EnrollReadClass, OpenForEnrollment, Finish, Goto, store, Active
<1>5. CASE EnrollCount(r)
  BY <1>5 DEF EnrollCount, Finish, Goto, store, Active
<1>6. CASE EnrollFindExisting(r)
  BY <1>6 DEF EnrollFindExisting, Finish, Goto, store, Active
<1>7. CASE EnrollInsert(r)
  <2>1. loc[r].cls # c
    BY <1>7 DEF EnrollInsert
  <2>2. enrollment'[c] = enrollment[c]
    BY <1>7, <2>1 DEF EnrollInsert
  <2>3. QED
    BY <1>7, <2>2 DEF EnrollInsert, Finish, Fail, Goto, Active
<1>8. CASE SaveStatus(r)
  <2>1. loc[r] \in StatusFrame
    BY <1>8, FrameTable DEF SaveStatus
  <2>2. \A s \in Student : enrollment'[c][s] = "ACTIVE" => enrollment[c][s] = "ACTIVE"
    BY <1>8, <2>1 DEF SaveStatus, StatusFrame
  <2>3. QED
    BY <1>8, <2>2 DEF SaveStatus, Finish, Goto, Active
<1>9. QED
  BY <1>1, <1>2, <1>3, <1>4, <1>5, <1>6, <1>7, <1>8 DEF EnrollmentStep

\* The steps of the class and schedule endpoints keep a closed class closed.
LEMMA ClassKeepsClosed ==
    ASSUME TypeOK, NEW c \in Class, ClosedForGood(c),
           NEW r \in Request, ClassStep(r)
    PROVE  ClosedForGood(c)' /\ slots'[c] \subseteq slots[c]
<1> DEFINE closed == ClosedForGood(c)' /\ slots'[c] \subseteq slots[c]
<1> USE DEF TypeOK, ClosedForGood, Harmless, EntityPC, Cancelled
<1>1. ASSUME NEW d \in Class, NEW new \in ClassRow, ClassUpdateRead(r, d, new)
      PROVE  closed
  BY <1>1 DEF ClassUpdateRead, Patched, Goto, store, Active
<1>2. ASSUME NEW d \in Class, ClassRemoveRead(r, d)
      PROVE  closed
  <2>1. Deactivated(class[d]).lifecycleStatus = "CANCELLED"
    BY DEF Deactivated, ClassRow
  <2>2. QED
    BY <1>2, <2>1 DEF ClassRemoveRead, Goto, store, Active
<1>3. ASSUME NEW d \in Class, ScheduleReadClass(r, d)
      PROVE  closed
  BY <1>3 DEF ScheduleReadClass, Editable, Goto, store, Active
<1>4. ASSUME NEW d \in Class, NEW k \in Slot, ScheduleReadRow(r, d, k)
      PROVE  closed
  BY <1>4 DEF ScheduleReadRow, Goto, store, Active
<1>5. CASE ClassUpdateCount(r)
  BY <1>5 DEF ClassUpdateCount, Finish, Goto, store, Active
<1>6. CASE ClassRemoveCountEnrollments(r)
  BY <1>6 DEF ClassRemoveCountEnrollments, Finish, Goto, store, Active
<1>7. CASE ClassRemoveCountSchedules(r)
  BY <1>7 DEF ClassRemoveCountSchedules, Finish, Goto, store, Active
<1>8. CASE ScheduleInsert(r)
  <2>1. loc[r].cls # c
    BY <1>8 DEF ScheduleInsert
  <2>2. slots'[c] = slots[c]
    BY <1>8, <2>1 DEF ScheduleInsert
  <2>3. QED
    BY <1>8, <2>2 DEF ScheduleInsert, Finish, Goto, Active
<1>9. CASE ScheduleDelete(r)
  <2>1. slots'[c] \subseteq slots[c]
    BY <1>9 DEF ScheduleDelete
  <2>2. QED
    BY <1>9, <2>1 DEF ScheduleDelete, Finish, Goto, Active
<1>10. CASE SaveSelect(r)
  BY <1>10 DEF SaveSelect, Goto, store, Active
<1>11. CASE SaveUpdate(r)
  <2>1. class'[c].lifecycleStatus = "CANCELLED"
    BY <1>11 DEF SaveUpdate
  <2>2. QED
    BY <1>11, <2>1 DEF SaveUpdate, Finish, Goto, Active
<1>12. QED
  BY <1>1, <1>2, <1>3, <1>4, <1>5, <1>6, <1>7, <1>8, <1>9, <1>10, <1>11
  DEF ClassStep

\* A class that is cancelled, empty and read by nobody is closed for ever,
\* whatever overlaps afterwards.
THEOREM ClosedForEver == Spec => ClosedStaysClosed
<1>1. ASSUME TypeOK, [Next]_vars, NEW c \in Class, ClosedForGood(c)
      PROVE  ClosedForGood(c)' /\ slots'[c] \subseteq slots[c]
  <2>1. ASSUME NEW r \in Request, Abandon(r)
        PROVE  ClosedForGood(c)' /\ slots'[c] \subseteq slots[c]
    BY <1>1, <2>1 DEF Abandon, Finish, Goto, store, TypeOK, ClosedForGood,
                      Harmless, EntityPC, Cancelled, Active
  <2>2. ASSUME UNCHANGED <<class, enrollment, slots, pc, loc>>
        PROVE  ClosedForGood(c)' /\ slots'[c] \subseteq slots[c]
    BY <1>1, <2>2 DEF ClosedForGood, Harmless, Cancelled, Active
  <2>3. QED
    BY <1>1, <2>1, <2>2, EnrollmentKeepsClosed, ClassKeepsClosed
    DEF Next, StudentUpdateStatus, Tick, vars
<1>2. TypeOK /\ [Next]_vars =>
        [\A c \in Class :
           ClosedForGood(c) => ClosedForGood(c)' /\ slots'[c] \subseteq slots[c]]_vars
  BY <1>1
<1>3. QED
  BY <1>2, TypeCorrect, PTL DEF Spec, ClosedStaysClosed

(***************************************************************************)
(* One request at a time: the promises of the enrollment and class         *)
(* services                                                                *)
(***************************************************************************)


\* Requests never overlap: there is one slot to run them in.
OneRequest == \A r1, r2 \in Request : r1 = r2

\* A set of students is finite and its size a number.
LEMMA StudentSet ==
    ASSUME NEW A, A \subseteq Student
    PROVE  IsFiniteSet(A) /\ Cardinality(A) \in Nat
BY RosterAssumption, FS_Subset, FS_CardinalityType

\* A smaller set of students has at most as many members.
LEMMA FewerStudents ==
    ASSUME NEW B, B \subseteq Student, NEW A, A \subseteq B
    PROVE  /\ Cardinality(A) \in Nat /\ Cardinality(B) \in Nat
           /\ Cardinality(A) <= Cardinality(B)
BY StudentSet, FS_Subset

\* Locals forgotten, nothing is claimed of them.
LEMMA FinishKnows ==
    ASSUME OneRequest, TypeOK, NEW r \in Request, Finish(r) \/ Fail(r)
    PROVE  \A q \in Request : HandlerKnows(q)'
BY DEF OneRequest, Finish, Fail, Goto, TypeOK, HandlerKnows

\* Rows unchanged, the promises about them stand.
LEMMA SameRows ==
    ASSUME SerialInv, UNCHANGED store
    PROVE  CapacityRespected' /\ CancelledClassEmpty'
BY DEF SerialInv, store, CapacityRespected, CancelledClassEmpty, Active, Cancelled

\* The enrollment endpoints keep the serial invariant.
LEMMA EnrollmentSerial ==
    ASSUME OneRequest, TypeOK, SerialInv, NEW r \in Request, EnrollmentStep(r)
    PROVE  SerialInv'
<1> USE DEF OneRequest
<1>1. ASSUME NEW s \in Student, NEW c \in Class, EnrollReadStudent(r, s, c)
      PROVE  SerialInv'
  <2>1. HandlerKnows(r)'
    BY <1>1 DEF EnrollReadStudent, Goto, TypeOK, HandlerKnows
  <2>2. QED
    BY <1>1, <2>1, SameRows DEF EnrollReadStudent, SerialInv
<1>2. ASSUME NEW s \in Student, NEW c \in Class, NEW target \in EnrollmentStatus,
             SetStatusRead(r, s, c, target)
      PROVE  SerialInv'
  <2>1. enrollment[c][s] = "ACTIVE"
    BY <1>2 DEF SetStatusRead, AllowedTransitions
  <2>2. HandlerKnows(r)'
    BY <1>2, <2>1 DEF SetStatusRead, Goto, TypeOK, HandlerKnows, store
  <2>3. QED
    BY <1>2, <2>2, SameRows DEF SetStatusRead, SerialInv
<1>3. ASSUME NEW s \in Student, NEW c \in Class, UnenrollRead(r, s, c)
      PROVE  SerialInv'
  <2>1. enrollment[c][s] = "ACTIVE"
    BY <1>3 DEF UnenrollRead, TypeOK, EnrollmentStatus
  <2>2. HandlerKnows(r)'
    BY <1>3, <2>1 DEF UnenrollRead, Goto, TypeOK, HandlerKnows, store
  <2>3. QED
    BY <1>3, <2>2, SameRows DEF UnenrollRead, SerialInv
<1>4. CASE EnrollReadClass(r)
  <2>1. HandlerKnows(r)'
    BY <1>4 DEF EnrollReadClass, OpenForEnrollment, Finish, Goto, TypeOK,
                HandlerKnows, Cancelled, store
  <2>2. QED
    BY <1>4, <2>1, SameRows DEF EnrollReadClass, SerialInv
<1>5. CASE EnrollCount(r)
  <2> DEFINE f == loc[r]
  <2>1. f \in CountFrame
    BY <1>5, FrameTable DEF EnrollCount, TypeOK
  <2>2. ~Cancelled(f.cls) /\ f.cap = class[f.cls].capacity
    BY <1>5 DEF EnrollCount, SerialInv, HandlerKnows
  <2>3. CASE ~HasSeat(f.cls, f.cap)
    BY <1>5, <2>3, FinishKnows, SameRows DEF EnrollCount, SerialInv
  <2>4. CASE HasSeat(f.cls, f.cap)
    <3>1. /\ pc'[r] = "existing"
          /\ loc'[r] = [stu |-> f.stu, cls |-> f.cls]
          /\ UNCHANGED store
      BY <1>5, <2>4 DEF EnrollCount, Goto, TypeOK
    <3>2. loc'[r].cls = f.cls /\ Cardinality(Active(f.cls)) < class[f.cls].capacity
      BY <2>2, <2>4, <3>1 DEF HasSeat
    <3>3. /\ ~Cancelled(loc[r].cls)'
          /\ (Cardinality(Active(loc[r].cls)) < class[loc[r].cls].capacity)'
      BY <2>2, <3>1, <3>2 DEF store, Active, Cancelled
    <3>4. HandlerKnows(r)'
      BY <3>1, <3>3 DEF HandlerKnows
    <3>5. QED
      BY <3>1, <3>4, SameRows DEF SerialInv
  <2>5. QED
    BY <2>3, <2>4
<1>6. CASE EnrollFindExisting(r)
  <2> DEFINE f == loc[r]
  <2>1. /\ ~Cancelled(f.cls)
        /\ Cardinality(Active(f.cls)) < class[f.cls].capacity
    BY <1>6 DEF EnrollFindExisting, SerialInv, HandlerKnows
  <2>2. CASE Finish(r)
    BY <1>6, <2>2, FinishKnows, SameRows DEF EnrollFindExisting, SerialInv
  <2>3. CASE Goto(r, "insert", f)
    <3>1. pc'[r] = "insert" /\ loc'[r] = f /\ UNCHANGED store
      BY <1>6, <2>3 DEF EnrollFindExisting, Goto, TypeOK
    <3>2. /\ ~Cancelled(loc[r].cls)'
          /\ (Cardinality(Active(loc[r].cls)) < class[loc[r].cls].capacity)'
      BY <2>1, <3>1 DEF store, Active, Cancelled
    <3>3. HandlerKnows(r)'
      BY <3>1, <3>2 DEF HandlerKnows
    <3>4. QED
      BY <3>1, <3>3, SameRows DEF SerialInv
  <2>4. QED
    BY <1>6, <2>2, <2>3 DEF EnrollFindExisting
<1>7. CASE EnrollInsert(r)
  <2>1. /\ loc[r].cls \in Class /\ loc[r].stu \in Student
        /\ ~Cancelled(loc[r].cls)
        /\ Cardinality(Active(loc[r].cls)) < class[loc[r].cls].capacity
    <3>1. loc[r] \in StudentFrame /\ pc[r] = "insert" /\ HandlerKnows(r)
      BY <1>7, FrameTable DEF EnrollInsert, TypeOK, SerialInv
    <3>2. loc[r].cls \in Class /\ loc[r].stu \in Student
      BY <3>1 DEF StudentFrame
    <3>3. QED
      BY <3>1, <3>2 DEF HandlerKnows
  <2>2. \A c \in Class : Active(c)' \subseteq
          IF c = loc[r].cls THEN Active(c) \cup {loc[r].stu} ELSE Active(c)
    BY <1>7, <2>1 DEF EnrollInsert, TypeOK, Active
  <2>3. ASSUME NEW c \in Class PROVE Cardinality(Active(c)') <= class[c].capacity
    <3>1. class[c].capacity \in Nat
      BY DEF TypeOK, ClassRow, Capacity
    <3>2. Active(c) \subseteq Student
      BY DEF Active
    <3>3. CASE c = loc[r].cls
      <4>1. Cardinality(Active(c) \cup {loc[r].stu}) <= Cardinality(Active(c)) + 1
        <5>1. IsFiniteSet(Active(c)) /\ Cardinality(Active(c)) \in Nat
          BY <3>2, StudentSet
        <5>2. Cardinality(Active(c) \cup {loc[r].stu})
                = IF loc[r].stu \in Active(c) THEN Cardinality(Active(c))
                                             ELSE Cardinality(Active(c)) + 1
          BY <5>1, FS_AddElement, Zenon
        <5>3. QED
          BY <5>1, <5>2
      <4>2. /\ Active(c) \cup {loc[r].stu} \subseteq Student
            /\ Active(c)' \subseteq Active(c) \cup {loc[r].stu}
        BY <2>1, <2>2, <3>2, <3>3
      <4>3. QED
        BY <2>1, <3>1, <3>2, <3>3, <4>1, <4>2, FewerStudents, StudentSet
    <3>4. CASE c # loc[r].cls
      BY <2>2, <3>1, <3>2, <3>4, FewerStudents DEF SerialInv, CapacityRespected
    <3>5. QED
      BY <3>3, <3>4
  <2>4. CapacityRespected' /\ CancelledClassEmpty'
    BY <1>7, <2>1, <2>2, <2>3
    DEF EnrollInsert, SerialInv, CapacityRespected, CancelledClassEmpty, Cancelled
  <2>5. QED
    BY <1>7, <2>4, FinishKnows DEF EnrollInsert, SerialInv
<1>8. CASE SaveStatus(r)
  <2>1. /\ loc[r].cls \in Class /\ loc[r].stu \in Student
        /\ enrollment[loc[r].cls][loc[r].stu] = "ACTIVE"
    <3>1. loc[r] \in StatusFrame /\ pc[r] = "status" /\ HandlerKnows(r)
      BY <1>8, FrameTable DEF SaveStatus, TypeOK, SerialInv
    <3>2. loc[r].cls \in Class /\ loc[r].stu \in Student
      BY <3>1 DEF StatusFrame
    <3>3. QED
      BY <3>1, <3>2 DEF HandlerKnows
  <2>2. \A c \in Class : Active(c)' \subseteq Active(c) /\ Active(c) \subseteq Student
    BY <1>8, <2>1 DEF SaveStatus, TypeOK, Active
  <2>3. \A c \in Class : class[c].capacity \in Nat
    BY DEF TypeOK, ClassRow, Capacity
  <2>4. \A c \in Class : Cardinality(Active(c)') <= Cardinality(Active(c))
    BY <2>2, FewerStudents
  <2>5. \A c \in Class : Cardinality(Active(c)') \in Nat /\ Cardinality(Active(c)) \in Nat
    BY <2>2, FewerStudents
  <2>6. CapacityRespected' /\ CancelledClassEmpty'
    BY <1>8, <2>2, <2>3, <2>4, <2>5
    DEF SaveStatus, SerialInv, CapacityRespected, CancelledClassEmpty, Cancelled
  <2>7. QED
    BY <1>8, <2>6, FinishKnows DEF SaveStatus, SerialInv
<1>9. QED
  BY <1>1, <1>2, <1>3, <1>4, <1>5, <1>6, <1>7, <1>8 DEF EnrollmentStep

\* Overwriting the dirty columns leaves exactly the entity.
LEMMA SavedRow ==
    ASSUME TypeOK, SerialInv, NEW r \in Request, SaveUpdate(r)
    PROVE  /\ loc[r].cls \in Class /\ loc[r].row \in ClassRow
           /\ class' = [class EXCEPT ![loc[r].cls] = loc[r].row]
<1> DEFINE f == loc[r]
<1>1. f \in DirtyFrame /\ pc[r] = "update" /\ HandlerKnows(r)
  BY FrameTable DEF SaveUpdate, TypeOK, SerialInv
<1>2. f.cls \in Class /\ f.row \in ClassRow
  BY <1>1 DEF DirtyFrame
<1>3. \A k \in Column \ f.dirty : f.row[k] = class[f.cls][k]
  BY <1>1 DEF HandlerKnows
<1>4. f.row = [status |-> f.row["status"],
               lifecycleStatus |-> f.row["lifecycleStatus"],
               capacity |-> f.row["capacity"], endDate |-> f.row["endDate"]]
  BY <1>2 DEF ClassRow
<1>5. QED
  BY <1>2, <1>3, <1>4 DEF SaveUpdate, Column

\* The class and schedule endpoints keep the serial invariant.
LEMMA ClassSerial ==
    ASSUME OneRequest, TypeOK, SerialInv, NEW r \in Request, ClassStep(r)
    PROVE  SerialInv'
<1> USE DEF OneRequest
<1> DEFINE f == loc[r]
<1>0. \A c \in Class : /\ class[c] \in ClassRow
                       /\ class[c].capacity \in Nat
                       /\ Cardinality(Active(c)) \in Nat
                       /\ Cardinality(Active(c)) <= class[c].capacity
  BY StudentSet DEF TypeOK, ClassRow, Capacity, SerialInv, CapacityRespected, Active
<1>1. ASSUME NEW c \in Class, NEW new \in ClassRow, ClassUpdateRead(r, c, new)
      PROVE  SerialInv'
  <2>1. /\ loc'[r] = [cls |-> c, row |-> new]
        /\ pc'[r] = IF new.capacity < class[c].capacity THEN "capacity" ELSE "select"
        /\ new.lifecycleStatus = class[c].lifecycleStatus
        /\ UNCHANGED store
    BY <1>1 DEF ClassUpdateRead, Goto, TypeOK, Patched
  <2>2. pc'[r] = "select" => Cardinality(Active(c)) <= new.capacity
    BY <1>0, <2>1 DEF ClassRow, Capacity
  <2>3. Cancelled(c) => Active(c) = {} /\ slots[c] = {}
    BY DEF SerialInv, CancelledClassEmpty
  <2>4. HandlerKnows(r)'
    BY <2>1, <2>2, <2>3 DEF HandlerKnows, store, Active, Cancelled
  <2>5. QED
    BY <2>1, <2>4, SameRows DEF SerialInv
<1>2. ASSUME NEW c \in Class, ClassRemoveRead(r, c)
      PROVE  SerialInv'
  <2>1. /\ loc'[r] = [cls |-> c, row |-> Deactivated(class[c])]
        /\ pc'[r] = "enrolled" /\ UNCHANGED store
    BY <1>2 DEF ClassRemoveRead, Goto, TypeOK
  <2>2. HandlerKnows(r)'
    BY <2>1 DEF HandlerKnows, store
  <2>3. QED
    BY <2>1, <2>2, SameRows DEF SerialInv
<1>3. ASSUME NEW c \in Class, ScheduleReadClass(r, c)
      PROVE  SerialInv'
  <2>1. /\ loc'[r] = [cls |-> c] /\ pc'[r] = "slot" /\ ~Cancelled(c)
        /\ UNCHANGED store
    BY <1>3 DEF ScheduleReadClass, Goto, TypeOK, Editable, Cancelled
  <2>2. HandlerKnows(r)'
    BY <2>1 DEF HandlerKnows, store, Cancelled
  <2>3. QED
    BY <2>1, <2>2, SameRows DEF SerialInv
<1>4. ASSUME NEW c \in Class, NEW k \in Slot, ScheduleReadRow(r, c, k)
      PROVE  SerialInv'
  <2>1. pc'[r] = "unslot" /\ UNCHANGED store
    BY <1>4 DEF ScheduleReadRow, Goto, TypeOK
  <2>2. HandlerKnows(r)'
    BY <2>1 DEF HandlerKnows
  <2>3. QED
    BY <2>1, <2>2, SameRows DEF SerialInv
<1>5. CASE ClassUpdateCount(r)
  <2>1. /\ f \in EntityFrame /\ UNCHANGED store
        /\ f.row.lifecycleStatus = class[f.cls].lifecycleStatus
    BY <1>5, FrameTable DEF ClassUpdateCount, TypeOK, SerialInv, HandlerKnows
  <2>2. CASE Finish(r)
    BY <2>1, <2>2, FinishKnows, SameRows DEF SerialInv
  <2>3. CASE /\ ~(Cardinality(Active(f.cls)) > f.row.capacity)
             /\ Goto(r, "select", f)
    <3>1. pc'[r] = "select" /\ loc'[r] = f
      BY <2>3 DEF Goto, TypeOK
    <3>2. f.cls \in Class /\ Cardinality(Active(f.cls)) <= f.row.capacity
      BY <1>0, <2>1, <2>3 DEF EntityFrame, ClassRow, Capacity
    <3>3. Cancelled(f.cls) => Active(f.cls) = {} /\ slots[f.cls] = {}
      BY <3>2 DEF SerialInv, CancelledClassEmpty
    <3>4. HandlerKnows(r)'
      BY <2>1, <3>1, <3>2, <3>3 DEF HandlerKnows, store, Active, Cancelled
    <3>5. QED
      BY <2>1, <3>4, SameRows DEF SerialInv
  <2>4. QED
    BY <1>5, <2>2, <2>3 DEF ClassUpdateCount
<1>6. CASE ClassRemoveCountEnrollments(r)
  <2>1. f.row = Deactivated(class[f.cls]) /\ UNCHANGED store
    BY <1>6 DEF ClassRemoveCountEnrollments, SerialInv, HandlerKnows
  <2>2. CASE Finish(r)
    BY <2>1, <2>2, FinishKnows, SameRows DEF SerialInv
  <2>3. CASE Active(f.cls) = {} /\ Goto(r, "scheduled", f)
    <3>1. pc'[r] = "scheduled" /\ loc'[r] = f
      BY <2>3 DEF Goto, TypeOK
    <3>2. HandlerKnows(r)'
      BY <2>1, <2>3, <3>1 DEF HandlerKnows, store, Active
    <3>3. QED
      BY <2>1, <3>2, SameRows DEF SerialInv
  <2>4. QED
    BY <1>6, <2>2, <2>3 DEF ClassRemoveCountEnrollments
<1>7. CASE ClassRemoveCountSchedules(r)
  <2>1. /\ f.row = Deactivated(class[f.cls]) /\ Active(f.cls) = {}
        /\ f \in EntityFrame /\ UNCHANGED store
    <3>1. f.row = Deactivated(class[f.cls]) /\ Active(f.cls) = {}
      BY <1>7 DEF ClassRemoveCountSchedules, SerialInv, HandlerKnows
    <3>2. f \in EntityFrame
      BY <1>7, FrameTable DEF ClassRemoveCountSchedules, TypeOK
    <3>3. QED
      BY <1>7, <3>1, <3>2 DEF ClassRemoveCountSchedules
  <2>2. CASE Finish(r)
    BY <2>1, <2>2, FinishKnows, SameRows DEF SerialInv
  <2>3. CASE slots[f.cls] = {} /\ Goto(r, "select", f)
    <3>1. pc'[r] = "select" /\ loc'[r] = f
      BY <2>3 DEF Goto, TypeOK
    <3>2. Cardinality(Active(f.cls)) <= f.row.capacity
      BY <2>1, FS_EmptySet DEF EntityFrame, ClassRow, Capacity
    <3>3. f.row.lifecycleStatus = "CANCELLED"
      BY <1>0, <2>1 DEF EntityFrame, Deactivated, ClassRow
    <3>4. HandlerKnows(r)'
      BY <2>1, <2>3, <3>1, <3>2, <3>3 DEF HandlerKnows, store, Active
    <3>5. QED
      BY <2>1, <3>4, SameRows DEF SerialInv
  <2>4. QED
    BY <1>7, <2>2, <2>3 DEF ClassRemoveCountSchedules
<1>8. CASE ScheduleInsert(r)
  <2>1. f \in SlotFrame /\ ~Cancelled(f.cls)
    BY <1>8, FrameTable DEF ScheduleInsert, TypeOK, SerialInv, HandlerKnows
  <2>2. \A c \in Class : c # f.cls => slots'[c] = slots[c]
    BY <1>8, <2>1 DEF ScheduleInsert, TypeOK, SlotFrame
  <2>3. CapacityRespected' /\ CancelledClassEmpty'
    BY <1>8, <2>1, <2>2
    DEF ScheduleInsert, SerialInv, CapacityRespected, CancelledClassEmpty,
        Active, Cancelled
  <2>4. QED
    BY <1>8, <2>3, FinishKnows DEF ScheduleInsert, SerialInv
<1>9. CASE ScheduleDelete(r)
  <2>1. f \in SlotRowFrame
    BY <1>9, FrameTable DEF ScheduleDelete, TypeOK
  <2>2. \A c \in Class : slots'[c] \subseteq slots[c]
    BY <1>9, <2>1 DEF ScheduleDelete, TypeOK, SlotRowFrame
  <2>3. CapacityRespected' /\ CancelledClassEmpty'
    BY <1>9, <2>2
    DEF ScheduleDelete, SerialInv, CapacityRespected, CancelledClassEmpty,
        Active, Cancelled
  <2>4. QED
    BY <1>9, <2>3, FinishKnows DEF ScheduleDelete, SerialInv
<1>10. CASE SaveSelect(r)
  <2> DEFINE d == {k \in Column : f.row[k] # class[f.cls][k]}
  <2>1. /\ pc'[r] = "update" /\ UNCHANGED store
        /\ loc'[r] = [cls |-> f.cls, row |-> f.row, dirty |-> d]
    BY <1>10 DEF SaveSelect, Goto, TypeOK
  <2>2. \A k \in Column \ d : f.row[k] = class[f.cls][k]
    OBVIOUS
  <2>3. /\ Cardinality(Active(f.cls)) <= f.row.capacity
        /\ f.row.lifecycleStatus = "CANCELLED"
             => Active(f.cls) = {} /\ slots[f.cls] = {}
        /\ Cancelled(f.cls) => f.row.lifecycleStatus = "CANCELLED"
    BY <1>10 DEF SaveSelect, SerialInv, HandlerKnows
  <2> HIDE DEF d
  <2>4. HandlerKnows(r)'
    BY <2>1, <2>2, <2>3 DEF HandlerKnows, store, Active, Cancelled
  <2>5. QED
    BY <2>1, <2>4, SameRows DEF SerialInv
<1>11. CASE SaveUpdate(r)
  <2>1. /\ f.cls \in Class /\ class' = [class EXCEPT ![f.cls] = f.row]
        /\ UNCHANGED <<enrollment, slots>>
    BY <1>11, SavedRow DEF SaveUpdate
  <2>2. /\ Cardinality(Active(f.cls)) <= f.row.capacity
        /\ f.row.lifecycleStatus = "CANCELLED"
             => Active(f.cls) = {} /\ slots[f.cls] = {}
    BY <1>11 DEF SaveUpdate, SerialInv, HandlerKnows
  <2>3. \A c \in Class : class'[c] = IF c = f.cls THEN f.row ELSE class[c]
    BY <2>1 DEF TypeOK
  <2>4. \A c \in Class : Active(c)' = Active(c) /\ slots'[c] = slots[c]
    BY <2>1 DEF Active
  <2>5. CapacityRespected'
    BY <2>2, <2>3, <2>4 DEF SerialInv, CapacityRespected
  <2>6. CancelledClassEmpty'
    BY <2>2, <2>3, <2>4 DEF SerialInv, CancelledClassEmpty, Cancelled
  <2>7. QED
    BY <1>11, <2>5, <2>6, FinishKnows DEF SaveUpdate, SerialInv
<1>12. QED
  BY <1>1, <1>2, <1>3, <1>4, <1>5, <1>6, <1>7, <1>8, <1>9, <1>10, <1>11
  DEF ClassStep

\* Every step keeps the serial invariant.
LEMMA NextSerial ==
    ASSUME OneRequest
    PROVE  TypeOK /\ SerialInv /\ [Next]_vars => SerialInv'
<1> SUFFICES ASSUME TypeOK, SerialInv, [Next]_vars PROVE SerialInv'
  OBVIOUS
<1>1. ASSUME NEW r \in Request, Abandon(r) PROVE SerialInv'
  BY <1>1, FinishKnows, SameRows DEF Abandon, SerialInv
<1>2. ASSUME UNCHANGED <<class, enrollment, slots, pc, loc>> PROVE SerialInv'
  BY <1>2 DEF SerialInv, CapacityRespected, CancelledClassEmpty, HandlerKnows,
              Active, Cancelled
<1>3. QED
  BY <1>1, <1>2, EnrollmentSerial, ClassSerial
  DEF Next, StudentUpdateStatus, Tick, vars

\* A new roster satisfies the serial invariant.
LEMMA InitSerial == Init => SerialInv
<1> SUFFICES ASSUME Init PROVE SerialInv
  OBVIOUS
<1>1. \A c \in Class : Active(c) = {} /\ class[c] \in ClassRow /\ ~Cancelled(c)
  BY DEF Init, Active, Cancelled
<1>2. CapacityRespected
  BY <1>1, FS_EmptySet DEF CapacityRespected, ClassRow, Capacity
<1>3. QED
  BY <1>1, <1>2 DEF Init, SerialInv, CancelledClassEmpty, HandlerKnows

\* The serial invariant holds throughout when requests never overlap.
THEOREM SerialCorrect ==
    ASSUME OneRequest
    PROVE  Spec => []SerialInv
BY InitSerial, NextSerial, TypeCorrect, PTL DEF Spec

\* When requests never overlap, no class has more ACTIVE enrollments than
\* its capacity: the checks of create and update are complete.
THEOREM CapacityIsRespected ==
    ASSUME OneRequest
    PROVE  Spec => []CapacityRespected
<1>1. SerialInv => CapacityRespected
  BY DEF SerialInv
<1>2. QED
  BY <1>1, SerialCorrect, PTL

\* When requests never overlap, a cancelled class is empty: the checks of
\* ClassesService.remove and of the endpoints that fill a class agree.
THEOREM CancelledClassIsEmpty ==
    ASSUME OneRequest
    PROVE  Spec => []CancelledClassEmpty
<1>1. SerialInv => CancelledClassEmpty
  BY DEF SerialInv
<1>2. QED
  BY <1>1, SerialCorrect, PTL

\* When requests never overlap, COMPLETED and CANCELLED enrollments are
\* never rewritten.
THEOREM FinalStatusIsKept ==
    ASSUME OneRequest
    PROVE  Spec => FinalStatusKept
<1>1. ASSUME TypeOK, SerialInv, [Next]_vars, NEW c \in Class, NEW s \in Student,
             enrollment[c][s] \in {"COMPLETED", "CANCELLED"}
      PROVE  enrollment'[c][s] = enrollment[c][s]
  BY <1>1, EnrollmentChanges DEF SerialInv, HandlerKnows
<1>2. TypeOK /\ SerialInv /\ [Next]_vars =>
        [\A c \in Class, s \in Student :
           enrollment[c][s] \in {"COMPLETED", "CANCELLED"}
             => enrollment'[c][s] = enrollment[c][s]]_vars
  BY <1>1
<1>3. QED
  BY <1>2, TypeCorrect, SerialCorrect, PTL DEF Spec, FinalStatusKept

\* When requests never overlap, a cancelled class stays cancelled.
THEOREM CancellationIsKept ==
    ASSUME OneRequest
    PROVE  Spec => CancellationKept
<1>1. ASSUME TypeOK, SerialInv, [Next]_vars, NEW c \in Class, Cancelled(c)
      PROVE  Cancelled(c)'
  <2>1. ASSUME NEW r \in Request, SaveUpdate(r) PROVE Cancelled(c)'
    <3>1. /\ loc[r].cls \in Class
          /\ class' = [class EXCEPT ![loc[r].cls] = loc[r].row]
      BY <1>1, <2>1, SavedRow
    <3>2. Cancelled(loc[r].cls) => loc[r].row.lifecycleStatus = "CANCELLED"
      BY <1>1, <2>1 DEF SaveUpdate, SerialInv, HandlerKnows
    <3>3. class'[c] = IF c = loc[r].cls THEN loc[r].row ELSE class[c]
      BY <1>1, <3>1 DEF TypeOK
    <3>4. QED
      BY <1>1, <3>2, <3>3 DEF Cancelled
  <2>2. ASSUME UNCHANGED class PROVE Cancelled(c)'
    BY <1>1, <2>2 DEF Cancelled
  <2>3. QED
    BY <1>1, <2>1, <2>2
    DEF Next, EnrollmentStep, EnrollReadStudent, SetStatusRead, UnenrollRead,
        EnrollReadClass, EnrollCount, EnrollFindExisting, EnrollInsert,
        SaveStatus, ClassStep, Abandon, ClassUpdateRead, ClassRemoveRead,
        ScheduleReadClass, ScheduleReadRow, ClassUpdateCount,
        ClassRemoveCountEnrollments, ClassRemoveCountSchedules, ScheduleInsert,
        ScheduleDelete, SaveSelect, StudentUpdateStatus, Tick, store, vars
<1>2. TypeOK /\ SerialInv /\ [Next]_vars =>
        [\A c \in Class : Cancelled(c) => Cancelled(c)']_vars
  BY <1>1
<1>3. QED
  BY <1>2, TypeCorrect, SerialCorrect, PTL DEF Spec, CancellationKept

(***************************************************************************)
(* A class is overbooked only by requests that were overlapped             *)
(***************************************************************************)

\* What a handler knows of the seats of its class while no other request has
\* written the class since the handler read it.
SeatsKnown(r) ==
    LET f == loc[r]
        active == Cardinality(Active(f.cls))
        capacity == class[f.cls].capacity
    IN  /\ pc[r] = "count" => f.cap = capacity
        /\ pc[r] \in {"existing", "insert"} => active < capacity
        /\ pc[r] = "status" => enrollment[f.cls][f.stu] = "ACTIVE"
        /\ pc[r] \in {"enrolled", "scheduled"} => f.row.capacity = capacity
        /\ pc[r] \in {"select", "update"} =>
             f.row.capacity >= capacity \/ active <= f.row.capacity
        /\ pc[r] = "update" => "capacity" \in f.dirty \/ f.row.capacity = capacity

\* The history knows every request that may be out of date.
OverlapInv == \A r \in Request : r \notin overlapped => SeatsKnown(r)

\* What the statements of the enrollment endpoints find out.
LEMMA EnrollmentLearns ==
    ASSUME TypeOK, NEW r \in Request, EnrollmentStep(r),
           HasRead(r) => SeatsKnown(r), HasRead(r)'
    PROVE  SeatsKnown(r)'
<1>1. ASSUME NEW s \in Student, NEW c \in Class, EnrollReadStudent(r, s, c)
      PROVE  SeatsKnown(r)'
  BY <1>1 DEF EnrollReadStudent, Goto, TypeOK, HasRead
<1>2. ASSUME NEW s \in Student, NEW c \in Class, NEW target \in EnrollmentStatus,
             SetStatusRead(r, s, c, target)
      PROVE  SeatsKnown(r)'
  <2>1. /\ pc'[r] = "status" /\ loc'[r].cls = c /\ loc'[r].stu = s
        /\ enrollment'[c][s] = "ACTIVE"
    BY <1>2 DEF SetStatusRead, AllowedTransitions, Goto, TypeOK, store
  <2>2. QED
    BY <2>1 DEF SeatsKnown
<1>3. ASSUME NEW s \in Student, NEW c \in Class, UnenrollRead(r, s, c)
      PROVE  SeatsKnown(r)'
  <2>1. /\ pc'[r] = "status" /\ loc'[r].cls = c /\ loc'[r].stu = s
        /\ enrollment'[c][s] = "ACTIVE"
    BY <1>3 DEF UnenrollRead, EnrollmentStatus, Goto, TypeOK, store
  <2>2. QED
    BY <2>1 DEF SeatsKnown
<1>4. CASE EnrollReadClass(r)
  <2>1. /\ pc'[r] = "count" /\ loc'[r].cls = loc[r].cls
        /\ loc'[r].cap = class'[loc[r].cls].capacity
    BY <1>4 DEF EnrollReadClass, Goto, Finish, TypeOK, store, HasRead
  <2>2. QED
    BY <2>1 DEF SeatsKnown
<1>5. CASE EnrollCount(r)
  <2>1. /\ pc[r] = "count" /\ pc'[r] = "existing" /\ loc'[r].cls = loc[r].cls
        /\ HasSeat(loc[r].cls, loc[r].cap) /\ UNCHANGED <<class, enrollment>>
    BY <1>5 DEF EnrollCount, Goto, Finish, TypeOK, store, HasRead
  <2>2. loc[r].cap = class[loc[r].cls].capacity
    BY <2>1 DEF SeatsKnown, HasRead
  <2>3. QED
    BY <2>1, <2>2 DEF SeatsKnown, HasSeat, Active
<1>6. CASE EnrollFindExisting(r)
  <2>1. /\ pc[r] = "existing" /\ pc'[r] = "insert" /\ loc'[r].cls = loc[r].cls
        /\ UNCHANGED <<class, enrollment>>
    BY <1>6 DEF EnrollFindExisting, Goto, Finish, TypeOK, store, HasRead
  <2>2. QED
    BY <2>1 DEF SeatsKnown, HasRead, Active
<1>7. CASE EnrollInsert(r)
  BY <1>7 DEF EnrollInsert, Finish, Fail, Goto, TypeOK, HasRead
<1>8. CASE SaveStatus(r)
  BY <1>8 DEF SaveStatus, Finish, Goto, TypeOK, HasRead
<1>9. QED
  BY <1>1, <1>2, <1>3, <1>4, <1>5, <1>6, <1>7, <1>8 DEF EnrollmentStep

\* What the statements of the class and schedule endpoints find out.
LEMMA ClassLearns ==
    ASSUME TypeOK, NEW r \in Request, ClassStep(r),
           HasRead(r) => SeatsKnown(r), HasRead(r)'
    PROVE  SeatsKnown(r)'
<1> DEFINE f == loc[r]
<1>1. ASSUME NEW c \in Class, NEW new \in ClassRow, ClassUpdateRead(r, c, new)
      PROVE  SeatsKnown(r)'
  <2>1. /\ loc'[r].cls = c /\ loc'[r].row = new /\ UNCHANGED <<class, enrollment>>
        /\ pc'[r] = IF new.capacity < class[c].capacity THEN "capacity" ELSE "select"
    BY <1>1 DEF ClassUpdateRead, Goto, TypeOK, store
  <2>2. new.capacity \in Nat /\ class[c].capacity \in Nat
    BY DEF TypeOK, ClassRow, Capacity
  <2>3. QED
    BY <2>1, <2>2 DEF SeatsKnown, Active
<1>2. ASSUME NEW c \in Class, ClassRemoveRead(r, c)
      PROVE  SeatsKnown(r)'
  <2>1. /\ loc'[r].cls = c /\ loc'[r].row = Deactivated(class[c])
        /\ pc'[r] = "enrolled" /\ UNCHANGED <<class, enrollment>>
    BY <1>2 DEF ClassRemoveRead, Goto, TypeOK, store
  <2>2. Deactivated(class[c]).capacity = class[c].capacity
    BY DEF TypeOK, ClassRow, Deactivated
  <2>3. QED
    BY <2>1, <2>2 DEF SeatsKnown, Active
<1>3. ASSUME NEW c \in Class, ScheduleReadClass(r, c)
      PROVE  SeatsKnown(r)'
  BY <1>3 DEF ScheduleReadClass, Goto, TypeOK, SeatsKnown
<1>4. ASSUME NEW c \in Class, NEW k \in Slot, ScheduleReadRow(r, c, k)
      PROVE  SeatsKnown(r)'
  BY <1>4 DEF ScheduleReadRow, Goto, TypeOK, SeatsKnown
<1>5. CASE ClassUpdateCount(r)
  <2>1. /\ pc[r] = "capacity" /\ pc'[r] = "select" /\ loc'[r] = f
        /\ ~(Cardinality(Active(f.cls)) > f.row.capacity)
        /\ UNCHANGED <<class, enrollment>>
    BY <1>5 DEF ClassUpdateCount, Goto, Finish, TypeOK, store, HasRead
  <2>2. f \in EntityFrame
    BY <2>1, FrameTable DEF TypeOK
  <2>3. f.row.capacity \in Nat /\ Cardinality(Active(f.cls)) \in Nat
    BY <2>2, CapacityNat DEF EntityFrame, ClassRow, Capacity
  <2>4. QED
    BY <2>1, <2>3 DEF SeatsKnown, Active
<1>6. CASE ClassRemoveCountEnrollments(r)
  <2>1. /\ pc[r] = "enrolled" /\ pc'[r] = "scheduled" /\ loc'[r] = f
        /\ UNCHANGED <<class, enrollment>>
    BY <1>6 DEF ClassRemoveCountEnrollments, Goto, Finish, TypeOK, store, HasRead
  <2>2. QED
    BY <2>1 DEF SeatsKnown, HasRead, Active
<1>7. CASE ClassRemoveCountSchedules(r)
  <2>1. /\ pc[r] = "scheduled" /\ pc'[r] = "select" /\ loc'[r] = f
        /\ UNCHANGED <<class, enrollment>>
    BY <1>7 DEF ClassRemoveCountSchedules, Goto, Finish, TypeOK, store, HasRead
  <2>2. f.row.capacity = class[f.cls].capacity
    BY <2>1 DEF SeatsKnown, HasRead
  <2>3. f \in EntityFrame
    BY <2>1, FrameTable DEF TypeOK
  <2>4. f.row.capacity \in Nat
    BY <2>3 DEF EntityFrame, ClassRow, Capacity
  <2>5. QED
    BY <2>1, <2>2, <2>4 DEF SeatsKnown, Active
<1>8. CASE ScheduleInsert(r) \/ ScheduleDelete(r) \/ SaveUpdate(r)
  BY <1>8 DEF ScheduleInsert, ScheduleDelete, SaveUpdate, Finish, Goto, TypeOK, HasRead
<1>9. CASE SaveSelect(r)
  <2>1. /\ pc[r] = "select" /\ pc'[r] = "update"
        /\ loc'[r].cls = f.cls /\ loc'[r].row = f.row
        /\ loc'[r].dirty = {k \in Column : f.row[k] # class[f.cls][k]}
        /\ UNCHANGED <<class, enrollment>>
    BY <1>9 DEF SaveSelect, Goto, TypeOK, store
  <2>2. \/ f.row.capacity >= class[f.cls].capacity
        \/ Cardinality(Active(f.cls)) <= f.row.capacity
    BY <2>1 DEF SeatsKnown, HasRead
  <2>3. "capacity" \in loc'[r].dirty \/ f.row.capacity = class[f.cls].capacity
    BY <2>1 DEF Column
  <2>4. QED
    BY <2>1, <2>2, <2>3 DEF SeatsKnown, Active
<1>10. QED
  BY <1>1, <1>2, <1>3, <1>4, <1>5, <1>6, <1>7, <1>8, <1>9 DEF ClassStep

\* A request that takes no step knows what it knew, unless its class is written.
LEMMA OthersStillKnow ==
    ASSUME NEW r \in Request, SeatsKnown(r), pc'[r] = pc[r], loc'[r] = loc[r],
           ~Writes(loc[r].cls)
    PROVE  SeatsKnown(r)'
BY DEF SeatsKnown, Writes, Active

\* A request whose slot's program counter has read something took a step of
\* its own or stayed where it was.
LEMMA StepOrStay ==
    ASSUME TypeOK, Next, NEW r \in Request, HasRead(r)'
    PROVE  \/ EnrollmentStep(r) \/ ClassStep(r)
           \/ pc'[r] = pc[r] /\ loc'[r] = loc[r]
<1>1. ASSUME NEW q \in Request, EnrollmentStep(q) \/ ClassStep(q), q # r
      PROVE  pc'[r] = pc[r] /\ loc'[r] = loc[r]
  BY <1>1
  DEF EnrollmentStep, EnrollReadStudent, SetStatusRead, UnenrollRead,
      EnrollReadClass, EnrollCount, EnrollFindExisting, EnrollInsert,
      SaveStatus, ClassStep, ClassUpdateRead, ClassRemoveRead, ScheduleReadClass,
      ScheduleReadRow, ClassUpdateCount, ClassRemoveCountEnrollments,
      ClassRemoveCountSchedules, ScheduleInsert, ScheduleDelete, SaveSelect,
      SaveUpdate, Finish, Fail, Goto, TypeOK
<1>2. ASSUME NEW q \in Request, Abandon(q)
      PROVE  pc'[r] = pc[r] /\ loc'[r] = loc[r]
  BY <1>2 DEF Abandon, Finish, Goto, TypeOK, HasRead
<1>3. QED
  BY <1>1, <1>2 DEF Next, StudentUpdateStatus, Tick

\* Every step keeps the history sufficient.
LEMMA NextOverlap ==
    ASSUME TypeOK, OverlapInv, OverlapNext
    PROVE  OverlapInv'
<1> SUFFICES ASSUME NEW r \in Request, r \notin overlapped'
             PROVE  SeatsKnown(r)'
  BY DEF OverlapInv
<1>1. CASE ~HasRead(r)'
  BY <1>1 DEF HasRead, SeatsKnown, TypeOK
<1>2. CASE HasRead(r)'
  <2>1. HasRead(r) => r \notin overlapped /\ ~Writes(loc[r].cls)
    BY <1>2 DEF OverlapNext, RememberOverlaps
  <2>2. HasRead(r) => SeatsKnown(r)
    BY <2>1 DEF OverlapInv
  <2>3. CASE EnrollmentStep(r)
    BY <1>2, <2>2, <2>3, EnrollmentLearns
  <2>4. CASE ClassStep(r)
    BY <1>2, <2>2, <2>4, ClassLearns
  <2>5. CASE pc'[r] = pc[r] /\ loc'[r] = loc[r]
    <3>1. HasRead(r)
      BY <1>2, <2>5 DEF HasRead
    <3>2. QED
      BY <2>1, <2>2, <2>5, <3>1, OthersStillKnow
  <2>6. QED
    BY <1>2, <2>3, <2>4, <2>5, StepOrStay DEF OverlapNext
<1>3. QED
  BY <1>1, <1>2

\* Only the statements that write a class or an enrollment change how far a
\* class is over its capacity, and only of the class they work on.
LEMMA ExcessChanges ==
    ASSUME TypeOK, [Next]_vars, NEW c \in Class, Excess(c)' # Excess(c)
    PROVE  \E r \in Request : /\ EnrollInsert(r) \/ SaveStatus(r) \/ SaveUpdate(r)
                              /\ loc[r].cls = c
<1>1. ASSUME UNCHANGED <<class, enrollment>> PROVE FALSE
  BY <1>1 DEF Excess, Active
<1>2. PICK r \in Request : EnrollInsert(r) \/ SaveStatus(r) \/ SaveUpdate(r)
  <2>1. ASSUME NEW q \in Request, EnrollmentStep(q)
        PROVE  EnrollInsert(q) \/ SaveStatus(q) \/ UNCHANGED <<class, enrollment>>
    BY <2>1
    DEF EnrollmentStep, EnrollReadStudent, SetStatusRead, UnenrollRead,
        EnrollReadClass, EnrollCount, EnrollFindExisting, store
  <2>2. ASSUME NEW q \in Request, ClassStep(q)
        PROVE  SaveUpdate(q) \/ UNCHANGED <<class, enrollment>>
    BY <2>2
    DEF ClassStep, ClassUpdateRead, ClassRemoveRead, ScheduleReadClass,
        ScheduleReadRow, ClassUpdateCount, ClassRemoveCountEnrollments,
        ClassRemoveCountSchedules, ScheduleInsert, ScheduleDelete, SaveSelect, store
  <2>3. QED
    BY <1>1, <2>1, <2>2 DEF Next, Abandon, StudentUpdateStatus, Tick, store, vars
<1>3. CASE loc[r].cls # c
  <2>1. enrollment'[c] = enrollment[c] /\ class'[c] = class[c]
    BY <1>2, <1>3 DEF EnrollInsert, SaveStatus, SaveUpdate, TypeOK
  <2>2. QED
    BY <2>1 DEF Excess, Active
<1>4. QED
  BY <1>2, <1>3

\* An enrollment that has just been counted in does not overbook.
LEMMA InsertFits ==
    ASSUME TypeOK, NEW r \in Request, EnrollInsert(r), SeatsKnown(r),
           NEW c \in Class, loc[r].cls = c
    PROVE  Excess(c)' <= 0
<1>1. loc[r] \in StudentFrame
  BY FrameTable DEF EnrollInsert, TypeOK
<1>2. PICK s \in Student : s = loc[r].stu
  BY <1>1 DEF StudentFrame
<1>3. /\ Cardinality(Active(c)) < class[c].capacity
      /\ class'[c] = class[c]
  BY DEF EnrollInsert, SeatsKnown
<1>4. Active(c)' \subseteq Active(c) \cup {s} /\ Active(c) \subseteq Student
  BY <1>2 DEF EnrollInsert, TypeOK, Active
<1>5. /\ IsFiniteSet(Active(c))
      /\ class[c].capacity \in Nat /\ Cardinality(Active(c)) \in Nat
  BY <1>4, CapacityNat, StudentSet
<1>6. Cardinality(Active(c) \cup {s})
        = IF s \in Active(c) THEN Cardinality(Active(c)) ELSE Cardinality(Active(c)) + 1
  BY <1>5, FS_AddElement, Zenon
<1>7. Active(c) \cup {s} \subseteq Student
  BY <1>2, <1>4
<1>8. /\ Cardinality(Active(c)') \in Nat
      /\ Cardinality(Active(c)') <= Cardinality(Active(c) \cup {s})
  BY <1>4, <1>7, FewerStudents
<1>9. Cardinality(Active(c)') <= class'[c].capacity
  BY <1>3, <1>5, <1>6, <1>8
<1>10. QED
  BY <1>3, <1>5, <1>8, <1>9 DEF Excess

\* Saving the status of an enrollment that is still ACTIVE lets nobody in.
LEMMA StatusFits ==
    ASSUME TypeOK, NEW r \in Request, SaveStatus(r), SeatsKnown(r),
           NEW c \in Class, loc[r].cls = c
    PROVE  Excess(c)' <= Excess(c)
<1>1. loc[r] \in StatusFrame
  BY FrameTable DEF SaveStatus, TypeOK
<1>2. loc[r].stu \in Student /\ enrollment[c][loc[r].stu] = "ACTIVE"
  BY <1>1 DEF StatusFrame, SaveStatus, SeatsKnown
<1>3. /\ Active(c)' \subseteq Active(c) /\ Active(c) \subseteq Student
      /\ class'[c] = class[c]
  BY <1>2 DEF SaveStatus, TypeOK, Active
<1>4. /\ Cardinality(Active(c)') \in Nat /\ Cardinality(Active(c)) \in Nat
      /\ Cardinality(Active(c)') <= Cardinality(Active(c))
  BY <1>3, FewerStudents
<1>5. QED
  BY <1>3, <1>4, CapacityNat DEF Excess

\* An entity saved by a request that is not out of date raises the capacity,
\* keeps it, or leaves room for the students counted.
LEMMA UpdateFits ==
    ASSUME TypeOK, NEW r \in Request, SaveUpdate(r), SeatsKnown(r),
           NEW c \in Class, loc[r].cls = c
    PROVE  Excess(c)' <= 0 \/ Excess(c)' <= Excess(c)
<1> DEFINE f == loc[r]
<1>1. f \in DirtyFrame /\ pc[r] = "update"
  BY FrameTable DEF SaveUpdate, TypeOK
<1>2. f.row.capacity \in Nat /\ f.row["capacity"] = f.row.capacity
  BY <1>1 DEF DirtyFrame, ClassRow, Capacity
<1>3. class[c].capacity \in Nat /\ Cardinality(Active(c)) \in Nat
  BY CapacityNat
<1>4. /\ "capacity" \in f.dirty \/ f.row.capacity = class[c].capacity
      /\ f.row.capacity >= class[c].capacity \/ Cardinality(Active(c)) <= f.row.capacity
  BY <1>1 DEF SeatsKnown
<1>5. class'[c].capacity = f.row.capacity
  BY <1>2, <1>4 DEF SaveUpdate, TypeOK
<1>6. Active(c)' = Active(c)
  BY DEF SaveUpdate, Active
<1>7. Excess(c)' = Cardinality(Active(c)) - f.row.capacity
  BY <1>5, <1>6 DEF Excess
<1>8. QED
  BY <1>2, <1>3, <1>4, <1>7 DEF Excess

\* At first nobody has read anything.
LEMMA InitOverlap == OverlapInit => OverlapInv
BY DEF OverlapInit, Init, OverlapInv, SeatsKnown

\* A class is taken over its capacity, or further over it, only by a request
\* whose class another one wrote since it read it.
THEOREM OverbookedByOverlapHolds == OverlapSpec => OverbookedByOverlap
<1>1. TypeOK /\ OverlapInv /\ [OverlapNext]_<<vars, history>> => OverlapInv'
  <2>1. ASSUME UNCHANGED <<vars, history>>, OverlapInv PROVE OverlapInv'
    BY <2>1 DEF OverlapInv, SeatsKnown, Active, vars, history
  <2>2. QED
    BY <2>1, NextOverlap
<1>2. OverlapSpec => []TypeOK
  BY OverlapImplementsRoster, TypeCorrect, PTL
<1>3. OverlapSpec => []OverlapInv
  BY <1>1, <1>2, InitOverlap, PTL DEF OverlapSpec
<1>4. ASSUME TypeOK, OverlapInv, OverlapNext, NEW c \in Class,
             Excess(c)' > 0, Excess(c)' > Excess(c)
      PROVE  \E r \in overlapped : WorksOn(r, c) /\ pc'[r] # pc[r]
  <2>1. Excess(c) \in Int /\ Excess(c)' \in Int
    <3>1. class[c].capacity \in Nat /\ Cardinality(Active(c)) \in Nat
      BY <1>4, CapacityNat
    <3>2. TypeOK'
      BY <1>4, NextTyped DEF OverlapNext
    <3>3. class'[c].capacity \in Nat /\ Active(c)' \subseteq Student
      BY <3>2 DEF TypeOK, ClassRow, Capacity, Active
    <3>4. Cardinality(Active(c)') \in Nat
      BY <3>3, StudentSet
    <3>5. QED
      BY <3>1, <3>3, <3>4 DEF Excess
  <2>2. Excess(c)' # Excess(c)
    BY <1>4, <2>1
  <2>3. PICK r \in Request : /\ EnrollInsert(r) \/ SaveStatus(r) \/ SaveUpdate(r)
                             /\ loc[r].cls = c
    BY <1>4, <2>2, ExcessChanges DEF OverlapNext
  <2>4. WorksOn(r, c) /\ pc'[r] # pc[r]
    BY <1>4, <2>3
    DEF EnrollInsert, SaveStatus, SaveUpdate, Finish, Fail, Goto, WorksOn, TypeOK
  <2>5. ASSUME r \notin overlapped PROVE FALSE
    <3>1. SeatsKnown(r)
      BY <1>4, <2>5 DEF OverlapInv
    <3>2. Excess(c)' <= 0 \/ Excess(c)' <= Excess(c)
      BY <1>4, <2>3, <3>1, InsertFits, StatusFits, UpdateFits
    <3>3. QED
      BY <1>4, <2>1, <3>2
  <2>6. QED
    BY <2>4, <2>5
<1>5. TypeOK /\ OverlapInv /\ [OverlapNext]_<<vars, history>> =>
        [\A c \in Class :
           Excess(c)' > 0 /\ Excess(c)' > Excess(c)
             => \E r \in overlapped : WorksOn(r, c) /\ pc'[r] # pc[r]]_<<vars, history>>
  BY <1>4
<1>6. QED
  BY <1>2, <1>3, <1>5, PTL DEF OverlapSpec, OverbookedByOverlap

=============================================================================
