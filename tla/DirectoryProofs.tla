---------------------------- MODULE DirectoryProofs ----------------------------
(***************************************************************************)
(* Theorems about Directory for every number of requests, branches,        *)
(* courses, teachers, students and classes, and whatever clients call.     *)
(***************************************************************************)
EXTENDS Directory, FiniteSetTheorems, TLAPS

(***************************************************************************)
(* Items and frames                                                        *)
(***************************************************************************)

\* An item has one kind.
LEMMA KindOfItem ==
    ASSUME NEW kind \in Kind, NEW x \in IdsOf(kind)
    PROVE  KindOf(x) = kind /\ x \in Item
BY DirectoryAssumption DEF KindOf, Kind, IdsOf, Item

\* Every item has a kind.
LEMMA ItemHasKind ==
    ASSUME NEW x \in Item
    PROVE  KindOf(x) \in Kind /\ x \in IdsOf(KindOf(x))
BY DEF KindOf, Kind, IdsOf, Item

ItemPC == {"code", "branches", "branchClasses", "teacherClasses", "save", "delete"}
ClassPC == {"classBranch", "classCourse", "classTeacher", "classSave"}

\* The frame of each program counter.
LEMMA FrameTable ==
    /\ PC = {"idle", "insert"} \cup ItemPC \cup ClassPC
    /\ FrameOf("idle") = {NoFrame} /\ FrameOf("insert") = InsertFrame
    /\ \A p \in ItemPC : FrameOf(p) = ItemFrame
    /\ \A p \in ClassPC : FrameOf(p) = ClassFrame
BY DEF PC, ItemPC, ClassPC, FrameOf

\* What a request looks at is of the kind it looks for.
KindsKnown ==
    \A r \in Request :
      /\ pc[r] = "branchClasses" => loc[r].id \in Branch
      /\ pc[r] = "teacherClasses" => loc[r].id \in Teacher
      /\ pc[r] = "delete" => loc[r].id \in Course

Typed == TypeOK /\ KindsKnown

\* The requests other than one stay where they are.
OthersStay(r) == \A q \in Request \ {r} : pc'[q] = pc[q] /\ loc'[q] = loc[q]

\* Where a request is after it goes on.
LEMMA GotoFacts ==
    ASSUME Typed, NEW r \in Request, NEW p, NEW f, Goto(r, p, f)
    PROVE  pc'[r] = p /\ loc'[r] = f /\ OthersStay(r)
BY DEF Goto, OthersStay, Typed, TypeOK

\* Going on with locals of the right type keeps all frames typed.
LEMMA GotoTyped ==
    ASSUME Typed, NEW r \in Request, NEW p \in PC, NEW f \in FrameOf(p), Goto(r, p, f),
           p = "branchClasses" => f.id \in Branch,
           p = "teacherClasses" => f.id \in Teacher,
           p = "delete" => f.id \in Course
    PROVE  /\ pc' \in [Request -> PC] /\ DOMAIN loc' = Request
           /\ \A q \in Request : loc'[q] \in FrameOf(pc'[q])
           /\ KindsKnown'
BY DEF Goto, Typed, TypeOK, KindsKnown

\* So does answering.
LEMMA FinishTyped ==
    ASSUME Typed, NEW r \in Request, Finish(r)
    PROVE  /\ pc' \in [Request -> PC] /\ DOMAIN loc' = Request
           /\ \A q \in Request : loc'[q] \in FrameOf(pc'[q])
           /\ KindsKnown'
           /\ pc'[r] = "idle" /\ OthersStay(r)
BY FrameTable, GotoTyped, GotoFacts DEF Finish

\* A step that reads keeps the types.
LEMMA ReadTyped ==
    ASSUME Typed, NEW r \in Request, NEW p \in PC, NEW f \in FrameOf(p), Goto(r, p, f),
           p = "branchClasses" => f.id \in Branch,
           p = "teacherClasses" => f.id \in Teacher,
           p = "delete" => f.id \in Course,
           UNCHANGED tables
    PROVE  Typed'
<1>1. /\ pc' \in [Request -> PC] /\ DOMAIN loc' = Request
      /\ \A q \in Request : loc'[q] \in FrameOf(pc'[q])
      /\ KindsKnown'
  BY GotoTyped
<1>2. QED
  BY <1>1 DEF tables, Typed, TypeOK, Exists

\* So does one that only answers.
LEMMA AnswerTyped ==
    ASSUME Typed, NEW r \in Request, Finish(r), UNCHANGED tables
    PROVE  Typed'
BY FrameTable, ReadTyped DEF Finish

\* The frame of a handler on its way to its save.
LEMMA FrameHeld ==
    ASSUME Typed, NEW r \in Request
    PROVE  /\ pc[r] = "insert" => loc[r] \in InsertFrame
           /\ pc[r] \in ItemPC => loc[r] \in ItemFrame
           /\ pc[r] \in ClassPC => loc[r] \in ClassFrame
BY FrameTable DEF Typed, TypeOK

(***************************************************************************)
(* Type correctness                                                        *)
(***************************************************************************)

\* Calls begin with a frame of the right type.
LEMMA CreateReadTyped ==
    ASSUME Typed, NEW r \in Request, NEW kind \in Kind, NEW row \in ItemRow,
           NEW branches \in SUBSET Branch, CreateRead(r, kind, row, branches)
    PROVE  Typed'
<1>1. [kind |-> kind, row |-> row, branches |-> branches] \in FrameOf("insert")
  BY FrameTable DEF InsertFrame
<1>2. QED
  BY <1>1, FrameTable, ReadTyped DEF CreateRead

\* An update begins with what it is to save.
LEMMA UpdateReadTyped ==
    ASSUME Typed, NEW r \in Request, NEW x \in Item, NEW row \in ItemRow,
           NEW branches \in SUBSET Branch, UpdateRead(r, x, row, branches)
    PROVE  Typed'
<1> DEFINE f == [id |-> x, row |-> row, branches |-> branches]
           p == IF row.code # item[x].code THEN "code"
                ELSE IF branches # {} THEN "branches" ELSE "save"
<1>1. p \in PC /\ f \in FrameOf(p) /\ p \notin {"branchClasses", "teacherClasses", "delete"}
  BY FrameTable DEF ItemFrame, ItemPC
<1>2. QED
  BY <1>1, ReadTyped DEF UpdateRead

\* An item that exists has a row.
LEMMA RowOfItem ==
    ASSUME Typed, NEW x \in Item, Exists(x)
    PROVE  item[x] \in ItemRow
BY DEF Typed, TypeOK, Items, Exists

\* What a deactivation or a removal remembers.
LEMMA WithTyped ==
    ASSUME Typed, NEW x \in Item, Exists(x), NEW status \in Status
    PROVE  With(x, status) \in ItemFrame /\ With(x, status).id = x
BY RowOfItem DEF With, ItemFrame, ItemRow

\* The calls about items keep the types.
LEMMA ItemCallsTyped ==
    ASSUME Typed, NEW r \in Request, ItemCalls(r)
    PROVE  Typed'
<1>1. ASSUME NEW row \in ItemRow, BranchCreate(r, row) \/ CourseCreate(r, row)
      PROVE  Typed'
  BY <1>1, CreateReadTyped DEF BranchCreate, CourseCreate, Kind
<1>2. ASSUME NEW row \in ItemRow, NEW b \in Branch, BranchUpdate(r, b, row) PROVE Typed'
  BY <1>2, UpdateReadTyped DEF BranchUpdate, Item
<1>3. ASSUME NEW row \in ItemRow, NEW c \in Course, CourseUpdate(r, c, row) PROVE Typed'
  BY <1>3, UpdateReadTyped DEF CourseUpdate, Item
<1>4. ASSUME NEW code \in Code, NEW b \in Branch,
             TeacherCreate(r, code, {b}) \/ StudentCreate(r, code, {b})
      PROVE  Typed'
  BY <1>4, CreateReadTyped DEF TeacherCreate, StudentCreate, Kind, ItemRow, Status
<1>5. ASSUME NEW code \in Code, NEW branches \in SUBSET Branch, NEW t \in Teacher,
             TeacherUpdate(r, t, code, branches)
      PROVE  Typed'
  <2>1. t \in Item /\ [item[t] EXCEPT !.code = code] \in ItemRow
    BY <1>5, RowOfItem DEF TeacherUpdate, Item, ItemRow
  <2>2. QED
    BY <1>5, <2>1, UpdateReadTyped DEF TeacherUpdate
<1>6. ASSUME NEW code \in Code, NEW branches \in SUBSET Branch, NEW s \in Student,
             StudentUpdate(r, s, code, branches)
      PROVE  Typed'
  <2>1. s \in Item /\ [item[s] EXCEPT !.code = code] \in ItemRow
    BY <1>6, RowOfItem DEF StudentUpdate, Item, ItemRow
  <2>2. QED
    BY <1>6, <2>1, UpdateReadTyped DEF StudentUpdate
<1>7. ASSUME NEW x \in Item, Exists(x), NEW status \in Status, NEW p \in ItemPC,
             p = "branchClasses" => x \in Branch,
             p = "teacherClasses" => x \in Teacher,
             p = "delete" => x \in Course,
             Goto(r, p, With(x, status)), UNCHANGED tables
      PROVE  Typed'
  BY <1>7, WithTyped, FrameTable, ReadTyped
<1>8. ASSUME NEW b \in Branch, BranchRemove(r, b) PROVE Typed'
  BY <1>7, <1>8 DEF BranchRemove, Item, Status, ItemPC
<1>9. ASSUME NEW c \in Course, CourseRemove(r, c) PROVE Typed'
  BY <1>7, <1>9 DEF CourseRemove, Item, Status, ItemPC
<1>10. ASSUME NEW status \in Status, NEW t \in Teacher, TeacherStatus(r, t, status)
       PROVE  Typed'
  BY <1>7, <1>10 DEF TeacherStatus, Item, ItemPC
<1>11. ASSUME NEW status \in Status, NEW s \in Student, StudentStatus(r, s, status)
       PROVE  Typed'
  BY <1>7, <1>11 DEF StudentStatus, Item, ItemPC
<1>12. QED
  BY <1>1, <1>2, <1>3, <1>4, <1>5, <1>6, <1>8, <1>9, <1>10, <1>11 DEF ItemCalls

\* The calls about classes keep the types.
LEMMA ClassCallsTyped ==
    ASSUME Typed, NEW r \in Request, ClassCalls(r)
    PROVE  Typed'
<1>1. ASSUME NEW f \in ClassFrame, NEW p \in ClassPC, Goto(r, p, f), UNCHANGED tables
      PROVE  Typed'
  <2>1. p \in PC /\ f \in FrameOf(p) /\ p \notin {"branchClasses", "teacherClasses", "delete"}
    BY FrameTable DEF ClassPC
  <2>2. QED
    BY <1>1, <2>1, ReadTyped
<1>2. ASSUME NEW row \in ClassRow, ClassCreate(r, row) PROVE Typed'
  BY <1>1, <1>2 DEF ClassCreate, ClassFrame, ClassPC
<1>3. ASSUME NEW c \in Class, ClassDuplicate(r, c) PROVE Typed'
  <2>1. [class[c] EXCEPT !.cancelled = FALSE] \in ClassRow
    BY <1>3 DEF ClassDuplicate, Typed, TypeOK, Classes, ClassRow
  <2>2. QED
    BY <1>1, <1>3, <2>1 DEF ClassDuplicate, ClassFrame, ClassPC
<1>4. ASSUME NEW c \in Class, NEW row \in ClassRow, ClassUpdate(r, c, row) PROVE Typed'
  BY <1>1, <1>4 DEF ClassUpdate, ClassFrame, ClassPC
<1>5. QED
  BY <1>2, <1>3, <1>4 DEF ClassCalls

\* The checks of a handler keep the types.
LEMMA ChecksTyped ==
    ASSUME Typed, NEW r \in Request,
           \/ UpdateCode(r) \/ UpdateBranches(r) \/ BranchCount(r) \/ TeacherClasses(r)
           \/ ClassCheckBranch(r) \/ ClassCheckCourse(r) \/ ClassCheckTeacher(r)
    PROVE  Typed'
<1>1. CASE Finish(r) /\ UNCHANGED tables
  BY <1>1, AnswerTyped
<1>2. ASSUME NEW p \in {"branches", "save"}, pc[r] \in ItemPC, Goto(r, p, loc[r]),
             UNCHANGED tables
      PROVE  Typed'
  <2>1. p \in PC /\ loc[r] \in FrameOf(p) /\ p \notin {"branchClasses", "teacherClasses", "delete"}
    BY <1>2, FrameHeld, FrameTable DEF ItemPC
  <2>2. QED
    BY <1>2, <2>1, ReadTyped
<1>3. ASSUME NEW p \in ClassPC, pc[r] \in ClassPC, Goto(r, p, loc[r]), UNCHANGED tables
      PROVE  Typed'
  <2>1. p \in PC /\ loc[r] \in FrameOf(p) /\ p \notin {"branchClasses", "teacherClasses", "delete"}
    BY <1>3, FrameHeld, FrameTable DEF ClassPC
  <2>2. QED
    BY <1>3, <2>1, ReadTyped
<1>4. CASE UpdateCode(r) \/ UpdateBranches(r) \/ BranchCount(r) \/ TeacherClasses(r)
  BY <1>1, <1>2, <1>4 DEF UpdateCode, UpdateBranches, BranchCount, TeacherClasses, ItemPC
<1>5. CASE ClassCheckBranch(r) \/ ClassCheckCourse(r) \/ ClassCheckTeacher(r)
  BY <1>1, <1>3, <1>5 DEF ClassCheckBranch, ClassCheckCourse, ClassCheckTeacher, ClassPC
<1>6. QED
  BY <1>4, <1>5

\* What the INSERT of an item does.
LEMMA InsertFacts ==
    ASSUME Typed, NEW r \in Request, Insert(r)
    PROVE  /\ loc[r] \in InsertFrame
           /\ \/ UNCHANGED item
              \/ \E x \in IdsOf(loc[r].kind) :
                   /\ x \in Item /\ ~Exists(x) /\ KindOf(x) = loc[r].kind
                   /\ item'[x] = loc[r].row
                   /\ \A y \in Item \ {x} : item'[y] = item[y]
           /\ item' \in Items
           /\ \A y \in Item : Exists(y) => Exists(y)'
<1>1. loc[r] \in InsertFrame
  BY FrameHeld DEF Insert
<1>2. loc[r].kind \in Kind /\ loc[r].row \in ItemRow
  BY <1>1 DEF InsertFrame
<1>3. CASE UNCHANGED item
  BY <1>1, <1>3 DEF Typed, TypeOK, Exists
<1>4. ASSUME NEW x \in IdsOf(loc[r].kind), ~Exists(x), item' = [item EXCEPT ![x] = loc[r].row]
      PROVE  /\ x \in Item /\ KindOf(x) = loc[r].kind
             /\ item'[x] = loc[r].row
             /\ \A y \in Item \ {x} : item'[y] = item[y]
             /\ item' \in Items
             /\ \A y \in Item : Exists(y) => Exists(y)'
  <2>1. x \in Item /\ KindOf(x) = loc[r].kind
    BY <1>2, KindOfItem
  <2>2. item'[x] = loc[r].row /\ \A y \in Item \ {x} : item'[y] = item[y]
    BY <1>4, <2>1 DEF Typed, TypeOK, Items
  <2>3. item' \in Items
    BY <1>2, <1>4, <2>1 DEF Typed, TypeOK, Items
  <2>4. \A y \in Item : Exists(y) => Exists(y)'
    BY <1>2, <2>2, DirectoryAssumption DEF Exists
  <2>5. QED
    BY <2>1, <2>2, <2>3, <2>4
<1>5. QED
  BY <1>1, <1>3, <1>4 DEF Insert

\* What the save of an item does.
LEMMA SaveFacts ==
    ASSUME Typed, NEW r \in Request, ItemSave(r)
    PROVE  /\ loc[r] \in ItemFrame /\ loc[r].id \in Item /\ loc[r].row \in ItemRow
           /\ \/ UNCHANGED item
              \/ /\ item'[loc[r].id] = loc[r].row
                 /\ \A y \in Item \ {loc[r].id} : item'[y] = item[y]
           /\ item' \in Items
           /\ \A y \in Item : Exists(y) => Exists(y)'
<1>1. loc[r] \in ItemFrame
  BY FrameHeld DEF ItemSave, ItemPC
<1>2. loc[r].id \in Item /\ loc[r].row \in ItemRow
  BY <1>1 DEF ItemFrame
<1>3. CASE UNCHANGED item
  BY <1>1, <1>2, <1>3 DEF Typed, TypeOK, Exists
<1>4. CASE item' = [item EXCEPT ![loc[r].id] = loc[r].row]
  <2>1. item'[loc[r].id] = loc[r].row /\ \A y \in Item \ {loc[r].id} : item'[y] = item[y]
    BY <1>2, <1>4 DEF Typed, TypeOK, Items
  <2>2. item' \in Items
    BY <1>2, <1>4 DEF Typed, TypeOK, Items
  <2>3. \A y \in Item : Exists(y) => Exists(y)'
    BY <1>2, <2>1, DirectoryAssumption DEF Exists
  <2>4. QED
    BY <1>1, <1>2, <2>1, <2>2, <2>3
<1>5. QED
  BY <1>3, <1>4 DEF ItemSave

\* What the deletion of a course does.
LEMMA DeleteFacts ==
    ASSUME Typed, NEW r \in Request, CourseDelete(r)
    PROVE  /\ loc[r].id \in Course /\ loc[r].id \in Item
           /\ \A y \in Item \ {loc[r].id} : item'[y] = item[y]
           /\ item' \in Items /\ class' \in Classes
           /\ \A c \in Class : class'[c] # NewClass =>
                class'[c] = class[c] /\ class[c].course # loc[r].id
<1>1. loc[r].id \in Course /\ loc[r].id \in Item
  BY DEF CourseDelete, Typed, KindsKnown, Item
<1>2. item' = [item EXCEPT ![loc[r].id] = NoItem]
  BY DEF CourseDelete
<1>3. item' \in Items /\ \A y \in Item \ {loc[r].id} : item'[y] = item[y]
  BY <1>1, <1>2 DEF Typed, TypeOK, Items
<1>4. \A c \in Class : class'[c] = IF class[c] # NewClass /\ class[c].course = loc[r].id
                                   THEN NewClass ELSE class[c]
  BY DEF CourseDelete
<1>5. class' \in Classes
  BY DEF CourseDelete, Typed, TypeOK, Classes
<1>6. QED
  BY <1>1, <1>3, <1>4, <1>5

\* What the save of a class does.
LEMMA ClassSaveFacts ==
    ASSUME Typed, NEW r \in Request, ClassSave(r)
    PROVE  /\ loc[r] \in ClassFrame /\ loc[r].row \in ClassRow
           /\ \/ UNCHANGED class
              \/ \E c \in Class : /\ class'[c] = loc[r].row /\ References(loc[r].row)
                                  /\ \A d \in Class \ {c} : class'[d] = class[d]
           /\ class' \in Classes
<1>1. loc[r] \in ClassFrame
  BY FrameHeld DEF ClassSave, ClassPC
<1>2. loc[r].row \in ClassRow /\ loc[r].id \in Class \cup {NewClass}
  BY <1>1 DEF ClassFrame
<1>3. CASE UNCHANGED class
  BY <1>1, <1>2, <1>3 DEF Typed, TypeOK
<1>4. ASSUME NEW c \in Class, class' = [class EXCEPT ![c] = loc[r].row], References(loc[r].row)
      PROVE  /\ class'[c] = loc[r].row
             /\ \A d \in Class \ {c} : class'[d] = class[d]
             /\ class' \in Classes
  BY <1>2, <1>4 DEF Typed, TypeOK, Classes
<1>5. ~UNCHANGED class => References(loc[r].row) /\ \E c \in Class : class' = [class EXCEPT ![c] = loc[r].row]
  BY <1>2 DEF ClassSave
<1>6. QED
  BY <1>1, <1>2, <1>3, <1>4, <1>5

\* The statements that write keep the types, and the references of classes.
LEMMA WritesTyped ==
    ASSUME Typed, NEW r \in Request,
           Insert(r) \/ ItemSave(r) \/ CourseDelete(r) \/ ClassSave(r)
    PROVE  Typed'
<1>1. /\ Finish(r) /\ UNCHANGED <<scope, today>>
  BY DEF Insert, ItemSave, CourseDelete, ClassSave
<1>2. /\ pc' \in [Request -> PC] /\ DOMAIN loc' = Request
      /\ \A q \in Request : loc'[q] \in FrameOf(pc'[q])
      /\ KindsKnown'
  BY <1>1, FinishTyped
<1>3. \A c \in Class : class[c] # NewClass =>
        /\ class[c].branch \in Branch /\ class[c].course \in Course
        /\ class[c].branch \in Item /\ class[c].course \in Item
        /\ Exists(class[c].branch) /\ Exists(class[c].course)
  BY DEF Typed, TypeOK, Classes, ClassRow, Item
<1>4. /\ item' \in Items /\ class' \in Classes
      /\ \A c \in Class : class'[c] # NewClass =>
           Exists(class[c].branch)' /\ Exists(class[c].course)'
  <2>1. CASE Insert(r) \/ ItemSave(r)
    <3>1. UNCHANGED class /\ item' \in Items /\ \A y \in Item : Exists(y) => Exists(y)'
      BY <2>1, InsertFacts, SaveFacts DEF Insert, ItemSave
    <3>2. QED
      BY <1>3, <3>1 DEF Typed, TypeOK
  <2>2. CASE CourseDelete(r)
    <3>1. loc[r].id \notin Branch
      BY <2>2, DeleteFacts, DirectoryAssumption DEF Kind, IdsOf
    <3>2. ASSUME NEW c \in Class, class'[c] # NewClass
          PROVE  Exists(class[c].branch)' /\ Exists(class[c].course)'
      <4>1. class'[c] = class[c] /\ class[c].course # loc[r].id
        BY <2>2, <3>2, DeleteFacts
      <4>2. class[c].branch # loc[r].id
        BY <1>3, <3>1, <3>2, <4>1
      <4>3. QED
        BY <1>3, <2>2, <3>2, <4>1, <4>2, DeleteFacts DEF Exists
    <3>3. QED
      BY <2>2, <3>2, DeleteFacts
  <2>3. CASE ClassSave(r)
    <3>1. UNCHANGED item /\ class' \in Classes
      BY <2>3, ClassSaveFacts DEF ClassSave
    <3>2. QED
      BY <1>3, <2>3, <3>1, ClassSaveFacts DEF Exists, References, Typed, TypeOK
  <2>4. QED
    BY <2>1, <2>2, <2>3
<1>5. QED
  BY <1>1, <1>2, <1>4 DEF Typed, TypeOK

\* Every step keeps the types.
LEMMA NextTyped == Typed /\ [Next]_vars => Typed'
<1> SUFFICES ASSUME Typed, [Next]_vars PROVE Typed'
  OBVIOUS
<1>1. ASSUME NEW r \in Request, Abandon(r) PROVE Typed'
  BY <1>1, AnswerTyped DEF Abandon
<1>2. ASSUME NEW c \in Class, ClassCancel(c) PROVE Typed'
  <2>1. class[c] \in ClassRow
    BY <1>2 DEF ClassCancel, Typed, TypeOK, Classes
  <2>2. [class[c] EXCEPT !.cancelled = TRUE] \in ClassRow
    BY <2>1 DEF ClassRow
  <2>3. /\ class' \in Classes
        /\ \A d \in Class : class'[d] # NewClass =>
             /\ class[d] # NewClass
             /\ class'[d].branch = class[d].branch /\ class'[d].course = class[d].course
    BY <1>2, <2>1, <2>2 DEF ClassCancel, Typed, TypeOK, Classes, ClassRow
  <2>4. QED
    BY <1>2, <2>3 DEF ClassCancel, Typed, TypeOK, KindsKnown, Exists
<1>3. CASE Tick
  BY <1>3, DirectoryAssumption DEF Tick, Typed, TypeOK, KindsKnown, Exists, Date
<1>4. CASE UNCHANGED vars
  BY <1>4 DEF vars, Typed, TypeOK, KindsKnown, Exists
<1>5. QED
  BY <1>1, <1>2, <1>3, <1>4, ItemCallsTyped, ClassCallsTyped, ChecksTyped, WritesTyped
     DEF Next, Step

\* The initial state is typed.
LEMMA InitTyped == Init => Typed
<1> SUFFICES ASSUME Init PROVE Typed
  OBVIOUS
<1>1. PICK s \in Starts : /\ scope = [calls |-> s.calls, overlap |-> s.overlap]
                          /\ item = s.item /\ class = s.class
  BY DEF Init
<1>2. /\ s \in [calls: SUBSET Endpoint, overlap: BOOLEAN, item: Items, class: Classes]
      /\ \A c \in Class : class[c] = NewClass
  BY <1>1, DirectoryAssumption
<1>3. /\ scope \in [calls: SUBSET Endpoint, overlap: BOOLEAN]
      /\ item \in Items /\ class \in Classes
  BY <1>1, <1>2
<1>4. today \in Date
  BY DirectoryAssumption DEF Init, Date
<1>5. /\ pc \in [Request -> PC] /\ DOMAIN loc = Request
      /\ \A q \in Request : loc[q] \in FrameOf(pc[q])
      /\ KindsKnown
  BY FrameTable DEF Init, KindsKnown
<1>6. QED
  BY <1>2, <1>3, <1>4, <1>5 DEF Typed, TypeOK

\* Every reachable state is typed, and every class has its branch and its course.
THEOREM TypeCorrect == Spec => []TypeOK
<1>1. Typed => TypeOK
  BY DEF Typed
<1>2. QED
  BY <1>1, InitTyped, NextTyped, PTL DEF Spec

(***************************************************************************)
(* A retired branch or teacher stays out of the classes                    *)
(***************************************************************************)

\* A request that goes on comes to hold x only where its check let it pass.
LEMMA GotoHolds ==
    ASSUME Typed, NEW r \in Request, NEW p, NEW f, Goto(r, p, f), NEW x,
           \A q \in Request : ~Holds(q, x),
           p \in {"classCourse", "classTeacher", "classSave"} => f.row.branch # x,
           p = "classSave" => f.row.teacher # x
    PROVE  \A q \in Request : ~Holds(q, x)'
BY GotoFacts DEF OthersStay, Holds

\* No step of a request that only reads makes it hold what is retired.
LEMMA ReadsHoldNoRetired ==
    ASSUME Typed, NEW r \in Request, NEW x \in Branch \cup Teacher, Retired(x),
           \/ ItemCalls(r) \/ ClassCalls(r)
           \/ UpdateCode(r) \/ UpdateBranches(r) \/ BranchCount(r) \/ TeacherClasses(r)
           \/ ClassCheckBranch(r) \/ ClassCheckCourse(r) \/ ClassCheckTeacher(r)
    PROVE  UNCHANGED tables /\ \A q \in Request : ~Holds(q, x)'
<1> USE DEF Retired
<1>1. ~Active(x) /\ x # NoTeacher /\ \A q \in Request : ~Holds(q, x)
  BY DirectoryAssumption DEF Active, Item
<1>2. ASSUME NEW p, NEW f, Goto(r, p, f), p \notin {"classCourse", "classTeacher", "classSave"}
      PROVE  \A q \in Request : ~Holds(q, x)'
  BY <1>1, <1>2, GotoHolds
<1>3. CASE ItemCalls(r)
  <2>1. ASSUME NEW kind, NEW row, NEW branches, CreateRead(r, kind, row, branches)
        PROVE  UNCHANGED tables /\ \A q \in Request : ~Holds(q, x)'
    BY <1>2, <2>1 DEF CreateRead
  <2>2. ASSUME NEW y, NEW row, NEW branches, UpdateRead(r, y, row, branches)
        PROVE  UNCHANGED tables /\ \A q \in Request : ~Holds(q, x)'
    BY <1>2, <2>2 DEF UpdateRead
  <2>3. ASSUME NEW y, NEW status,
               \E p \in ItemPC : Goto(r, p, With(y, status)) /\ UNCHANGED tables
        PROVE  UNCHANGED tables /\ \A q \in Request : ~Holds(q, x)'
    BY <1>2, <2>3 DEF ItemPC
  <2>4. CASE \/ \E row \in ItemRow : BranchCreate(r, row) \/ CourseCreate(r, row)
             \/ \E code \in Code, b \in Branch : TeacherCreate(r, code, {b}) \/ StudentCreate(r, code, {b})
    BY <2>1, <2>4 DEF BranchCreate, CourseCreate, TeacherCreate, StudentCreate
  <2>5. CASE \/ \E row \in ItemRow, b \in Branch : BranchUpdate(r, b, row)
             \/ \E row \in ItemRow, c \in Course : CourseUpdate(r, c, row)
             \/ \E code \in Code, branches \in SUBSET Branch :
                  \/ \E t \in Teacher : TeacherUpdate(r, t, code, branches)
                  \/ \E s \in Student : StudentUpdate(r, s, code, branches)
    BY <2>2, <2>5 DEF BranchUpdate, CourseUpdate, TeacherUpdate, StudentUpdate
  <2>6. CASE \/ \E b \in Branch : BranchRemove(r, b)
             \/ \E c \in Course : CourseRemove(r, c)
             \/ \E status \in Status : \/ \E t \in Teacher : TeacherStatus(r, t, status)
                                       \/ \E s \in Student : StudentStatus(r, s, status)
    BY <2>3, <2>6 DEF BranchRemove, CourseRemove, TeacherStatus, StudentStatus, ItemPC
  <2>7. QED
    BY <1>3, <2>4, <2>5, <2>6 DEF ItemCalls
<1>4. CASE ClassCalls(r)
  <2>1. ASSUME NEW c \in Class, ClassDuplicate(r, c)
        PROVE  UNCHANGED tables /\ \A q \in Request : ~Holds(q, x)'
    <3>1. class[c] \in ClassRow /\ x \notin {class[c].branch, class[c].teacher}
      BY <2>1 DEF ClassDuplicate, Typed, TypeOK, Classes
    <3>2. /\ [class[c] EXCEPT !.cancelled = FALSE].branch # x
          /\ [class[c] EXCEPT !.cancelled = FALSE].teacher # x
      BY <3>1 DEF ClassRow
    <3> DEFINE f == [id |-> NewClass, row |-> [class[c] EXCEPT !.cancelled = FALSE]]
    <3>3. f.row.branch # x /\ f.row.teacher # x
      BY <3>2
    <3>4. Goto(r, "classSave", f) /\ UNCHANGED tables
      BY <2>1 DEF ClassDuplicate
    <3> HIDE DEF f
    <3>5. QED
      BY <1>1, <3>3, <3>4, GotoHolds
  <2>2. ASSUME NEW f, Goto(r, "classBranch", f), UNCHANGED tables
        PROVE  UNCHANGED tables /\ \A q \in Request : ~Holds(q, x)'
    BY <1>2, <2>2
  <2>3. ASSUME NEW c \in Class, NEW row \in ClassRow, ClassUpdate(r, c, row)
        PROVE  UNCHANGED tables /\ \A q \in Request : ~Holds(q, x)'
    BY <2>2, <2>3 DEF ClassUpdate
  <2>4. ASSUME NEW row \in ClassRow, ClassCreate(r, row)
        PROVE  UNCHANGED tables /\ \A q \in Request : ~Holds(q, x)'
    BY <2>2, <2>4 DEF ClassCreate
  <2>5. QED
    BY <1>4, <2>1, <2>3, <2>4 DEF ClassCalls
<1>5. CASE UpdateCode(r) \/ UpdateBranches(r) \/ BranchCount(r) \/ TeacherClasses(r)
  <2>1. UNCHANGED tables /\ (Finish(r) \/ \E p \in {"branches", "save"} : Goto(r, p, loc[r]))
    BY <1>5 DEF UpdateCode, UpdateBranches, BranchCount, TeacherClasses
  <2>2. QED
    BY <1>2, <2>1 DEF Finish
<1>6. CASE ClassCheckBranch(r)
  <2>1. CASE Active(loc[r].row.branch) /\ Goto(r, "classCourse", loc[r])
    <3>1. loc[r].row.branch # x
      BY <1>1, <2>1
    <3>2. QED
      BY <1>1, <1>6, <2>1, <3>1, GotoHolds DEF ClassCheckBranch
  <2>2. QED
    BY <1>2, <1>6, <2>1 DEF ClassCheckBranch, Finish
<1>7. CASE ClassCheckCourse(r)
  <2>1. loc[r].row.branch # x
    BY <1>1, <1>7 DEF ClassCheckCourse, Holds
  <2>2. CASE loc[r].row.teacher = NoTeacher /\ Goto(r, "classSave", loc[r])
    BY <1>1, <1>7, <2>1, <2>2, GotoHolds DEF ClassCheckCourse
  <2>3. CASE Goto(r, "classTeacher", loc[r])
    BY <1>1, <1>7, <2>1, <2>3, GotoHolds DEF ClassCheckCourse
  <2>4. QED
    BY <1>2, <1>7, <2>2, <2>3 DEF ClassCheckCourse, Finish
<1>8. CASE ClassCheckTeacher(r)
  <2>1. CASE Active(loc[r].row.teacher) /\ Goto(r, "classSave", loc[r])
    <3>1. loc[r].row.teacher # x
      BY <1>1, <2>1
    <3>2. loc[r].row.branch # x
      BY <1>1, <1>8 DEF ClassCheckTeacher, Holds
    <3>3. QED
      BY <1>1, <1>8, <2>1, <3>1, <3>2, GotoHolds DEF ClassCheckTeacher
  <2>2. QED
    BY <1>2, <1>8, <2>1 DEF ClassCheckTeacher, Finish
<1>9. QED
  BY <1>3, <1>4, <1>5, <1>6, <1>7, <1>8


\* A request that answers holds nothing any more.
LEMMA FinishHolds ==
    ASSUME Typed, NEW r \in Request, Finish(r), NEW x, \A q \in Request : ~Holds(q, x)
    PROVE  \A q \in Request : ~Holds(q, x)'
BY GotoHolds DEF Finish

\* What is retired and still INACTIVE after a step is retired still.
LEMMA NextRetired ==
    ASSUME Typed, [Next]_vars, NEW x \in Branch \cup Teacher, Retired(x),
           item'[x] # NoItem, item'[x].status = "INACTIVE"
    PROVE  Retired(x)'
<1>1. \A q \in Request : ~Holds(q, x)
  BY DEF Retired
<1>2. \A c \in Class : class[c] # NewClass =>
        class[c] \in ClassRow /\ class[c].branch # x /\ class[c].teacher # x
  BY DEF Retired, Typed, TypeOK, Classes
<1>3. ASSUME \A c \in Class : class'[c] # NewClass =>
               class'[c].branch # x /\ class'[c].teacher # x,
             \A q \in Request : ~Holds(q, x)'
      PROVE  Retired(x)'
  BY <1>3 DEF Retired, Exists
<1>4. ASSUME UNCHANGED class, \A q \in Request : ~Holds(q, x)'
      PROVE  Retired(x)'
  BY <1>2, <1>3, <1>4
<1>5. ASSUME NEW r \in Request,
             \/ ItemCalls(r) \/ ClassCalls(r)
             \/ UpdateCode(r) \/ UpdateBranches(r) \/ BranchCount(r) \/ TeacherClasses(r)
             \/ ClassCheckBranch(r) \/ ClassCheckCourse(r) \/ ClassCheckTeacher(r)
      PROVE  Retired(x)'
  BY <1>4, <1>5, ReadsHoldNoRetired DEF tables
<1>6. ASSUME NEW r \in Request, Insert(r) \/ ItemSave(r) \/ Abandon(r) PROVE Retired(x)'
  BY <1>1, <1>4, <1>6, FinishHolds DEF Insert, ItemSave, Abandon, tables
<1>7. ASSUME NEW r \in Request, CourseDelete(r) PROVE Retired(x)'
  <2>1. \A c \in Class : class'[c] # NewClass => class'[c] = class[c]
    BY <1>7, DeleteFacts
  <2>2. QED
    BY <1>1, <1>2, <1>3, <1>7, <2>1, FinishHolds DEF CourseDelete
<1>8. ASSUME NEW r \in Request, ClassSave(r) PROVE Retired(x)'
  <2>1. loc[r].row.branch # x /\ loc[r].row.teacher # x
    BY <1>1, <1>8 DEF ClassSave, Holds
  <2>2. \A c \in Class : class'[c] # NewClass => class'[c].branch # x /\ class'[c].teacher # x
    BY <1>2, <1>8, <2>1, ClassSaveFacts
  <2>3. QED
    BY <1>1, <1>3, <1>8, <2>2, FinishHolds DEF ClassSave
<1>9. ASSUME NEW c \in Class, ClassCancel(c) PROVE Retired(x)'
  <2>1. class'[c].branch = class[c].branch /\ class'[c].teacher = class[c].teacher
    BY <1>2, <1>9 DEF ClassCancel, Typed, TypeOK, Classes, ClassRow
  <2>2. \A d \in Class \ {c} : class'[d] = class[d]
    BY <1>9 DEF ClassCancel, Typed, TypeOK, Classes
  <2>3. class[c] # NewClass /\ pc' = pc /\ loc' = loc
    BY <1>9 DEF ClassCancel
  <2>4. \A q \in Request : ~Holds(q, x)'
    BY <1>1, <2>3 DEF Holds
  <2>5. QED
    BY <1>2, <1>3, <2>1, <2>2, <2>3, <2>4
<1>10. CASE Tick \/ UNCHANGED vars
  BY <1>1, <1>4, <1>10 DEF Tick, vars, Holds
<1>11. QED
  BY <1>5, <1>6, <1>7, <1>8, <1>9, <1>10 DEF Next, Step

\* Every step leaves a retired branch or teacher out of the classes, unless it
\* is ACTIVE again or gone.
THEOREM RetiredStaysOutHolds == Spec => RetiredStaysOut
<1>1. Typed /\ [Next]_vars =>
        [\A x \in Branch \cup Teacher :
           Retired(x) /\ item'[x] # NoItem /\ item'[x].status = "INACTIVE" => Retired(x)']_vars
  BY NextRetired
<1>2. QED
  BY <1>1, InitTyped, NextTyped, PTL DEF Spec, RetiredStaysOut


(***************************************************************************)
(* How calls begin and how requests go on                                  *)
(***************************************************************************)

\* A call is let in: without overlaps, no other request is under way.
Open == ~scope.overlap => \A q \in Request : pc[q] = "idle"

\* What the first read of an endpoint of items leaves in the frame: an item to
\* insert with a code that is free, one to update that changes its status only
\* where the endpoint may, or one to deactivate or delete.
Begun(r, p, f) ==
    \/ /\ p = "insert" /\ f \in InsertFrame
       /\ ~CodeTaken(f.kind, f.row.code, {})
    \/ /\ p \in {"code", "branches", "save"} /\ f \in ItemFrame /\ Exists(f.id)
       /\ p = "code" \/ f.row.code = item[f.id].code
       /\ \/ f.row.status # "INACTIVE"
          \/ f.id \notin Branch \cup Teacher
          \/ item[f.id].status = "INACTIVE"
          \/ <<"branch", "switch">> \in scope.calls
    \/ /\ p \in {"branchClasses", "teacherClasses", "delete"} /\ f \in ItemFrame
       /\ Exists(f.id) /\ f.row.code = item[f.id].code

\* Every call about an item begins like that.
LEMMA ItemCallForm ==
    ASSUME Typed, NEW r \in Request, ItemCalls(r)
    PROVE  /\ UNCHANGED tables /\ Open
           /\ \E p, f : Goto(r, p, f) /\ Begun(r, p, f)
<1> DEFINE Form == /\ UNCHANGED tables /\ Open
                   /\ \E p, f : Goto(r, p, f) /\ Begun(r, p, f)
<1> SUFFICES Form
  OBVIOUS
<1>1. ASSUME NEW kind \in Kind, NEW row \in ItemRow, NEW branches \in SUBSET Branch,
             CreateRead(r, kind, row, branches)
      PROVE  Form
  <2> DEFINE f == [kind |-> kind, row |-> row, branches |-> branches]
  <2>1. f \in InsertFrame /\ f.kind = kind /\ f.row = row
    BY DEF InsertFrame
  <2>2. Goto(r, "insert", f) /\ UNCHANGED tables /\ Open /\ ~CodeTaken(kind, row.code, {})
    BY <1>1 DEF CreateRead, Called, Open
  <2> HIDE DEF f
  <2>3. Begun(r, "insert", f)
    BY <2>1, <2>2 DEF Begun
  <2>4. QED
    BY <2>2, <2>3
<1>2. ASSUME NEW x \in Item, NEW row \in ItemRow, NEW branches \in SUBSET Branch,
             UpdateRead(r, x, row, branches), Open,
             \/ x \notin Branch \cup Teacher
             \/ row.status = item[x].status
             \/ <<"branch", "switch">> \in scope.calls
      PROVE  Form
  <2> DEFINE f == [id |-> x, row |-> row, branches |-> branches]
             p == IF row.code # item[x].code THEN "code"
                  ELSE IF branches # {} THEN "branches" ELSE "save"
  <2>1. f \in ItemFrame /\ f.id = x /\ f.row = row
    BY DEF ItemFrame
  <2>2. Goto(r, p, f) /\ UNCHANGED tables /\ Exists(x)
    BY <1>2 DEF UpdateRead
  <2>3. p \in {"code", "branches", "save"} /\ (p = "code" \/ row.code = item[x].code)
    OBVIOUS
  <2> HIDE DEF f, p
  <2>4. Begun(r, p, f)
    BY <1>2, <2>1, <2>2, <2>3 DEF Begun
  <2>5. QED
    BY <1>2, <2>2, <2>4
<1>3. ASSUME NEW x \in Item, NEW status \in Status, Exists(x), Open, NEW p \in ItemPC,
             Goto(r, p, With(x, status)), UNCHANGED tables,
             \/ p \in {"branchClasses", "teacherClasses", "delete"}
             \/ p = "save" /\ (status # "INACTIVE" \/ x \notin Branch \cup Teacher)
      PROVE  Form
  <2>1. /\ With(x, status) \in ItemFrame /\ With(x, status).id = x
        /\ With(x, status).row.code = item[x].code
        /\ With(x, status).row.status = status
    BY <1>3, RowOfItem, WithTyped DEF With, ItemRow
  <2>2. Begun(r, p, With(x, status))
    BY <1>3, <2>1 DEF Begun
  <2>3. QED
    BY <1>3, <2>2
<1>4. ASSUME NEW row \in ItemRow, BranchCreate(r, row) \/ CourseCreate(r, row) PROVE Form
  BY <1>1, <1>4 DEF BranchCreate, CourseCreate, Kind
<1>5. ASSUME NEW row \in ItemRow, NEW b \in Branch, BranchUpdate(r, b, row) PROVE Form
  <2>1. Open /\ UpdateRead(r, b, row, {}) /\ b \in Item
    BY <1>5 DEF BranchUpdate, Called, Open, Item
  <2>2. row.status = item[b].status \/ <<"branch", "switch">> \in scope.calls
    BY <1>5 DEF BranchUpdate, Called
  <2>3. QED
    BY <1>2, <2>1, <2>2
<1>6. ASSUME NEW row \in ItemRow, NEW c \in Course, CourseUpdate(r, c, row) PROVE Form
  <2>1. c \in Item /\ c \notin Branch \cup Teacher /\ Open
    BY <1>6, DirectoryAssumption DEF Item, Kind, IdsOf, CourseUpdate, Called, Open
  <2>2. QED
    BY <1>2, <1>6, <2>1 DEF CourseUpdate
<1>7. ASSUME NEW code \in Code, NEW b \in Branch,
             TeacherCreate(r, code, {b}) \/ StudentCreate(r, code, {b})
      PROVE  Form
  BY <1>1, <1>7 DEF TeacherCreate, StudentCreate, Kind, ItemRow, Status
<1>8. ASSUME NEW code \in Code, NEW branches \in SUBSET Branch, NEW t \in Teacher,
             TeacherUpdate(r, t, code, branches)
      PROVE  Form
  <2>1. /\ t \in Item /\ [item[t] EXCEPT !.code = code] \in ItemRow
        /\ [item[t] EXCEPT !.code = code].status = item[t].status
    BY <1>8, RowOfItem DEF TeacherUpdate, Item, ItemRow
  <2>2. QED
    BY <1>2, <1>8, <2>1 DEF TeacherUpdate, Called, Open
<1>9. ASSUME NEW code \in Code, NEW branches \in SUBSET Branch, NEW s \in Student,
             StudentUpdate(r, s, code, branches)
      PROVE  Form
  <2>1. /\ s \in Item /\ [item[s] EXCEPT !.code = code] \in ItemRow
        /\ [item[s] EXCEPT !.code = code].status = item[s].status
    BY <1>9, RowOfItem DEF StudentUpdate, Item, ItemRow
  <2>2. QED
    BY <1>2, <1>9, <2>1 DEF StudentUpdate, Called, Open
<1>10. ASSUME NEW b \in Branch, BranchRemove(r, b) PROVE Form
  BY <1>3, <1>10 DEF BranchRemove, Called, Open, Item, Status, ItemPC
<1>11. ASSUME NEW c \in Course, CourseRemove(r, c) PROVE Form
  BY <1>3, <1>11 DEF CourseRemove, Called, Open, Item, Status, ItemPC
<1>12. ASSUME NEW status \in Status, NEW t \in Teacher, TeacherStatus(r, t, status) PROVE Form
  BY <1>3, <1>12 DEF TeacherStatus, Called, Open, Item, ItemPC
<1>13. ASSUME NEW status \in Status, NEW s \in Student, StudentStatus(r, s, status) PROVE Form
  <2>1. s \in Item /\ s \notin Branch \cup Teacher
    BY DirectoryAssumption DEF Item, Kind, IdsOf
  <2>2. QED
    BY <1>3, <1>13, <2>1 DEF StudentStatus, Called, Open, ItemPC
<1>14. QED
  BY <1>4, <1>5, <1>6, <1>7, <1>8, <1>9, <1>10, <1>11, <1>12, <1>13 DEF ItemCalls

\* Every call about a class begins before its checks, duplicate after them.
LEMMA ClassCallForm ==
    ASSUME Typed, NEW r \in Request, ClassCalls(r)
    PROVE  /\ UNCHANGED tables /\ Open
           /\ \E p \in {"classBranch", "classSave"} : \E f :
                /\ Goto(r, p, f)
                /\ p = "classSave" => <<"class", "duplicate">> \in scope.calls
<1>1. ASSUME NEW row \in ClassRow, ClassCreate(r, row)
      PROVE  UNCHANGED tables /\ Open /\ \E f : Goto(r, "classBranch", f)
  BY <1>1 DEF ClassCreate, Called, Open
<1>2. ASSUME NEW c \in Class, NEW row \in ClassRow, ClassUpdate(r, c, row)
      PROVE  UNCHANGED tables /\ Open /\ \E f : Goto(r, "classBranch", f)
  BY <1>2 DEF ClassUpdate, Called, Open
<1>3. ASSUME NEW c \in Class, ClassDuplicate(r, c)
      PROVE  /\ UNCHANGED tables /\ Open /\ \E f : Goto(r, "classSave", f)
             /\ <<"class", "duplicate">> \in scope.calls
  BY <1>3 DEF ClassDuplicate, Called, Open
<1>4. QED
  BY <1>1, <1>2, <1>3 DEF ClassCalls

\* The checks of a handler only read; it goes on to the next with the frame it
\* has, or answers.
LEMMA CheckForm ==
    ASSUME Typed, NEW r \in Request,
           \/ UpdateCode(r) \/ UpdateBranches(r) \/ BranchCount(r) \/ TeacherClasses(r)
           \/ ClassCheckBranch(r) \/ ClassCheckCourse(r) \/ ClassCheckTeacher(r)
    PROVE  /\ UNCHANGED tables /\ pc[r] # "idle"
           /\ \/ Finish(r)
              \/ /\ pc[r] = "code" /\ \E p \in {"branches", "save"} : Goto(r, p, loc[r])
                 /\ ~CodeTaken(KindOf(loc[r].id), loc[r].row.code, {loc[r].id})
              \/ pc[r] = "branches" /\ Goto(r, "save", loc[r])
              \/ pc[r] = "branchClasses" /\ ~BranchBusy(loc[r].id) /\ Goto(r, "save", loc[r])
              \/ pc[r] = "teacherClasses" /\ ~TeacherBusy(loc[r].id) /\ Goto(r, "save", loc[r])
              \/ pc[r] = "classBranch" /\ Active(loc[r].row.branch) /\ Goto(r, "classCourse", loc[r])
              \/ /\ pc[r] = "classCourse"
                 /\ \/ Goto(r, "classTeacher", loc[r])
                    \/ loc[r].row.teacher = NoTeacher /\ Goto(r, "classSave", loc[r])
              \/ pc[r] = "classTeacher" /\ Active(loc[r].row.teacher) /\ Goto(r, "classSave", loc[r])
<1>1. CASE UpdateCode(r)
  BY <1>1 DEF UpdateCode
<1>2. CASE UpdateBranches(r) \/ BranchCount(r) \/ TeacherClasses(r)
  BY <1>2 DEF UpdateBranches, BranchCount, TeacherClasses
<1>3. CASE ClassCheckBranch(r) \/ ClassCheckCourse(r) \/ ClassCheckTeacher(r)
  BY <1>3 DEF ClassCheckBranch, ClassCheckCourse, ClassCheckTeacher
<1>4. QED
  BY <1>1, <1>2, <1>3

\* The calls and the endpoints of a behaviour never change.
LEMMA ScopeStays == Typed /\ [Next]_vars => UNCHANGED scope
<1> SUFFICES ASSUME Typed, [Next]_vars PROVE UNCHANGED scope
  OBVIOUS
<1>1. ASSUME NEW r \in Request, ItemCalls(r) \/ ClassCalls(r) PROVE UNCHANGED scope
  BY <1>1, ItemCallForm, ClassCallForm DEF tables
<1>2. ASSUME NEW r \in Request, Step(r) PROVE UNCHANGED scope
  BY <1>2, CheckForm DEF Step, Insert, ItemSave, CourseDelete, ClassSave, tables
<1>3. QED
  BY <1>1, <1>2 DEF Next, Abandon, ClassCancel, Tick, vars, tables


(***************************************************************************)
(* One request at a time, nothing in use is deactivated                    *)
(***************************************************************************)

\* Without overlaps, one request is under way at most.
Alone == scope.overlap \/ \A q, r \in Request : pc[q] # "idle" /\ pc[r] # "idle" => q = r

\* A call or a step of one request leaves it alone.
LEMMA AloneKept ==
    ASSUME Typed, Alone, [Next]_vars
    PROVE  Alone'
<1>1. scope' = scope
  BY ScopeStays
<1>2. ASSUME NEW r \in Request, OthersStay(r), Open \/ pc[r] # "idle"
      PROVE  Alone'
  BY <1>1, <1>2 DEF OthersStay, Open, Alone
<1>3. ASSUME NEW r \in Request, ItemCalls(r) \/ ClassCalls(r)
      PROVE  Alone'
  BY <1>2, <1>3, ItemCallForm, ClassCallForm, GotoFacts
<1>4. ASSUME NEW r \in Request, Step(r) \/ Abandon(r)
      PROVE  Alone'
  <2>1. CASE Insert(r) \/ ItemSave(r) \/ CourseDelete(r) \/ ClassSave(r) \/ Abandon(r)
    BY <1>2, <2>1, FinishTyped DEF Insert, ItemSave, CourseDelete, ClassSave, Abandon
  <2>2. CASE \/ UpdateCode(r) \/ UpdateBranches(r) \/ BranchCount(r) \/ TeacherClasses(r)
             \/ ClassCheckBranch(r) \/ ClassCheckCourse(r) \/ ClassCheckTeacher(r)
    BY <1>2, <2>2, CheckForm, GotoFacts DEF Finish
  <2>3. QED
    BY <1>4, <2>1, <2>2 DEF Step
<1>5. CASE (\E c \in Class : ClassCancel(c)) \/ Tick \/ UNCHANGED vars
  BY <1>1, <1>5 DEF ClassCancel, Tick, vars, Alone
<1>6. QED
  BY <1>3, <1>4, <1>5 DEF Next

\* One request at a time and neither of the endpoints that check nothing.
Guarded ==
    ~scope.overlap /\ scope.calls \cap {<<"branch", "switch">>, <<"class", "duplicate">>} = {}

\* Deactivating x takes no branch or teacher away from a class in use.
MayStop(x) ==
    /\ x \in Branch => ~Active(x) \/ ~BranchBusy(x)
    /\ x \in Teacher => ~Active(x) \/ ~TeacherBusy(x)

\* A request that deactivates something may.
SaverKnows ==
    \A r \in Request :
      pc[r] \in {"code", "branches", "save"} /\ loc[r].row.status = "INACTIVE" =>
        MayStop(loc[r].id)

\* What a request has checked for its class is ACTIVE still.
CheckerKnows ==
    \A r \in Request :
      /\ pc[r] \in {"classCourse", "classTeacher", "classSave"} => Active(loc[r].row.branch)
      /\ pc[r] = "classSave" /\ loc[r].row.teacher # NoTeacher => Active(loc[r].row.teacher)

\* Each class in use has its branch and its teacher.
Used(c) ==
    class[c] # NewClass /\ ~class[c].cancelled =>
      /\ class[c].end >= today => Active(class[c].branch)
      /\ class[c].end > today /\ class[c].teacher # NoTeacher => Active(class[c].teacher)

UseInv ==
    /\ Alone
    /\ Guarded => SaverKnows /\ CheckerKnows /\ \A c \in Class : Used(c)

\* What a request that goes on has to know when nothing else happens.
LEMMA GotoUse ==
    ASSUME Typed, UseInv, Guarded, UNCHANGED tables, NEW r \in Request, NEW p, NEW f,
           Goto(r, p, f),
           p \in {"code", "branches", "save"} /\ f.row.status = "INACTIVE" => MayStop(f.id),
           p \in {"classCourse", "classTeacher", "classSave"} => Active(f.row.branch),
           p = "classSave" /\ f.row.teacher # NoTeacher => Active(f.row.teacher)
    PROVE  SaverKnows' /\ CheckerKnows' /\ \A c \in Class : Used(c)'
<1>1. UNCHANGED <<item, class, today>> /\ pc'[r] = p /\ loc'[r] = f /\ OthersStay(r)
  BY GotoFacts DEF tables
<1>2. SaverKnows /\ CheckerKnows /\ \A c \in Class : Used(c)
  BY DEF UseInv
<1>3. \A x : (Active(x)' <=> Active(x)) /\ (MayStop(x)' <=> MayStop(x))
  BY <1>1 DEF Active, Exists, MayStop, BranchBusy, TeacherBusy
<1>4. SaverKnows'
  BY <1>1, <1>2, <1>3 DEF OthersStay, SaverKnows
<1>5. CheckerKnows'
  BY <1>1, <1>2, <1>3 DEF OthersStay, CheckerKnows
<1>6. \A c \in Class : Used(c)'
  BY <1>1, <1>2, <1>3 DEF Used
<1>7. QED
  BY <1>4, <1>5, <1>6

\* A request alone that answers leaves none that knows anything.
LEMMA FinishUse ==
    ASSUME Typed, UseInv, Guarded, NEW r \in Request, pc[r] # "idle", Finish(r)
    PROVE  SaverKnows' /\ CheckerKnows'
<1>1. \A q \in Request : pc'[q] = "idle"
  BY FinishTyped DEF OthersStay, UseInv, Alone, Guarded, Typed, TypeOK
<1>2. QED
  BY <1>1 DEF SaverKnows, CheckerKnows

\* The calls leave all that is in use ACTIVE.
LEMMA CallsUse ==
    ASSUME Typed, UseInv, Guarded, NEW r \in Request, ItemCalls(r) \/ ClassCalls(r)
    PROVE  SaverKnows' /\ CheckerKnows' /\ \A c \in Class : Used(c)'
<1>1. CASE ItemCalls(r)
  <2>1. UNCHANGED tables /\ \E p, f : Goto(r, p, f) /\ Begun(r, p, f)
    BY <1>1, ItemCallForm
  <2>2. PICK p, f : Goto(r, p, f) /\ Begun(r, p, f)
    BY <2>1
  <2>3. p \notin {"classCourse", "classTeacher", "classSave"}
    BY <2>2 DEF Begun
  <2>4. p \in {"code", "branches", "save"} /\ f.row.status = "INACTIVE" => MayStop(f.id)
    BY <2>2 DEF Begun, Guarded, MayStop, Active
  <2>5. QED
    BY <2>1, <2>2, <2>3, <2>4, GotoUse
<1>2. CASE ClassCalls(r)
  <2>1. UNCHANGED tables /\ \E f : Goto(r, "classBranch", f)
    BY <1>2, ClassCallForm DEF Guarded
  <2>2. QED
    BY <2>1, GotoUse
<1>3. QED
  BY <1>1, <1>2

\* So do the checks.
LEMMA ChecksUse ==
    ASSUME Typed, UseInv, Guarded, NEW r \in Request,
           \/ UpdateCode(r) \/ UpdateBranches(r) \/ BranchCount(r) \/ TeacherClasses(r)
           \/ ClassCheckBranch(r) \/ ClassCheckCourse(r) \/ ClassCheckTeacher(r)
    PROVE  SaverKnows' /\ CheckerKnows' /\ \A c \in Class : Used(c)'
<1>1. UNCHANGED tables /\ SaverKnows /\ CheckerKnows
  BY CheckForm DEF UseInv
<1>2. CASE Finish(r)
  BY <1>1, <1>2, GotoUse DEF Finish
<1>3. CASE pc[r] \in {"code", "branches"} /\ \E p \in {"branches", "save"} : Goto(r, p, loc[r])
  <2>1. loc[r].row.status = "INACTIVE" => MayStop(loc[r].id)
    BY <1>1, <1>3 DEF SaverKnows
  <2>2. QED
    BY <1>1, <1>3, <2>1, GotoUse
<1>4. CASE pc[r] = "branchClasses" /\ ~BranchBusy(loc[r].id) /\ Goto(r, "save", loc[r])
  <2>1. MayStop(loc[r].id)
    BY <1>4, DirectoryAssumption DEF MayStop, Typed, KindsKnown, Kind, IdsOf
  <2>2. QED
    BY <1>1, <1>4, <2>1, GotoUse
<1>5. CASE pc[r] = "teacherClasses" /\ ~TeacherBusy(loc[r].id) /\ Goto(r, "save", loc[r])
  <2>1. MayStop(loc[r].id)
    BY <1>5, DirectoryAssumption DEF MayStop, Typed, KindsKnown, Kind, IdsOf
  <2>2. QED
    BY <1>1, <1>5, <2>1, GotoUse
<1>6. CASE pc[r] = "classBranch" /\ Active(loc[r].row.branch) /\ Goto(r, "classCourse", loc[r])
  BY <1>1, <1>6, GotoUse
<1>7. CASE /\ pc[r] = "classCourse"
           /\ \/ Goto(r, "classTeacher", loc[r])
              \/ loc[r].row.teacher = NoTeacher /\ Goto(r, "classSave", loc[r])
  <2>1. Active(loc[r].row.branch)
    BY <1>1, <1>7 DEF CheckerKnows
  <2>2. QED
    BY <1>1, <1>7, <2>1, GotoUse
<1>8. CASE pc[r] = "classTeacher" /\ Active(loc[r].row.teacher) /\ Goto(r, "classSave", loc[r])
  <2>1. Active(loc[r].row.branch)
    BY <1>1, <1>8 DEF CheckerKnows
  <2>2. QED
    BY <1>1, <1>8, <2>1, GotoUse
<1>9. QED
  BY <1>2, <1>3, <1>4, <1>5, <1>6, <1>7, <1>8, CheckForm


\* The branch and the teacher of a class are neither courses nor students.
LEMMA ClassItems ==
    ASSUME Typed, NEW c \in Class, class[c] # NewClass
    PROVE  /\ class[c] \in ClassRow
           /\ class[c].branch \in Item /\ class[c].branch \notin Course \cup Student \cup Teacher
           /\ class[c].teacher # NoTeacher =>
                class[c].teacher \in Item /\ class[c].teacher \notin Course \cup Student \cup Branch
<1>1. class[c] \in ClassRow
  BY DEF Typed, TypeOK, Classes
<1>2. class[c].branch \in Branch /\ class[c].teacher \in Teacher \cup {NoTeacher}
  BY <1>1 DEF ClassRow
<1>3. /\ Branch \cap Course = {} /\ Branch \cap Teacher = {} /\ Branch \cap Student = {}
      /\ Teacher \cap Course = {} /\ Teacher \cap Student = {}
  <2>1. \A k, l \in {"branch", "course", "teacher", "student"} : k # l => IdsOf(k) \cap IdsOf(l) = {}
    BY DirectoryAssumption DEF Kind
  <2>2. IdsOf("branch") = Branch /\ IdsOf("course") = Course /\ IdsOf("teacher") = Teacher
        /\ IdsOf("student") = Student
    BY DEF IdsOf
  <2>3. QED
    BY <2>1, <2>2
<1>4. QED
  BY <1>1, <1>2, <1>3 DEF Item

\* The save of an item deactivates nothing in use.
LEMMA SaveUse ==
    ASSUME Typed, UseInv, Guarded, NEW r \in Request, ItemSave(r), NEW c \in Class
    PROVE  Used(c)'
<1> DEFINE x == loc[r].id
<1>1. Used(c) /\ UNCHANGED <<class, today>> /\ pc[r] = "save"
  BY DEF UseInv, ItemSave
<1>2. /\ x \in Item /\ loc[r].row \in ItemRow
      /\ \/ UNCHANGED item
         \/ item'[x] = loc[r].row /\ \A y \in Item \ {x} : item'[y] = item[y]
  BY SaveFacts
<1>3. SUFFICES ASSUME class[c] # NewClass, ~class[c].cancelled
               PROVE  /\ class[c].end >= today => Active(class[c].branch)'
                      /\ class[c].end > today /\ class[c].teacher # NoTeacher
                           => Active(class[c].teacher)'
  BY <1>1 DEF Used
<1>4. CASE UNCHANGED item
  BY <1>1, <1>3, <1>4 DEF Used, Active, Exists
<1>5. CASE item'[x] = loc[r].row /\ \A y \in Item \ {x} : item'[y] = item[y]
  <2>1. loc[r].row # NoItem
    BY <1>2, DirectoryAssumption
  <2>2. ASSUME NEW y \in Item, Active(y), y # x \/ loc[r].row.status = "ACTIVE" PROVE Active(y)'
    BY <1>5, <2>1, <2>2 DEF Active, Exists
  <2>3. CASE loc[r].row.status = "ACTIVE"
    BY <1>1, <1>3, <2>2, <2>3, ClassItems DEF Used
  <2>4. CASE loc[r].row.status # "ACTIVE"
    <3>1. loc[r].row.status = "INACTIVE"
      BY <1>2, <2>4 DEF ItemRow, Status
    <3>2. MayStop(x)
      BY <1>1, <3>1 DEF UseInv, SaverKnows
    <3>3. class[c].end >= today => Active(class[c].branch)'
      <4>1. SUFFICES ASSUME class[c].end >= today PROVE Active(class[c].branch)'
        OBVIOUS
      <4>2. Active(class[c].branch) /\ class[c].branch \in Item /\ class[c].branch \in Branch
        BY <1>1, <1>3, <4>1, ClassItems DEF Used, ClassRow
      <4>3. class[c].branch # x
        BY <1>3, <3>2, <4>1, <4>2 DEF MayStop, BranchBusy
      <4>4. QED
        BY <1>1, <2>2, <4>2, <4>3
    <3>4. class[c].end > today /\ class[c].teacher # NoTeacher => Active(class[c].teacher)'
      <4>1. SUFFICES ASSUME class[c].end > today, class[c].teacher # NoTeacher
                     PROVE  Active(class[c].teacher)'
        OBVIOUS
      <4>2. Active(class[c].teacher) /\ class[c].teacher \in Item /\ class[c].teacher \in Teacher
        BY <1>1, <1>3, <4>1, ClassItems DEF Used, ClassRow
      <4>3. class[c].teacher # x
        BY <1>3, <3>2, <4>1, <4>2 DEF MayStop, TeacherBusy
      <4>4. QED
        BY <1>1, <2>2, <4>2, <4>3
    <3>5. QED
      BY <3>3, <3>4
  <2>5. QED
    BY <2>3, <2>4
<1>6. QED
  BY <1>2, <1>4, <1>5

\* An INSERT of an item, the deletion of a course with its classes and the save
\* of a class leave what is in use ACTIVE.
LEMMA WritesUse ==
    ASSUME Typed, UseInv, Guarded, NEW r \in Request,
           Insert(r) \/ CourseDelete(r) \/ ClassSave(r), NEW c \in Class
    PROVE  Used(c)'
<1>1. Used(c) /\ UNCHANGED today
  BY DEF UseInv, Insert, CourseDelete, ClassSave
<1>2. CASE Insert(r)
  <2>1. ASSUME NEW y \in Item, Active(y) PROVE Active(y)'
    <3>1. item'[y] = item[y]
      BY <1>2, <2>1, InsertFacts DEF Active
    <3>2. QED
      BY <2>1, <3>1 DEF Active, Exists
  <2>2. UNCHANGED class
    BY <1>2 DEF Insert
  <2>3. QED
    BY <1>1, <2>1, <2>2, ClassItems DEF Used
<1>3. CASE CourseDelete(r)
  <2>1. SUFFICES ASSUME class'[c] # NewClass PROVE Used(c)'
    BY DEF Used
  <2>2. class'[c] = class[c] /\ loc[r].id \in Course
    BY <1>3, <2>1, DeleteFacts
  <2>3. ASSUME NEW y \in Item, y \notin Course, Active(y) PROVE Active(y)'
    <3>1. item'[y] = item[y]
      BY <1>3, <2>2, <2>3, DeleteFacts
    <3>2. QED
      BY <2>3, <3>1 DEF Active, Exists
  <2>4. QED
    BY <1>1, <2>1, <2>2, <2>3, ClassItems DEF Used
<1>4. CASE ClassSave(r)
  <2>1. UNCHANGED item /\ pc[r] = "classSave"
    BY <1>4 DEF ClassSave
  <2>2. /\ Active(loc[r].row.branch)
        /\ loc[r].row.teacher # NoTeacher => Active(loc[r].row.teacher)
    BY <2>1 DEF UseInv, CheckerKnows
  <2>3. class'[c] = class[c] \/ class'[c] = loc[r].row
    BY <1>4, ClassSaveFacts
  <2>4. QED
    BY <1>1, <2>1, <2>2, <2>3 DEF Used, Active, Exists
<1>5. QED
  BY <1>2, <1>3, <1>4

\* Cancelling a class and a new day only release what was in use.
LEMMA OthersUse ==
    ASSUME Typed, UseInv, Guarded,
           (\E c \in Class : ClassCancel(c)) \/ Tick \/ UNCHANGED vars
    PROVE  SaverKnows' /\ CheckerKnows' /\ \A c \in Class : Used(c)'
<1>1. UNCHANGED <<item, pc, loc>> /\ \A x : Active(x)' <=> Active(x)
  BY DEF ClassCancel, Tick, vars, Active, Exists
<1>2. SaverKnows /\ CheckerKnows /\ \A c \in Class : Used(c)
  BY DEF UseInv
<1>3. /\ today' \in Int /\ today \in Int /\ today' >= today
      /\ \A c \in Class : class'[c] # NewClass =>
           /\ class[c] # NewClass /\ class[c].end \in Int
           /\ class'[c].branch = class[c].branch /\ class'[c].teacher = class[c].teacher
           /\ class'[c].end = class[c].end /\ (class[c].cancelled => class'[c].cancelled)
  <2>1. today \in Int /\ \A c \in Class : class[c] # NewClass => class[c] \in ClassRow /\ class[c].end \in Int
    BY DirectoryAssumption DEF Typed, TypeOK, Date, Classes, ClassRow
  <2>2. ASSUME NEW c \in Class, ClassCancel(c)
        PROVE  \A d \in Class : class'[d] # NewClass =>
                 /\ class[d] # NewClass
                 /\ class'[d].branch = class[d].branch /\ class'[d].teacher = class[d].teacher
                 /\ class'[d].end = class[d].end /\ (class[d].cancelled => class'[d].cancelled)
    <3>1. \A d \in Class \ {c} : class'[d] = class[d]
      BY <2>2 DEF ClassCancel, Typed, TypeOK, Classes
    <3>2. class[c] # NewClass /\ class'[c] = [class[c] EXCEPT !.cancelled = TRUE]
      BY <2>2 DEF ClassCancel, Typed, TypeOK, Classes
    <3>3. class[c] \in ClassRow
      BY <2>1, <3>2
    <3>4. /\ class'[c].branch = class[c].branch /\ class'[c].teacher = class[c].teacher
          /\ class'[c].end = class[c].end /\ class'[c].cancelled
      BY <3>2, <3>3 DEF ClassRow
    <3>5. QED
      BY <3>1, <3>2, <3>4
  <2>3. CASE \E c \in Class : ClassCancel(c)
    BY <2>1, <2>2, <2>3 DEF ClassCancel
  <2>4. CASE Tick \/ UNCHANGED vars
    BY <2>1, <2>4 DEF Tick, vars
  <2>5. QED
    BY <2>3, <2>4
<1>4. \A x : (BranchBusy(x)' => BranchBusy(x)) /\ (TeacherBusy(x)' => TeacherBusy(x))
  <2>1. ASSUME NEW x, BranchBusy(x)' PROVE BranchBusy(x)
    <3>1. PICK c \in Class : /\ class'[c] # NewClass /\ class'[c].branch = x
                             /\ ~class'[c].cancelled /\ class'[c].end >= today'
      BY <2>1 DEF BranchBusy
    <3>2. class[c].end >= today
      BY <1>3, <3>1
    <3>3. QED
      BY <1>3, <3>1, <3>2 DEF BranchBusy
  <2>2. ASSUME NEW x, TeacherBusy(x)' PROVE TeacherBusy(x)
    <3>1. PICK c \in Class : /\ class'[c] # NewClass /\ class'[c].teacher = x
                             /\ ~class'[c].cancelled /\ class'[c].end > today'
      BY <2>2 DEF TeacherBusy
    <3>2. class[c].end > today
      BY <1>3, <3>1
    <3>3. QED
      BY <1>3, <3>1, <3>2 DEF TeacherBusy
  <2>3. QED
    BY <2>1, <2>2
<1>5. SaverKnows'
  <2>1. \A x : MayStop(x) => MayStop(x)'
    BY <1>1, <1>4 DEF MayStop
  <2>2. QED
    BY <1>1, <1>2, <2>1 DEF SaverKnows
<1>6. CheckerKnows'
  BY <1>1, <1>2 DEF CheckerKnows
<1>7. ASSUME NEW c \in Class PROVE Used(c)'
  <2>1. CASE class'[c] = NewClass \/ class'[c].cancelled
    BY <2>1 DEF Used
  <2>2. CASE class'[c] # NewClass /\ ~class'[c].cancelled
    <3>1. /\ class[c] # NewClass /\ ~class[c].cancelled
          /\ class'[c].branch = class[c].branch /\ class'[c].teacher = class[c].teacher
      BY <1>3, <2>2
    <3>2. /\ class'[c].end >= today' => class[c].end >= today
          /\ class'[c].end > today' => class[c].end > today
      BY <1>3, <2>2
    <3>3. /\ class'[c].end >= today' => Active(class[c].branch)
          /\ class'[c].end > today' /\ class'[c].teacher # NoTeacher => Active(class[c].teacher)
      BY <1>2, <3>1, <3>2 DEF Used
    <3>4. QED
      BY <1>1, <3>1, <3>3 DEF Used, Active, Exists
  <2>3. QED
    BY <2>1, <2>2
<1>8. QED
  BY <1>5, <1>6, <1>7

\* Every step keeps what the requests know of what is in use.
LEMMA NextUse == Typed /\ UseInv /\ [Next]_vars => UseInv'
<1> SUFFICES ASSUME Typed, UseInv, [Next]_vars PROVE UseInv'
  OBVIOUS
<1>1. Alone' /\ (Guarded' <=> Guarded)
  BY AloneKept, ScopeStays DEF UseInv, Guarded
<1>2. SUFFICES ASSUME Guarded PROVE SaverKnows' /\ CheckerKnows' /\ \A c \in Class : Used(c)'
  BY <1>1 DEF UseInv
<1>3. ASSUME NEW r \in Request, Insert(r) \/ ItemSave(r) \/ CourseDelete(r) \/ ClassSave(r)
      PROVE  SaverKnows' /\ CheckerKnows' /\ \A c \in Class : Used(c)'
  <2>1. pc[r] # "idle" /\ Finish(r)
    BY <1>3 DEF Insert, ItemSave, CourseDelete, ClassSave
  <2>2. QED
    BY <1>2, <1>3, <2>1, FinishUse, SaveUse, WritesUse
<1>4. ASSUME NEW r \in Request, Abandon(r)
      PROVE  SaverKnows' /\ CheckerKnows' /\ \A c \in Class : Used(c)'
  BY <1>2, <1>4, GotoUse DEF Abandon, Finish
<1>5. QED
  BY <1>2, <1>3, <1>4, CallsUse, ChecksUse, OthersUse DEF Next, Step

\* Initially there is no class, and no request.
LEMMA InitUse == Init => UseInv
<1> SUFFICES ASSUME Init PROVE UseInv
  OBVIOUS
<1>1. \A r \in Request : pc[r] = "idle"
  BY DEF Init
<1>2. \A c \in Class : class[c] = NewClass
  BY DirectoryAssumption DEF Init
<1>3. QED
  BY <1>1, <1>2 DEF UseInv, Alone, SaverKnows, CheckerKnows, Used

\* One request at a time, every class in use has an ACTIVE branch and teacher.
THEOREM InUseIsActiveHolds == Spec => []InUseIsActive
<1>1. UseInv => InUseIsActive
  BY DEF UseInv, Guarded, Used, InUseIsActive
<1>2. QED
  BY <1>1, InitTyped, NextTyped, InitUse, NextUse, PTL DEF Spec


(***************************************************************************)
(* The codes of branches                                                   *)
(***************************************************************************)

\* Who may hold a code: a row, or a request about to insert one.
Slot == ({"row"} \X Branch) \cup ({"new"} \X Request)

HasCode(b, code) == Exists(b) /\ item[b].code = code

\* r is past its check of the code and is to save b with it.
Pending(r, b, code) ==
    /\ pc[r] \in {"branchClasses", "branches", "save"}
    /\ loc[r].id = b /\ loc[r].row.code = code

\* r is to insert a branch with the code.
Inserting(r, code) ==
    pc[r] = "insert" /\ loc[r].kind = "branch" /\ loc[r].row.code = code

Claims(s, code) ==
    \/ s[1] = "row" /\ (HasCode(s[2], code) \/ \E r \in Request : Pending(r, s[2], code))
    \/ s[1] = "new" /\ Inserting(s[2], code)

Claimed(code) == {s \in Slot : Claims(s, code)}

Bound == IF scope.overlap THEN Cardinality(Request) ELSE 1

Busy == {r \in Request : pc[r] # "idle"}

ClaimsBounded == \A code \in Code : Cardinality(Claimed(code)) <= Bound

\* The slots are finitely many.
LEMMA SlotsFinite ==
    /\ IsFiniteSet(Slot)
    /\ \A S \in SUBSET Slot : IsFiniteSet(S) /\ Cardinality(S) \in Nat
    /\ \A S, T \in SUBSET Slot : S \subseteq T => Cardinality(S) <= Cardinality(T)
<1>1. IsFiniteSet({"row"} \X Branch) /\ IsFiniteSet({"new"} \X Request)
  BY FS_Product, FS_Singleton, DirectoryAssumption
<1>2. IsFiniteSet(Slot)
  BY <1>1, FS_Union DEF Slot
<1>3. QED
  BY <1>2, FS_Subset, FS_CardinalityType

\* A set each of whose elements a function takes from a finite set is no larger.
LEMMA ImageBounded ==
    ASSUME NEW B, IsFiniteSet(B), NEW g, DOMAIN g = B, NEW C,
           \A c \in C : \E b \in B : c = g[b]
    PROVE  IsFiniteSet(C) /\ Cardinality(C) <= Cardinality(B)
<1> DEFINE T == {g[b] : b \in B}
           h == [b \in B |-> g[b]]
<1>1. h \in Surjection(B, T)
  BY DEF Surjection
<1>2. IsFiniteSet(T) /\ Cardinality(T) <= Cardinality(B)
  BY <1>1, FS_Surjection
<1>3. C \in SUBSET T
  OBVIOUS
<1> HIDE DEF T
<1>4. IsFiniteSet(C) /\ Cardinality(C) <= Cardinality(T)
  BY <1>2, <1>3, FS_Subset
<1>5. Cardinality(C) \in Int /\ Cardinality(T) \in Int /\ Cardinality(B) \in Int
  BY <1>2, <1>4, FS_CardinalityType
<1>6. QED
  BY <1>2, <1>4, <1>5

\* No more requests are under way than may be.
LEMMA BusyBounded ==
    ASSUME Alone
    PROVE  /\ IsFiniteSet(Busy) /\ Cardinality(Busy) \in Nat /\ Bound \in Nat /\ Bound >= 1
           /\ Cardinality(Busy) <= Bound
<1>1. IsFiniteSet(Busy) /\ Cardinality(Busy) <= Cardinality(Request) /\ Cardinality(Busy) \in Nat
  <2>1. Busy \in SUBSET Request /\ IsFiniteSet(Request)
    BY DirectoryAssumption DEF Busy
  <2>2. QED
    BY <2>1, FS_Subset, FS_CardinalityType
<1>2. Cardinality(Request) \in Nat /\ Cardinality(Request) # 0
  BY DirectoryAssumption, FS_CardinalityType, FS_EmptySet
<1>3. Bound \in Nat /\ Bound >= 1
  BY <1>2 DEF Bound
<1>4. CASE scope.overlap
  BY <1>1, <1>3, <1>4 DEF Bound
<1>5. CASE ~scope.overlap
  <2>1. CASE Busy = {}
    BY <1>1, <1>3, <2>1, FS_EmptySet
  <2>2. CASE Busy # {}
    <3>1. PICK r \in Busy : TRUE
      BY <2>2
    <3>2. Busy = {r}
      BY <1>5, <3>1 DEF Busy, Alone
    <3>3. QED
      BY <1>1, <1>3, <3>2, FS_Singleton
  <2>3. QED
    BY <2>1, <2>2
<1>6. QED
  BY <1>4, <1>5

\* Where each claim to a code is a request's,
FreshFits ==
    \A code :
      Alone /\ (\A b \in Branch : HasCode(b, code) => \E r \in Request : Pending(r, b, code))
        => Cardinality(Claimed(code)) <= Bound

\* there are no more of them than requests under way.
LEMMA FreshBounded == FreshFits
<1> SUFFICES ASSUME NEW code, Alone,
                    \A b \in Branch : HasCode(b, code) => \E r \in Request : Pending(r, b, code)
             PROVE  Cardinality(Claimed(code)) <= Bound
  BY DEF FreshFits
<1> DEFINE g == [r \in Busy |-> IF pc[r] = "insert" THEN <<"new", r>> ELSE <<"row", loc[r].id>>]
<1>1. IsFiniteSet(Busy) /\ Cardinality(Busy) \in Nat /\ Bound \in Nat /\ Cardinality(Busy) <= Bound
  BY BusyBounded
<1>2. ASSUME NEW s \in Claimed(code) PROVE \E r \in Busy : s = g[r]
  <2>1. s \in Slot /\ Claims(s, code)
    BY DEF Claimed
  <2>2. CASE s \in {"row"} \X Branch
    <3>1. s = <<"row", s[2]>> /\ s[2] \in Branch
      BY <2>2
    <3>2. PICK r \in Request : Pending(r, s[2], code)
      BY <2>1, <3>1 DEF Claims
    <3>3. r \in Busy /\ g[r] = <<"row", s[2]>>
      BY <3>2 DEF Busy, Pending
    <3>4. QED
      BY <3>1, <3>3
  <2>3. CASE s \in {"new"} \X Request
    <3>1. s = <<"new", s[2]>> /\ s[2] \in Request
      BY <2>3
    <3>2. Inserting(s[2], code)
      BY <2>1, <3>1 DEF Claims
    <3>3. s[2] \in Busy /\ g[s[2]] = <<"new", s[2]>>
      BY <3>1, <3>2 DEF Busy, Inserting
    <3>4. QED
      BY <3>1, <3>3
  <2>4. QED
    BY <2>1, <2>2, <2>3 DEF Slot
<1>3. DOMAIN g = Busy
  OBVIOUS
<1> HIDE DEF g
<1>4. IsFiniteSet(Claimed(code)) /\ Cardinality(Claimed(code)) <= Cardinality(Busy)
  BY <1>1, <1>2, <1>3, ImageBounded
<1>5. Cardinality(Claimed(code)) \in Nat
  BY <1>4, FS_CardinalityType
<1>6. QED
  BY <1>1, <1>4, <1>5

\* A step that adds no claim keeps to the bound.
LEMMA FewerClaims ==
    ASSUME ClaimsBounded, Alone, UNCHANGED scope, NEW code \in Code,
           \A b \in Branch : HasCode(b, code)' => <<"row", b>> \in Claimed(code),
           \A b \in Branch, r \in Request : Pending(r, b, code)' => <<"row", b>> \in Claimed(code),
           \A r \in Request : Inserting(r, code)' => Inserting(r, code)
    PROVE  Cardinality(Claimed(code))' <= Bound'
<1>1. ASSUME NEW s \in Claimed(code)' PROVE s \in Claimed(code)
  <2>1. s \in Slot /\ Claims(s, code)'
    BY DEF Claimed
  <2>2. CASE s \in {"row"} \X Branch
    <3>1. s = <<"row", s[2]>> /\ s[2] \in Branch
      BY <2>2
    <3>2. HasCode(s[2], code)' \/ \E r \in Request : Pending(r, s[2], code)'
      BY <2>1, <3>1 DEF Claims
    <3>3. QED
      BY <3>1, <3>2
  <2>3. CASE s \in {"new"} \X Request
    <3>1. s = <<"new", s[2]>> /\ s[2] \in Request
      BY <2>3
    <3>2. Inserting(s[2], code)
      BY <2>1, <3>1 DEF Claims
    <3>3. QED
      BY <2>1, <3>1, <3>2 DEF Claims, Claimed
  <2>4. QED
    BY <2>1, <2>2, <2>3 DEF Slot
<1>2. Claimed(code)' \in SUBSET Slot /\ Claimed(code) \in SUBSET Slot
  BY DEF Claimed
<1>3. Cardinality(Claimed(code)') <= Cardinality(Claimed(code))
  BY <1>1, <1>2, SlotsFinite
<1>4. Cardinality(Claimed(code)') \in Nat /\ Cardinality(Claimed(code)) \in Nat /\ Bound \in Nat
  BY <1>2, SlotsFinite, BusyBounded
<1>5. Bound' = Bound /\ Cardinality(Claimed(code)) <= Bound
  BY DEF Bound, ClaimsBounded
<1>6. QED
  BY <1>3, <1>4, <1>5


\* So in the next state.
LEMMA FreshLater == FreshFits'
BY FreshBounded, PTL

\* A request that goes on claims what its new frame says.
LEMMA GotoClaims ==
    ASSUME Typed, UNCHANGED tables, NEW r \in Request, NEW p, NEW f, Goto(r, p, f), NEW code,
           NEW q \in Request
    PROVE  /\ \A b \in Branch : HasCode(b, code)' <=> HasCode(b, code)
           /\ \A b \in Branch : q # r => (Pending(q, b, code)' <=> Pending(q, b, code))
           /\ q # r => (Inserting(q, code)' <=> Inserting(q, code))
           /\ \A b \in Branch : q = r =>
                (Pending(q, b, code)' <=> /\ p \in {"branchClasses", "branches", "save"}
                                          /\ f.id = b /\ f.row.code = code)
           /\ q = r => (Inserting(q, code)' <=>
                          p = "insert" /\ f.kind = "branch" /\ f.row.code = code)
<1>1. pc'[r] = p /\ loc'[r] = f /\ (q # r => pc'[q] = pc[q] /\ loc'[q] = loc[q]) /\ UNCHANGED item
  BY GotoFacts DEF OthersStay, tables
<1>2. \A b \in Branch : HasCode(b, code)' <=> HasCode(b, code)
  BY <1>1 DEF HasCode, Exists
<1>3. q # r => \A b \in Branch : Pending(q, b, code)' <=> Pending(q, b, code)
  BY <1>1 DEF Pending
<1>4. q # r => (Inserting(q, code)' <=> Inserting(q, code))
  BY <1>1 DEF Inserting
<1>5. q = r => \A b \in Branch :
        Pending(q, b, code)' <=> /\ p \in {"branchClasses", "branches", "save"}
                                 /\ f.id = b /\ f.row.code = code
  BY <1>1 DEF Pending
<1>6. q = r => (Inserting(q, code)' <=> p = "insert" /\ f.kind = "branch" /\ f.row.code = code)
  BY <1>1 DEF Inserting
<1>7. QED
  BY <1>2, <1>3, <1>4, <1>5, <1>6

\* A row that holds a code, or is to, is a claim to it.
LEMMA RowClaims ==
    ASSUME NEW code, NEW b \in Branch, HasCode(b, code) \/ \E r \in Request : Pending(r, b, code)
    PROVE  <<"row", b>> \in Claimed(code)
BY DEF Claimed, Claims, Slot

\* A request that goes on with a claim it has, or with none, adds none.
LEMMA GotoFewer ==
    ASSUME Typed, ClaimsBounded, Alone, UNCHANGED tables, NEW r \in Request, NEW p, NEW f,
           Goto(r, p, f), NEW code \in Code,
           p \in {"branchClasses", "branches", "save"} /\ f.id \in Branch /\ f.row.code = code =>
             <<"row", f.id>> \in Claimed(code),
           p = "insert" /\ f.kind = "branch" => f.row.code # code
    PROVE  Cardinality(Claimed(code))' <= Bound'
<1>1. \A b \in Branch : HasCode(b, code)' => <<"row", b>> \in Claimed(code)
  BY GotoClaims, RowClaims
<1>2. ASSUME NEW b \in Branch, NEW q \in Request, Pending(q, b, code)'
      PROVE  <<"row", b>> \in Claimed(code)
  BY <1>2, GotoClaims, RowClaims
<1>3. \A q \in Request : Inserting(q, code)' => Inserting(q, code)
  BY GotoClaims
<1>4. UNCHANGED scope
  BY DEF tables
<1>5. QED
  BY <1>1, <1>2, <1>3, <1>4, FewerClaims

\* The calls claim no code beyond the bound.
LEMMA CallsClaim ==
    ASSUME Typed, ClaimsBounded, Alone, Alone', NEW r \in Request,
           ItemCalls(r) \/ ClassCalls(r), NEW code \in Code
    PROVE  Cardinality(Claimed(code))' <= Bound'
<1>1. CASE ItemCalls(r)
  <2>1. UNCHANGED tables /\ \E p, f : Goto(r, p, f) /\ Begun(r, p, f)
    BY <1>1, ItemCallForm
  <2>2. PICK p, f : Goto(r, p, f) /\ Begun(r, p, f)
    BY <2>1
  <2>3. CASE p = "insert" /\ f.kind = "branch" /\ f.row.code = code
    <3>1. \A b \in Branch : ~HasCode(b, code)
      BY <2>2, <2>3 DEF Begun, CodeTaken, IdsOf, HasCode
    <3>2. \A b \in Branch : ~HasCode(b, code)'
      BY <2>1, <2>2, <3>1, GotoClaims
    <3>3. QED
      BY <3>2, FreshLater DEF FreshFits
  <2>4. CASE ~(p = "insert" /\ f.kind = "branch" /\ f.row.code = code)
    <3>1. ASSUME p \in {"branchClasses", "branches", "save"}, f.id \in Branch, f.row.code = code
          PROVE  <<"row", f.id>> \in Claimed(code)
      BY <2>2, <3>1, RowClaims DEF Begun, HasCode
    <3>2. QED
      BY <2>1, <2>2, <2>4, <3>1, GotoFewer
  <2>5. QED
    BY <2>3, <2>4
<1>2. CASE ClassCalls(r)
  <2>1. UNCHANGED tables /\ \E p \in {"classBranch", "classSave"} : \E f : Goto(r, p, f)
    BY <1>2, ClassCallForm
  <2>2. QED
    BY <2>1, GotoFewer
<1>3. QED
  BY <1>1, <1>2

\* Neither do the checks.
LEMMA ChecksClaim ==
    ASSUME Typed, ClaimsBounded, Alone, Alone', NEW r \in Request,
           \/ UpdateCode(r) \/ UpdateBranches(r) \/ BranchCount(r) \/ TeacherClasses(r)
           \/ ClassCheckBranch(r) \/ ClassCheckCourse(r) \/ ClassCheckTeacher(r),
           NEW code \in Code
    PROVE  Cardinality(Claimed(code))' <= Bound'
<1>1. UNCHANGED tables
  BY CheckForm
<1>2. CASE /\ pc[r] = "code" /\ \E p \in {"branches", "save"} : Goto(r, p, loc[r])
           /\ ~CodeTaken(KindOf(loc[r].id), loc[r].row.code, {loc[r].id})
  <2>1. PICK p \in {"branches", "save"} : Goto(r, p, loc[r])
    BY <1>2
  <2>2. CASE loc[r].id \in Branch /\ loc[r].row.code = code
    <3>1. KindOf(loc[r].id) = "branch"
      BY <2>2, KindOfItem DEF Kind, IdsOf
    <3>2. \A b \in Branch : HasCode(b, code) => b = loc[r].id
      BY <1>2, <2>2, <3>1 DEF CodeTaken, IdsOf, HasCode
    <3>3. \A b \in Branch : HasCode(b, code)' => b = loc[r].id
      BY <1>1, <2>1, <3>2, GotoClaims
    <3>4. Pending(r, loc[r].id, code)'
      BY <2>1, <2>2, GotoFacts DEF Pending
    <3>5. \A b \in Branch : HasCode(b, code)' => \E q \in Request : Pending(q, b, code)'
      <4>1. SUFFICES ASSUME NEW b \in Branch, HasCode(b, code)'
                     PROVE  \E q \in Request : Pending(q, b, code)'
        OBVIOUS
      <4>2. b = loc[r].id
        BY <3>3, <4>1
      <4>3. QED
        BY <1>1, <2>1, <2>2, <4>2, GotoClaims
    <3>6. QED
      BY <3>5, FreshLater DEF FreshFits
  <2>3. CASE ~(loc[r].id \in Branch /\ loc[r].row.code = code)
    BY <1>1, <2>1, <2>3, GotoFewer
  <2>4. QED
    BY <2>2, <2>3
<1>3. CASE pc[r] \in {"branches", "branchClasses"} /\ Goto(r, "save", loc[r])
  <2>1. loc[r].id \in Branch /\ loc[r].row.code = code => <<"row", loc[r].id>> \in Claimed(code)
    BY <1>3, RowClaims DEF Pending
  <2>2. QED
    BY <1>1, <1>3, <2>1, GotoFewer
<1>4. CASE pc[r] = "teacherClasses" /\ Goto(r, "save", loc[r])
  <2>1. loc[r].id \in Teacher /\ Branch \cap Teacher = {}
    <3>1. IdsOf("branch") \cap IdsOf("teacher") = {}
      BY DirectoryAssumption DEF Kind
    <3>2. QED
      BY <1>4, <3>1 DEF Typed, KindsKnown, IdsOf
  <2>2. loc[r].id \notin Branch
    BY <2>1
  <2>3. loc[r].id \in Branch /\ loc[r].row.code = code => <<"row", loc[r].id>> \in Claimed(code)
    BY <2>2
  <2>4. QED
    BY <1>1, <1>4, <2>3, GotoFewer
<1>5. CASE \E p \in {"idle", "classCourse", "classTeacher", "classSave"} : \E f : Goto(r, p, f)
  BY <1>1, <1>5, GotoFewer
<1>6. QED
  BY <1>2, <1>3, <1>4, <1>5, CheckForm DEF Finish


\* A request that answers inserts and saves nothing more.
LEMMA FinishClaims ==
    ASSUME Typed, NEW r \in Request, Finish(r), NEW code, NEW q \in Request
    PROVE  /\ \A b \in Branch : Pending(q, b, code)' => Pending(q, b, code)
           /\ Inserting(q, code)' => Inserting(q, code) /\ q # r
<1>1. pc'[r] = "idle" /\ (q # r => pc'[q] = pc[q] /\ loc'[q] = loc[q])
  BY FinishTyped DEF OthersStay
<1>2. QED
  BY <1>1 DEF Pending, Inserting

\* Where a write gives no branch the code, there is no new claim to it.
LEMMA FinishFewer ==
    ASSUME Typed, ClaimsBounded, Alone, NEW r \in Request, Finish(r), UNCHANGED scope,
           NEW code \in Code,
           \A b \in Branch : HasCode(b, code)' => <<"row", b>> \in Claimed(code)
    PROVE  Cardinality(Claimed(code))' <= Bound'
<1>1. ASSUME NEW b \in Branch, NEW q \in Request, Pending(q, b, code)'
      PROVE  <<"row", b>> \in Claimed(code)
  BY <1>1, FinishClaims, RowClaims
<1>2. QED
  BY <1>1, FinishClaims, FewerClaims

\* The row a branch is inserted into takes over the claim of the request.
LEMMA InsertClaim ==
    ASSUME Typed, ClaimsBounded, Alone, NEW r \in Request, Insert(r), NEW code \in Code
    PROVE  Cardinality(Claimed(code))' <= Bound'
<1>1. Finish(r) /\ UNCHANGED scope /\ pc[r] = "insert"
  BY DEF Insert
<1>2. CASE \A b \in Branch : HasCode(b, code)' => HasCode(b, code)
  BY <1>1, <1>2, FinishFewer, RowClaims
<1>3. CASE \E b \in Branch : HasCode(b, code)' /\ ~HasCode(b, code)
  <2>1. PICK x \in Branch : HasCode(x, code)' /\ ~HasCode(x, code)
    BY <1>3
  <2>2. x \in Item
    BY DEF Item
  <2>3. /\ KindOf(x) = loc[r].kind /\ item'[x] = loc[r].row
        /\ \A y \in Item \ {x} : item'[y] = item[y]
    BY <2>1, <2>2, InsertFacts DEF HasCode, Exists
  <2>4. Inserting(r, code)
    <3>1. KindOf(x) = "branch"
      BY KindOfItem DEF Kind, IdsOf
    <3>2. QED
      BY <1>1, <2>1, <2>3, <3>1 DEF Inserting, HasCode
  <2>5. \A b \in Branch : HasCode(b, code)' => HasCode(b, code) \/ b = x
    BY <2>3 DEF HasCode, Exists, Item
  <2> DEFINE Old == Claimed(code)
             New == <<"new", r>>
             Row == <<"row", x>>
  <2>6. New \in Old /\ Old \in SUBSET Slot
    BY <2>4 DEF Claimed, Claims, Slot
  <2>7. ASSUME NEW s \in Claimed(code)' PROVE s \in (Old \ {New}) \cup {Row}
    <3>1. s \in Slot /\ Claims(s, code)'
      BY <2>7 DEF Claimed
    <3>2. CASE s \in {"row"} \X Branch
      <4>1. s = <<"row", s[2]>> /\ s[2] \in Branch /\ s # New
        BY <3>2
      <4>2. HasCode(s[2], code)' \/ \E q \in Request : Pending(q, s[2], code)'
        BY <3>1, <4>1 DEF Claims
      <4>3. \/ HasCode(s[2], code) \/ \E q \in Request : Pending(q, s[2], code)
            \/ s[2] = x
        BY <1>1, <2>5, <4>1, <4>2, FinishClaims
      <4>4. QED
        BY <4>1, <4>3, RowClaims
    <3>3. CASE s \in {"new"} \X Request
      <4>1. s = <<"new", s[2]>> /\ s[2] \in Request
        BY <3>3
      <4>2. Inserting(s[2], code)'
        BY <3>1, <4>1 DEF Claims
      <4>3. Inserting(s[2], code) /\ s[2] # r
        BY <1>1, <4>1, <4>2, FinishClaims
      <4>4. s \in Old /\ s # New
        BY <3>1, <4>1, <4>3 DEF Claimed, Claims
      <4>5. QED
        BY <4>4
    <3>4. QED
      BY <3>1, <3>2, <3>3 DEF Slot
  <2>8. Claimed(code)' \in SUBSET Slot /\ Row \in Slot
    BY DEF Claimed, Slot
  <2> HIDE DEF Old, New, Row
  <2>9. /\ IsFiniteSet(Old) /\ Cardinality(Old) \in Nat
        /\ Cardinality(Old \ {New}) = Cardinality(Old) - 1 /\ IsFiniteSet(Old \ {New})
    BY <2>6, SlotsFinite, FS_RemoveElement
  <2>10. Cardinality((Old \ {New}) \cup {Row}) <= Cardinality(Old)
    <3> DEFINE Rest == Old \ {New}
    <3>1. IsFiniteSet(Rest) /\ Cardinality(Rest) = Cardinality(Old) - 1
      BY <2>9
    <3> HIDE DEF Rest
    <3>2. Cardinality(Rest \cup {Row}) = IF Row \in Rest THEN Cardinality(Rest) ELSE Cardinality(Rest) + 1
      BY <3>1, FS_AddElement
    <3>3. Cardinality(Rest \cup {Row}) <= Cardinality(Old)
      BY <2>9, <3>1, <3>2
    <3>4. QED
      BY <3>3 DEF Rest
  <2>11. (Old \ {New}) \cup {Row} \in SUBSET Slot
    BY <2>6, <2>8
  <2>12. Cardinality(Claimed(code)') <= Cardinality((Old \ {New}) \cup {Row})
    BY <2>7, <2>8, <2>11, SlotsFinite
  <2>13. /\ Cardinality(Claimed(code)') \in Nat
         /\ Cardinality((Old \ {New}) \cup {Row}) \in Nat
    BY <2>8, <2>11, SlotsFinite
  <2>14. Bound' = Bound /\ Bound \in Nat /\ Cardinality(Old) <= Bound
    BY <1>1, BusyBounded DEF Bound, ClaimsBounded, Old
  <2>15. QED
    BY <2>9, <2>10, <2>12, <2>13, <2>14
<1>4. QED
  BY <1>2, <1>3

\* What is saved was claimed.
LEMMA SaveClaim ==
    ASSUME Typed, ClaimsBounded, Alone, NEW r \in Request, ItemSave(r), NEW code \in Code
    PROVE  Cardinality(Claimed(code))' <= Bound'
<1>1. Finish(r) /\ UNCHANGED scope /\ pc[r] = "save"
  BY DEF ItemSave
<1>2. ASSUME NEW b \in Branch, HasCode(b, code)' PROVE <<"row", b>> \in Claimed(code)
  <2>1. b \in Item
    BY DEF Item
  <2>2. CASE item'[b] = item[b]
    BY <1>2, <2>2, RowClaims DEF HasCode, Exists
  <2>3. CASE b = loc[r].id /\ item'[b] = loc[r].row
    <3>1. Pending(r, b, code)
      BY <1>1, <1>2, <2>3 DEF HasCode, Pending
    <3>2. QED
      BY <3>1, RowClaims
  <2>4. QED
    BY <2>1, <2>2, <2>3, SaveFacts
<1>3. QED
  BY <1>1, <1>2, FinishFewer

\* The codes of branches are not touched where courses or classes are written,
\* nor by a request that stops.
LEMMA OthersClaim ==
    ASSUME Typed, ClaimsBounded, Alone, NEW code \in Code,
           \/ \E r \in Request : CourseDelete(r) \/ ClassSave(r) \/ Abandon(r)
           \/ \E c \in Class : ClassCancel(c)
           \/ Tick \/ UNCHANGED vars
    PROVE  Cardinality(Claimed(code))' <= Bound'
<1>1. ASSUME NEW r \in Request, CourseDelete(r) PROVE Cardinality(Claimed(code))' <= Bound'
  <2>1. Branch \cap Course = {}
    <3>1. IdsOf("branch") \cap IdsOf("course") = {}
      BY DirectoryAssumption DEF Kind
    <3>2. QED
      BY <3>1 DEF IdsOf
  <2>2. \A b \in Branch : item'[b] = item[b]
    BY <1>1, <2>1, DeleteFacts DEF Item
  <2>3. \A b \in Branch : HasCode(b, code)' => HasCode(b, code)
    BY <2>2 DEF HasCode, Exists
  <2>4. Finish(r) /\ UNCHANGED scope
    BY <1>1 DEF CourseDelete
  <2>5. QED
    BY <2>3, <2>4, FinishFewer, RowClaims
<1>2. ASSUME NEW r \in Request, ClassSave(r) \/ Abandon(r)
      PROVE  Cardinality(Claimed(code))' <= Bound'
  <2>1. Finish(r) /\ UNCHANGED <<scope, item>>
    BY <1>2 DEF ClassSave, Abandon, tables
  <2>2. \A b \in Branch : HasCode(b, code)' => HasCode(b, code)
    BY <2>1 DEF HasCode, Exists
  <2>3. QED
    BY <2>1, <2>2, FinishFewer, RowClaims
<1>3. CASE (\E c \in Class : ClassCancel(c)) \/ Tick \/ UNCHANGED vars
  <2>1. UNCHANGED <<scope, item, pc, loc>>
    BY <1>3 DEF ClassCancel, Tick, vars
  <2>2. /\ \A b \in Branch : HasCode(b, code)' => HasCode(b, code)
        /\ \A b \in Branch, r \in Request : Pending(r, b, code)' => Pending(r, b, code)
        /\ \A r \in Request : Inserting(r, code)' => Inserting(r, code)
    BY <2>1 DEF HasCode, Exists, Pending, Inserting
  <2>3. QED
    BY <2>1, <2>2, RowClaims, FewerClaims
<1>4. QED
  BY <1>1, <1>2, <1>3

\* Every step keeps the claims to each code within the bound.
LEMMA NextClaims == Typed /\ Alone /\ ClaimsBounded /\ [Next]_vars => ClaimsBounded'
<1> SUFFICES ASSUME Typed, Alone, ClaimsBounded, [Next]_vars, NEW code \in Code
             PROVE  Cardinality(Claimed(code))' <= Bound'
  BY DEF ClaimsBounded
<1>1. Alone'
  BY AloneKept
<1>2. ASSUME NEW r \in Request, Step(r) PROVE Cardinality(Claimed(code))' <= Bound'
  BY <1>1, <1>2, ChecksClaim, InsertClaim, SaveClaim, OthersClaim DEF Step
<1>3. QED
  BY <1>1, <1>2, CallsClaim, OthersClaim DEF Next

\* Initially the branches have different codes.
LEMMA InitClaims == Init => ClaimsBounded
<1> SUFFICES ASSUME Init, NEW code \in Code PROVE Cardinality(Claimed(code)) <= Bound
  BY DEF ClaimsBounded
<1>1. PICK s \in Starts : item = s.item
  BY DEF Init
<1>2. \A a, b \in Branch : HasCode(a, code) /\ HasCode(b, code) => a = b
  BY <1>1, DirectoryAssumption DEF HasCode, Exists
<1>3. \A r \in Request : pc[r] = "idle"
  BY DEF Init
<1>4. ASSUME NEW t \in Claimed(code)
      PROVE  t = <<"row", t[2]>> /\ t[2] \in Branch /\ HasCode(t[2], code)
  <2>1. t \in Slot /\ Claims(t, code)
    BY DEF Claimed
  <2>2. CASE t \in {"row"} \X Branch
    BY <1>3, <2>1, <2>2 DEF Claims, Pending
  <2>3. CASE t \in {"new"} \X Request
    BY <1>3, <2>1, <2>3 DEF Claims, Inserting
  <2>4. QED
    BY <2>1, <2>2, <2>3 DEF Slot
<1>5. Alone
  BY <1>3 DEF Alone
<1>6. Bound \in Nat /\ Bound >= 1
  BY <1>5, BusyBounded
<1>7. CASE Claimed(code) = {}
  BY <1>6, <1>7, FS_EmptySet
<1>8. CASE Claimed(code) # {}
  <2>1. PICK t \in Claimed(code) : TRUE
    BY <1>8
  <2>2. Claimed(code) = {t}
    BY <1>2, <1>4
  <2>3. QED
    BY <1>6, <2>2, FS_Singleton
<1>9. QED
  BY <1>7, <1>8

\* No more branches share a code than requests overlap.
THEOREM BranchCodesBoundedHolds == Spec => []BranchCodesBounded
<1>1. UseInv => Alone
  BY DEF UseInv
<1>2. Alone /\ ClaimsBounded => BranchCodesBounded
  <2> SUFFICES ASSUME Alone, ClaimsBounded, NEW code \in Code
               PROVE  Cardinality({b \in Branch : HasCode(b, code)}) <= Bound
    BY DEF BranchCodesBounded, HasCode, Bound
  <2> DEFINE C == {b \in Branch : HasCode(b, code)}
             g == [t \in Claimed(code) |-> t[2]]
  <2>1. IsFiniteSet(Claimed(code)) /\ Cardinality(Claimed(code)) \in Nat
    <3>1. Claimed(code) \in SUBSET Slot
      BY DEF Claimed
    <3>2. QED
      BY <3>1, SlotsFinite
  <2>2. ASSUME NEW b \in C PROVE \E t \in Claimed(code) : b = g[t]
    <3>1. <<"row", b>> \in Claimed(code)
      BY RowClaims
    <3>2. g[<<"row", b>>] = b
      BY <3>1
    <3>3. QED
      BY <3>1, <3>2
  <2>3. DOMAIN g = Claimed(code)
    OBVIOUS
  <2> HIDE DEF g, C
  <2>4. IsFiniteSet(C) /\ Cardinality(C) <= Cardinality(Claimed(code))
    BY <2>1, <2>2, <2>3, ImageBounded
  <2>5. Cardinality(C) \in Nat /\ Bound \in Nat
    BY <2>4, FS_CardinalityType, BusyBounded
  <2>6. QED
    BY <2>1, <2>4, <2>5 DEF ClaimsBounded, C
<1>3. QED
  BY <1>1, <1>2, InitTyped, NextTyped, InitUse, NextUse, InitClaims, NextClaims, PTL DEF Spec


=============================================================================
