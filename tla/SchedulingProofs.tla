-------------------------- MODULE SchedulingProofs --------------------------
(***************************************************************************)
(* Theorems about Scheduling for every number of requests, classes,        *)
(* teachers and rows.                                                      *)
(***************************************************************************)
EXTENDS Scheduling, FiniteSetTheorems, TLAPS

(***************************************************************************)
(* Times, rows and frames                                                  *)
(***************************************************************************)

\* The frame of each program counter.
LEMMA FrameTable ==
    /\ FrameOf("idle") = {NoFrame}
    /\ FrameOf("own") = CreateFrame /\ FrameOf("others") = CreateFrame
    /\ FrameOf("insert") = CreateFrame /\ FrameOf("editable") = RowFrame
    /\ FrameOf("ownBut") = UpdateFrame /\ FrameOf("othersBut") = UpdateFrame
    /\ FrameOf("save") = UpdateFrame /\ FrameOf("restore") = RemoveFrame
    /\ FrameOf("removable") = RemoveFrame /\ FrameOf("delete") = RemoveFrame
    /\ FrameOf("load") = TeacherFrame /\ FrameOf("assign") = TeacherFrame
    /\ FrameOf("write") = WriteFrame /\ FrameOf("compare") = CompareFrame
    /\ FrameOf("rewrite") = AssignFrame
BY DEF FrameOf

\* Times of day are numbers.
LEMMA MinutesAreNumbers ==
    \A t \in Minute : t \in Int
BY SchedulingAssumption

\* A text is of a time of day, however it is spelled.
LEMMA TextIsATime ==
    ASSUME NEW text \in Text
    PROVE  /\ MinuteOf(text) \in Minute
           /\ text \in Int
           /\ 2 * MinuteOf(text) <= text /\ text <= 2 * MinuteOf(text) + 1
<1>1. PICK t \in Minute : text = 2 * t \/ text = 2 * t + 1
  BY DEF Text, Dto, Loaded
<1>2. t \in Int
  BY MinutesAreNumbers
<1>3. text \div 2 = t
  BY <1>1, <1>2
<1>4. QED
  BY <1>1, <1>2, <1>3 DEF MinuteOf

\* What an UPDATE writes: the columns in dirty of row, the others as they are.
LEMMA WrittenRow ==
    ASSUME NEW now \in ScheduleRow, NEW row \in ScheduleRow,
           NEW dirty \in SUBSET {"day", "start", "end"},
           NEW new, new = [k \in DOMAIN now |-> IF k \in dirty THEN row[k] ELSE now[k]]
    PROVE  /\ new \in ScheduleRow /\ new.id = now.id /\ new.cls = now.cls
           /\ new.day = IF "day" \in dirty THEN row.day ELSE now.day
           /\ new.start = IF "start" \in dirty THEN row.start ELSE now.start
           /\ new.end = IF "end" \in dirty THEN row.end ELSE now.end
<1>1. DOMAIN now = {"id", "cls", "day", "start", "end"}
  BY DEF ScheduleRow
<1>2. /\ new.id = now.id /\ new.cls = now.cls
      /\ new.day = IF "day" \in dirty THEN row.day ELSE now.day
      /\ new.start = IF "start" \in dirty THEN row.start ELSE now.start
      /\ new.end = IF "end" \in dirty THEN row.end ELSE now.end
  BY <1>1
<1>3. /\ new.id \in Slot /\ new.cls \in Class /\ new.day \in Day
      /\ new.start \in Minute /\ new.end \in Minute
  BY <1>2 DEF ScheduleRow
<1>4. new = [id |-> new.id, cls |-> new.cls, day |-> new.day, start |-> new.start,
             end |-> new.end]
  BY <1>1
<1>5. new \in ScheduleRow
  BY <1>3, <1>4 DEF ScheduleRow
<1>6. QED
  BY <1>2, <1>5

(***************************************************************************)
(* Types, and what frames have to do with rows                             *)
(***************************************************************************)

\* A handler that holds a row, and one that holds a class.
RowPC == {"editable", "ownBut", "othersBut", "save", "write", "restore", "removable",
          "delete"}
ClassPC == {"own", "others", "insert", "ownBut", "othersBut", "save", "load", "compare",
            "assign", "rewrite"}

\* Handlers at p with locals f work on the classes C there are; an update on one
\* window and on the class of its row.
Placed(p, f, C) ==
    /\ p \in ClassPC => f.cls \in C
    /\ p \in RowPC => f.row.cls \in C
    /\ p \in {"ownBut", "othersBut", "save"} =>
         f.row.cls = f.cls /\ \E w \in Window : f.new = {w}

\* The rows there are and those that handlers hold.
Rows == schedules \cup {loc[q].row : q \in {x \in Request : pc[x] \in RowPC}}

SchedInv ==
    /\ TypeOK
    /\ \A row \in schedules : row.cls \in load.classes
    /\ \A r \in Request : Placed(pc[r], loc[r], load.classes)
    /\ \A x, y \in Rows : x.id = y.id => x.cls = y.cls
    /\ \A r \in Request \ load.requests : pc[r] = "idle"

\* Going on moves one request.
LEMMA GotoMoves ==
    ASSUME TypeOK, NEW r \in Request, NEW p, NEW f, Goto(r, p, f)
    PROVE  /\ pc'[r] = p /\ loc'[r] = f
           /\ \A q \in Request \ {r} : pc'[q] = pc[q] /\ loc'[q] = loc[q]
BY DEF Goto, TypeOK

\* A step of request r that goes on at p keeps the invariant when its rows are
\* typed and do not change the class of an identity, and it holds one of them.
LEMMA StepKeeps ==
    ASSUME SchedInv, NEW r \in Request, NEW p \in PC, NEW f \in FrameOf(p), Goto(r, p, f),
           r \in load.requests \/ p = "idle", load' = load,
           class' \in [load.classes -> ClassRow],
           schedules' \subseteq ScheduleRow,
           \A x, y \in schedules' : x.id = y.id => x = y,
           \A x \in schedules' : x.cls \in load.classes,
           Placed(p, f, load.classes),
           \A x, y \in schedules' \cup Rows : x.id = y.id => x.cls = y.cls,
           p \in RowPC => \E y \in Rows : f.row.id = y.id /\ f.row.cls = y.cls
    PROVE  SchedInv'
<1>1. /\ TypeOK /\ \A q \in Request : Placed(pc[q], loc[q], load.classes)
      /\ \A q \in Request \ load.requests : pc[q] = "idle"
  BY DEF SchedInv
<1>2. /\ pc' \in [Request -> PC] /\ DOMAIN loc' = Request
      /\ pc'[r] = p /\ loc'[r] = f
      /\ \A q \in Request \ {r} : pc'[q] = pc[q] /\ loc'[q] = loc[q]
  BY <1>1 DEF Goto, TypeOK
<1>3. \A q \in Request : loc'[q] \in FrameOf(pc'[q])
  BY <1>1, <1>2 DEF TypeOK
<1>4. TypeOK'
  BY <1>1, <1>2, <1>3 DEF TypeOK
<1>5. \A q \in Request : Placed(pc'[q], loc'[q], load'.classes)
  BY <1>1, <1>2
<1>6. ASSUME NEW x \in Rows'
      PROVE  \E y \in schedules' \cup Rows : x.id = y.id /\ x.cls = y.cls
  <2>1. CASE x \in schedules'
    BY <2>1
  <2>2. CASE x \notin schedules'
    <3>1. PICK q \in Request : pc'[q] \in RowPC /\ x = loc'[q].row
      BY <1>6, <2>2 DEF Rows
    <3>2. CASE q = r
      BY <1>2, <3>1, <3>2
    <3>3. CASE q # r
      <4>1. pc[q] \in RowPC /\ x = loc[q].row
        BY <1>2, <3>1, <3>3
      <4>2. x \in Rows
        BY <4>1 DEF Rows
      <4>3. QED
        BY <4>2
    <3>4. QED
      BY <3>2, <3>3
  <2>3. QED
    BY <2>1, <2>2
<1>7. \A x, y \in Rows' : x.id = y.id => x.cls = y.cls
  BY <1>6
<1>8. \A q \in Request \ load.requests : pc'[q] = "idle"
  BY <1>1, <1>2
<1>9. QED
  BY <1>4, <1>5, <1>7, <1>8 DEF SchedInv

\* A step that only goes on.
LEMMA AwaitKeeps ==
    ASSUME SchedInv, NEW r \in Request, NEW p \in PC, NEW f \in FrameOf(p), Goto(r, p, f),
           r \in load.requests \/ p = "idle", UNCHANGED <<load, class, schedules>>,
           Placed(p, f, load.classes),
           p \in RowPC => \E y \in Rows : f.row.id = y.id /\ f.row.cls = y.cls
    PROVE  SchedInv'
<1>1. load' = load /\ class' = class /\ schedules' = schedules
  OBVIOUS
<1>2. /\ class \in [load.classes -> ClassRow] /\ schedules \subseteq ScheduleRow
      /\ \A x, y \in schedules : x.id = y.id => x = y
      /\ \A x \in schedules : x.cls \in load.classes
      /\ \A x, y \in Rows : x.id = y.id => x.cls = y.cls
  BY DEF SchedInv, TypeOK
<1>3. schedules \cup Rows = Rows
  BY DEF Rows
<1>4. QED
  BY <1>1, <1>2, <1>3, StepKeeps

\* A step that only ends the request.
LEMMA FinishKeeps ==
    ASSUME SchedInv, NEW r \in Request, Finish(r), UNCHANGED <<load, class, schedules>>
    PROVE  SchedInv'
<1>1. "idle" \in PC /\ NoFrame \in FrameOf("idle") /\ Goto(r, "idle", NoFrame)
  BY FrameTable DEF PC, Finish
<1>2. Placed("idle", NoFrame, load.classes) /\ "idle" \notin RowPC
  BY DEF Placed, ClassPC, RowPC
<1>3. QED
  BY <1>1, <1>2, AwaitKeeps

\* What a request that is not idle holds, and that it is one of the load's.
LEMMA Holds ==
    ASSUME SchedInv, NEW r \in Request
    PROVE  /\ TypeOK /\ loc[r] \in FrameOf(pc[r]) /\ Placed(pc[r], loc[r], load.classes)
           /\ pc[r] # "idle" => r \in load.requests
           /\ pc[r] \in RowPC => loc[r].row \in Rows
           /\ schedules \subseteq Rows
           /\ \A x \in schedules : x \in ScheduleRow /\ x.cls \in load.classes
           /\ load \in Load
BY SchedulingAssumption DEF SchedInv, TypeOK, Rows

\* The endpoints begin with a class or a row there is.
LEMMA CallsKeep ==
    ASSUME SchedInv, NEW r \in Request,
           \/ \E c \in load.classes, new \in Lists : CreateReadClass(r, c, new)
           \/ \E row \in schedules : \/ RemoveReadRow(r, row)
                                     \/ \E w \in Window : UpdateReadRow(r, row, w)
           \/ \E c \in load.classes, t \in load.teachers \cup {NoTeacher} :
                TeacherReadClass(r, c, t)
    PROVE  SchedInv'
<1>1. /\ TypeOK /\ load \in Load /\ schedules \subseteq Rows
      /\ \A x \in schedules : x \in ScheduleRow /\ x.cls \in load.classes
  BY Holds
<1>2. /\ load.classes \subseteq Class /\ load.teachers \subseteq Teacher
      /\ load.minutes \subseteq Minute /\ load.slots \subseteq Slot
  BY <1>1 DEF Load
<1>3. \A c \in load.classes :
        /\ class[c] \in ClassRow /\ class[c].teacher \in Teacher \cup {NoTeacher}
        /\ class[c].state \in {"ACTIVE", "INACTIVE", "CANCELLED"}
  BY <1>1 DEF TypeOK, ClassRow
<1>4. ASSUME NEW c \in load.classes, NEW new \in Lists, CreateReadClass(r, c, new)
      PROVE  SchedInv'
  <2> DEFINE f == [cls |-> c, teacher |-> class[c].teacher, new |-> new]
  <2>1. new \subseteq Window
    BY <1>2 DEF Lists, Window, Text
  <2>2. f \in CreateFrame /\ f.cls = c
    BY <1>2, <1>3, <2>1 DEF CreateFrame
  <2>3. Goto(r, "own", f) /\ r \in load.requests /\ UNCHANGED <<load, class, schedules>>
    BY <1>4 DEF CreateReadClass, Called
  <2> HIDE DEF f
  <2>4. "own" \in PC /\ f \in FrameOf("own")
    BY <2>2, FrameTable DEF PC
  <2>5. Placed("own", f, load.classes) /\ "own" \notin RowPC
    BY <2>2 DEF Placed, ClassPC, RowPC
  <2>6. QED
    BY <2>3, <2>4, <2>5, AwaitKeeps
<1>5. ASSUME NEW row \in schedules, RemoveReadRow(r, row) PROVE SchedInv'
  <2> DEFINE f == [row |-> row]
  <2>1. f \in RemoveFrame /\ f.row = row
    BY <1>1 DEF RemoveFrame
  <2>2. Goto(r, "removable", f) /\ r \in load.requests /\ UNCHANGED <<load, class, schedules>>
    BY <1>5 DEF RemoveReadRow, Called
  <2> HIDE DEF f
  <2>3. "removable" \in PC /\ f \in FrameOf("removable")
    BY <2>1, FrameTable DEF PC
  <2>4. Placed("removable", f, load.classes)
    BY <1>1, <2>1 DEF Placed, ClassPC, RowPC
  <2>5. f.row \in Rows
    BY <1>1, <2>1
  <2>6. QED
    BY <2>2, <2>3, <2>4, <2>5, AwaitKeeps
<1>6. ASSUME NEW row \in schedules, NEW w \in Window, UpdateReadRow(r, row, w)
      PROVE  SchedInv'
  <2> DEFINE f == [row |-> row, win |-> w]
  <2>1. f \in RowFrame /\ f.row = row
    BY <1>1 DEF RowFrame
  <2>2. Goto(r, "editable", f) /\ r \in load.requests /\ UNCHANGED <<load, class, schedules>>
    BY <1>6 DEF UpdateReadRow, Called
  <2> HIDE DEF f
  <2>3. "editable" \in PC /\ f \in FrameOf("editable")
    BY <2>1, FrameTable DEF PC
  <2>4. Placed("editable", f, load.classes)
    BY <1>1, <2>1 DEF Placed, ClassPC, RowPC
  <2>5. f.row \in Rows
    BY <1>1, <2>1
  <2>6. QED
    BY <2>2, <2>3, <2>4, <2>5, AwaitKeeps
<1>7. ASSUME NEW c \in load.classes, NEW t \in load.teachers \cup {NoTeacher},
             TeacherReadClass(r, c, t)
      PROVE  SchedInv'
  <2> DEFINE f == [cls |-> c, entity |-> [class[c] EXCEPT !.teacher = t]]
             p == IF t = NoTeacher THEN "assign" ELSE "load"
  <2>1. [class[c] EXCEPT !.teacher = t] \in ClassRow
    BY <1>2, <1>3 DEF ClassRow
  <2>2. f \in TeacherFrame /\ f.cls = c
    BY <1>2, <2>1 DEF TeacherFrame
  <2>3. Goto(r, p, f) /\ r \in load.requests /\ UNCHANGED <<load, class, schedules>>
    BY <1>7 DEF TeacherReadClass, Called
  <2> HIDE DEF f
  <2>4. p \in PC /\ f \in FrameOf(p)
    BY <2>2, FrameTable DEF PC
  <2>5. Placed(p, f, load.classes) /\ p \notin RowPC
    BY <2>2 DEF Placed, ClassPC, RowPC
  <2> HIDE DEF p
  <2>6. QED
    BY <2>3, <2>4, <2>5, AwaitKeeps
<1>8. QED
  BY <1>4, <1>5, <1>6, <1>7

\* Creating schedules: the new ones have identities that nothing else has.
LEMMA CreateKeeps ==
    ASSUME SchedInv, NEW r \in Request,
           CreateCheckClass(r) \/ CreateCheckTeacher(r) \/ CreateInsert(r)
    PROVE  SchedInv'
<1>1. /\ TypeOK /\ loc[r] \in FrameOf(pc[r]) /\ Placed(pc[r], loc[r], load.classes)
      /\ pc[r] # "idle" => r \in load.requests
      /\ load \in Load
  BY Holds
<1>2. CASE CreateCheckClass(r) \/ CreateCheckTeacher(r)
  <2>1. PICK p \in {"others", "insert"} :
          /\ Finish(r) \/ Goto(r, p, loc[r])
          /\ pc[r] \in {"own", "others"} /\ UNCHANGED <<load, class, schedules>>
    BY <1>2 DEF CreateCheckClass, CreateCheckTeacher
  <2>2. CASE Finish(r)
    BY <2>1, <2>2, FinishKeeps
  <2>3. CASE Goto(r, p, loc[r])
    <3>1. p \in PC /\ loc[r] \in FrameOf(p)
      BY <1>1, <2>1, FrameTable DEF PC
    <3>2. Placed(p, loc[r], load.classes) /\ p \notin RowPC
      BY <1>1, <2>1 DEF Placed, ClassPC, RowPC
    <3>3. r \in load.requests
      BY <1>1, <2>1
    <3>4. QED
      BY <2>1, <2>3, <3>1, <3>2, <3>3, AwaitKeeps
  <2>4. QED
    BY <2>1, <2>2, <2>3
<1>3. CASE CreateInsert(r)
  <2>1. pc[r] = "insert" /\ Finish(r) /\ load' = load /\ class' = class
    BY <1>3 DEF CreateInsert
  <2>2. loc[r] \in CreateFrame
    BY <1>1, <2>1, FrameTable
  <2>3. PICK id \in [loc[r].new -> FreshId] :
          /\ \A w, v \in loc[r].new : w # v => id[w] # id[v]
          /\ schedules' = schedules \cup
               {[id |-> id[w], cls |-> loc[r].cls, day |-> w.day,
                 start |-> MinuteOf(w.start), end |-> MinuteOf(w.end)] : w \in loc[r].new}
    BY <1>3 DEF CreateInsert
  <2> DEFINE made(w) == [id |-> id[w], cls |-> loc[r].cls, day |-> w.day,
                         start |-> MinuteOf(w.start), end |-> MinuteOf(w.end)]
  <2>4. loc[r].cls \in load.classes /\ loc[r].cls \in Class /\ loc[r].new \subseteq Window
    BY <1>1, <2>1, <2>2 DEF Placed, ClassPC, CreateFrame
  <2>5. \A w \in loc[r].new :
          /\ w.day \in Day /\ MinuteOf(w.start) \in Minute /\ MinuteOf(w.end) \in Minute
    BY <2>4, TextIsATime DEF Window
  <2>6. \A i \in FreshId : i \in Slot /\ \A y \in Rows : y.id # i
    <3>1. load.slots \subseteq Slot
      BY <1>1 DEF Load
    <3>2. QED
      BY <3>1 DEF FreshId, Rows, RowPC
  <2>7. \A w \in loc[r].new :
          /\ made(w) \in ScheduleRow /\ made(w).id = id[w] /\ made(w).cls = loc[r].cls
          /\ id[w] \in FreshId
    BY <2>3, <2>4, <2>5, <2>6 DEF ScheduleRow
  <2> HIDE DEF made
  <2>8. schedules' = schedules \cup {made(w) : w \in loc[r].new}
    BY <2>3 DEF made
  <2>9. /\ schedules \subseteq Rows /\ schedules \subseteq ScheduleRow
        /\ \A x \in schedules : x.cls \in load.classes
        /\ \A x, y \in schedules : x.id = y.id => x = y
        /\ \A x, y \in Rows : x.id = y.id => x.cls = y.cls
    BY DEF SchedInv, TypeOK, Rows
  <2>10. schedules' \subseteq ScheduleRow
    BY <2>7, <2>8, <2>9
  <2>11. \A x \in schedules' : x.cls \in load.classes
    BY <2>4, <2>7, <2>8, <2>9
  <2>12. \A x, y \in schedules' : x.id = y.id => x = y
    BY <2>3, <2>6, <2>7, <2>8, <2>9
  <2>13. \A x, y \in schedules' \cup Rows : x.id = y.id => x.cls = y.cls
    <3>1. \A x \in schedules' \cup Rows : x \in Rows \/ \E w \in loc[r].new : x = made(w)
      BY <2>8, <2>9
    <3>2. QED
      BY <2>6, <2>7, <2>9, <3>1
  <2>14. "idle" \in PC /\ NoFrame \in FrameOf("idle") /\ Goto(r, "idle", NoFrame)
    BY <2>1, FrameTable DEF PC, Finish
  <2>15. Placed("idle", NoFrame, load.classes) /\ "idle" \notin RowPC
    BY DEF Placed, ClassPC, RowPC
  <2>16. class \in [load.classes -> ClassRow]
    BY <1>1 DEF TypeOK
  <2>17. QED
    BY <2>1, <2>10, <2>11, <2>12, <2>13, <2>14, <2>15, <2>16, StepKeeps
<1>4. QED
  BY <1>2, <1>3

\* Updating a schedule, up to the SELECT of save.
LEMMA UpdateReadsKeep ==
    ASSUME SchedInv, NEW r \in Request,
           UpdateReadClass(r) \/ UpdateCheckClass(r) \/ UpdateCheckTeacher(r)
    PROVE  SchedInv'
<1>1. /\ TypeOK /\ loc[r] \in FrameOf(pc[r]) /\ Placed(pc[r], loc[r], load.classes)
      /\ pc[r] # "idle" => r \in load.requests
      /\ pc[r] \in RowPC => loc[r].row \in Rows
      /\ load \in Load
  BY Holds
<1>2. CASE UpdateReadClass(r)
  <2> DEFINE c == loc[r].row.cls
             f == [row |-> loc[r].row, cls |-> c, teacher |-> class[c].teacher,
                   new |-> {loc[r].win}]
  <2>1. /\ pc[r] = "editable" /\ UNCHANGED <<load, class, schedules>>
        /\ Finish(r) \/ Goto(r, "ownBut", f)
    BY <1>2 DEF UpdateReadClass
  <2>2. loc[r] \in RowFrame
    BY <1>1, <2>1, FrameTable
  <2>3. loc[r].row \in ScheduleRow /\ loc[r].win \in Window
    BY <2>2 DEF RowFrame
  <2>4. c \in load.classes /\ c \in Class /\ loc[r].row \in Rows /\ r \in load.requests
    BY <1>1, <2>1, <2>3 DEF Placed, RowPC, ScheduleRow
  <2>5. class[c].teacher \in Teacher \cup {NoTeacher}
    BY <1>1, <2>4 DEF TypeOK, ClassRow
  <2>6. /\ f \in UpdateFrame /\ f.row = loc[r].row /\ f.cls = c /\ f.new = {loc[r].win}
    BY <2>3, <2>4, <2>5 DEF UpdateFrame
  <2>7. CASE Finish(r)
    BY <2>1, <2>7, FinishKeeps
  <2>8. CASE Goto(r, "ownBut", f)
    <3> HIDE DEF f
    <3>1. "ownBut" \in PC /\ f \in FrameOf("ownBut")
      BY <2>6, FrameTable DEF PC
    <3>2. Placed("ownBut", f, load.classes)
      BY <2>3, <2>4, <2>6 DEF Placed
    <3>3. f.row \in Rows
      BY <2>4, <2>6
    <3>4. QED
      BY <2>1, <2>4, <2>8, <3>1, <3>2, <3>3, AwaitKeeps
  <2>9. QED
    BY <2>1, <2>7, <2>8
<1>3. CASE UpdateCheckClass(r) \/ UpdateCheckTeacher(r)
  <2>1. PICK p \in {"othersBut", "save"} :
          /\ Finish(r) \/ Goto(r, p, loc[r])
          /\ pc[r] \in {"ownBut", "othersBut"} /\ UNCHANGED <<load, class, schedules>>
    BY <1>3 DEF UpdateCheckClass, UpdateCheckTeacher
  <2>2. CASE Finish(r)
    BY <2>1, <2>2, FinishKeeps
  <2>3. CASE Goto(r, p, loc[r])
    <3>1. p \in PC /\ loc[r] \in FrameOf(p)
      BY <1>1, <2>1, FrameTable DEF PC
    <3>2. Placed(p, loc[r], load.classes)
      BY <1>1, <2>1 DEF Placed, ClassPC, RowPC
    <3>3. r \in load.requests /\ loc[r].row \in Rows
      BY <1>1, <2>1 DEF RowPC
    <3>4. QED
      BY <2>1, <2>3, <3>1, <3>2, <3>3, AwaitKeeps
  <2>4. QED
    BY <2>1, <2>2, <2>3
<1>4. QED
  BY <1>2, <1>3

\* What the SELECT of save does.
LEMMA SelectGoes ==
    ASSUME SchedInv, NEW r \in Request, UpdateSelect(r)
    PROVE  \E w \in Window, new \in ScheduleRow :
             /\ loc[r].new = {w}
             /\ new.id = loc[r].row.id /\ new.cls = loc[r].row.cls
             /\ new.day = w.day /\ new.start = MinuteOf(w.start) /\ new.end = MinuteOf(w.end)
             /\ \/ \E now \in schedules :
                     /\ now.id = loc[r].row.id
                     /\ Goto(r, "write", [row |-> new, dirty |->
                          {k \in {"day", "start", "end"} :
                             w[k] # IF k = "day" THEN now[k] ELSE Loaded(now[k])}])
                \/ /\ \A now \in schedules : now.id # loc[r].row.id
                   /\ Goto(r, "restore", [row |-> new])
<1>1. pc[r] = "save" /\ Placed(pc[r], loc[r], load.classes)
  BY Holds DEF UpdateSelect
<1>2. PICK w \in Window : loc[r].new = {w}
  BY <1>1 DEF Placed
<1>3. (CHOOSE x \in loc[r].new : TRUE) = w
  <2>1. (CHOOSE x \in loc[r].new : TRUE) \in loc[r].new
    BY <1>2
  <2>2. QED
    BY <1>2, <2>1
<1>4. PICK new : new = [loc[r].row EXCEPT !.day = w.day, !.start = MinuteOf(w.start),
                                          !.end = MinuteOf(w.end)]
  OBVIOUS
<1>5. /\ new \in ScheduleRow /\ new.id = loc[r].row.id /\ new.cls = loc[r].row.cls
      /\ new.day = w.day /\ new.start = MinuteOf(w.start) /\ new.end = MinuteOf(w.end)
  <2>1. loc[r] \in FrameOf("save")
    BY <1>1, Holds
  <2>2. loc[r] \in UpdateFrame
    BY <2>1, FrameTable
  <2>3. PICK row \in ScheduleRow : row = loc[r].row
    BY <2>2 DEF UpdateFrame
  <2>4. PICK d \in Day, t \in Minute, u \in Minute :
          d = w.day /\ t = MinuteOf(w.start) /\ u = MinuteOf(w.end)
    BY TextIsATime DEF Window
  <2>5. new = [row EXCEPT !.day = d, !.start = t, !.end = u]
    BY <1>4, <2>3, <2>4
  <2>6. /\ new \in ScheduleRow /\ new.id = row.id /\ new.cls = row.cls
        /\ new.day = d /\ new.start = t /\ new.end = u
    BY <2>5 DEF ScheduleRow
  <2>7. QED
    BY <2>3, <2>4, <2>6
<1>6. \/ \E now \in {row \in schedules : row.id = loc[r].row.id} :
           Goto(r, "write", [row |-> new, dirty |->
             {k \in {"day", "start", "end"} :
                w[k] # IF k = "day" THEN now[k] ELSE Loaded(now[k])}])
      \/ /\ {row \in schedules : row.id = loc[r].row.id} = {}
         /\ Goto(r, "restore", [row |-> new])
  BY <1>3, <1>4 DEF UpdateSelect
<1>7. \/ \E now \in schedules :
           /\ now.id = loc[r].row.id
           /\ Goto(r, "write", [row |-> new, dirty |->
                {k \in {"day", "start", "end"} :
                   w[k] # IF k = "day" THEN now[k] ELSE Loaded(now[k])}])
      \/ /\ \A now \in schedules : now.id # loc[r].row.id
         /\ Goto(r, "restore", [row |-> new])
  BY <1>6
<1>8. QED
  BY <1>2, <1>5, <1>7

\* The SELECT of save keeps the invariant.
LEMMA SelectKeeps ==
    ASSUME SchedInv, NEW r \in Request, UpdateSelect(r)
    PROVE  SchedInv'
<1>1. /\ pc[r] = "save" /\ UNCHANGED <<load, class, schedules>>
      /\ Placed(pc[r], loc[r], load.classes)
      /\ loc[r].row \in Rows /\ r \in load.requests
  BY Holds DEF UpdateSelect, RowPC
<1>2. PICK w \in Window, new \in ScheduleRow :
        /\ new.id = loc[r].row.id /\ new.cls = loc[r].row.cls
        /\ \/ \E now \in schedules :
                Goto(r, "write", [row |-> new, dirty |->
                  {k \in {"day", "start", "end"} :
                     w[k] # IF k = "day" THEN now[k] ELSE Loaded(now[k])}])
           \/ Goto(r, "restore", [row |-> new])
  BY SelectGoes
<1>3. new.cls \in load.classes /\ \E y \in Rows : new.id = y.id /\ new.cls = y.cls
  BY <1>1, <1>2 DEF Placed, RowPC
<1>4. ASSUME NEW dirty \in SUBSET {"day", "start", "end"},
             Goto(r, "write", [row |-> new, dirty |-> dirty])
      PROVE  SchedInv'
  <2> DEFINE f == [row |-> new, dirty |-> dirty]
  <2>1. f \in WriteFrame /\ f.row = new
    BY DEF WriteFrame
  <2>2. Goto(r, "write", f)
    BY <1>4
  <2> HIDE DEF f
  <2>3. "write" \in PC /\ f \in FrameOf("write")
    BY <2>1, FrameTable DEF PC
  <2>4. Placed("write", f, load.classes)
    BY <1>3, <2>1 DEF Placed, ClassPC
  <2>5. QED
    BY <1>1, <1>3, <2>1, <2>2, <2>3, <2>4, AwaitKeeps
<1>5. ASSUME Goto(r, "restore", [row |-> new]) PROVE SchedInv'
  <2> DEFINE f == [row |-> new]
  <2>1. f \in RemoveFrame /\ f.row = new
    BY DEF RemoveFrame
  <2>2. Goto(r, "restore", f)
    BY <1>5
  <2> HIDE DEF f
  <2>3. "restore" \in PC /\ f \in FrameOf("restore")
    BY <2>1, FrameTable DEF PC
  <2>4. Placed("restore", f, load.classes)
    BY <1>3, <2>1 DEF Placed, ClassPC
  <2>5. QED
    BY <1>1, <1>3, <2>1, <2>2, <2>3, <2>4, AwaitKeeps
<1>6. QED
  BY <1>2, <1>4, <1>5

\* What the UPDATE of save does to the rows: those of another identity stay,
\* the one it is for keeps its identity and its class.
LEMMA WriteGoes ==
    ASSUME SchedInv, NEW r \in Request, UpdateWrite(r)
    PROVE  /\ \A x \in schedules' :
                /\ x \in ScheduleRow
                /\ \E now \in schedules :
                     /\ x.id = now.id /\ x.cls = now.cls
                     /\ now.id # loc[r].row.id => x = now
                     /\ now.id = loc[r].row.id =>
                          /\ x.day = IF "day" \in loc[r].dirty THEN loc[r].row.day ELSE now.day
                          /\ x.start = IF "start" \in loc[r].dirty
                                       THEN loc[r].row.start ELSE now.start
                          /\ x.end = IF "end" \in loc[r].dirty THEN loc[r].row.end ELSE now.end
           /\ \A x, y \in schedules' : x.id = y.id => x = y
           /\ \A now \in schedules : now.id # loc[r].row.id => now \in schedules'
<1> DEFINE written(now) ==
             [k \in DOMAIN now |-> IF k \in loc[r].dirty THEN loc[r].row[k] ELSE now[k]]
           image(now) == IF now.id = loc[r].row.id THEN written(now) ELSE now
<1>1. pc[r] = "write" /\ loc[r] \in FrameOf(pc[r])
  BY Holds DEF UpdateWrite
<1>2. loc[r] \in WriteFrame
  BY <1>1, FrameTable
<1>3. loc[r].row \in ScheduleRow /\ loc[r].dirty \in SUBSET {"day", "start", "end"}
  BY <1>2 DEF WriteFrame
<1>4. schedules' = {image(now) : now \in schedules}
  BY DEF UpdateWrite
<1>5. /\ schedules \subseteq ScheduleRow
      /\ \A x, y \in schedules : x.id = y.id => x = y
  BY DEF SchedInv, TypeOK
<1>6. ASSUME NEW now \in schedules
      PROVE  /\ image(now) \in ScheduleRow
             /\ image(now).id = now.id /\ image(now).cls = now.cls
             /\ now.id # loc[r].row.id => image(now) = now
             /\ now.id = loc[r].row.id =>
                  /\ image(now).day = IF "day" \in loc[r].dirty THEN loc[r].row.day ELSE now.day
                  /\ image(now).start = IF "start" \in loc[r].dirty
                                        THEN loc[r].row.start ELSE now.start
                  /\ image(now).end = IF "end" \in loc[r].dirty THEN loc[r].row.end ELSE now.end
  <2>1. now \in ScheduleRow
    BY <1>5
  <2>2. CASE now.id = loc[r].row.id
    <3>1. PICK new : new = written(now)
      OBVIOUS
    <3>2. image(now) = new
      BY <2>2, <3>1
    <3> HIDE DEF image
    <3>3. /\ new \in ScheduleRow /\ new.id = now.id /\ new.cls = now.cls
          /\ new.day = IF "day" \in loc[r].dirty THEN loc[r].row.day ELSE now.day
          /\ new.start = IF "start" \in loc[r].dirty THEN loc[r].row.start ELSE now.start
          /\ new.end = IF "end" \in loc[r].dirty THEN loc[r].row.end ELSE now.end
      BY <1>3, <2>1, <3>1, WrittenRow
    <3>4. QED
      BY <2>2, <3>2, <3>3
  <2>3. CASE now.id # loc[r].row.id
    BY <2>1, <2>3
  <2>4. QED
    BY <2>2, <2>3
<1> HIDE DEF image
<1>7. QED
  BY <1>4, <1>5, <1>6

\* The writes of update and remove keep the invariant.
LEMMA RowWritesKeep ==
    ASSUME SchedInv, NEW r \in Request,
           \/ UpdateWrite(r) \/ UpdateRestore(r)
           \/ RemoveReadClass(r) \/ RemoveDelete(r)
    PROVE  SchedInv'
<1>1. /\ TypeOK /\ loc[r] \in FrameOf(pc[r]) /\ Placed(pc[r], loc[r], load.classes)
      /\ pc[r] # "idle" => r \in load.requests
      /\ pc[r] \in RowPC => loc[r].row \in Rows
      /\ \A x \in schedules : x \in ScheduleRow /\ x.cls \in load.classes
  BY Holds
<1>2. /\ \A x, y \in schedules : x.id = y.id => x = y
      /\ \A x, y \in Rows : x.id = y.id => x.cls = y.cls
      /\ schedules \subseteq Rows /\ class \in [load.classes -> ClassRow]
  BY DEF SchedInv, TypeOK, Rows
<1>3. /\ "idle" \in PC /\ NoFrame \in FrameOf("idle")
      /\ Placed("idle", NoFrame, load.classes) /\ "idle" \notin RowPC
  BY FrameTable DEF PC, Placed, ClassPC, RowPC
<1>4. CASE UpdateWrite(r)
  <2>1. Goto(r, "idle", NoFrame) /\ load' = load /\ class' = class
    BY <1>4 DEF UpdateWrite, Finish
  <2>2. /\ \A x \in schedules' :
             x \in ScheduleRow /\ \E now \in schedules : x.id = now.id /\ x.cls = now.cls
        /\ \A x, y \in schedules' : x.id = y.id => x = y
    BY <1>4, WriteGoes
  <2>3. /\ schedules' \subseteq ScheduleRow
        /\ \A x \in schedules' : x.cls \in load.classes
        /\ \A x \in schedules' \cup Rows : \E y \in Rows : x.id = y.id /\ x.cls = y.cls
    BY <1>1, <1>2, <2>2
  <2>4. \A x, y \in schedules' \cup Rows : x.id = y.id => x.cls = y.cls
    BY <1>2, <2>3
  <2>5. QED
    BY <1>2, <1>3, <2>1, <2>2, <2>3, <2>4, StepKeeps
<1>5. CASE UpdateRestore(r)
  <2>1. pc[r] = "restore" /\ Goto(r, "idle", NoFrame) /\ load' = load /\ class' = class
    BY <1>5 DEF UpdateRestore, Finish
  <2>2. loc[r] \in RemoveFrame
    BY <1>1, <2>1, FrameTable
  <2>3. loc[r].row \in ScheduleRow /\ loc[r].row.cls \in load.classes /\ loc[r].row \in Rows
    BY <1>1, <2>1, <2>2 DEF RemoveFrame, Placed, RowPC
  <2>4. \/ schedules' = schedules
        \/ /\ schedules' = schedules \cup {loc[r].row}
           /\ \A row \in schedules : row.id # loc[r].row.id
    BY <1>5 DEF UpdateRestore
  <2>5. /\ schedules' \subseteq ScheduleRow
        /\ \A x \in schedules' : x.cls \in load.classes
        /\ \A x, y \in schedules' : x.id = y.id => x = y
        /\ schedules' \subseteq Rows
    BY <1>1, <1>2, <2>3, <2>4
  <2>6. \A x, y \in schedules' \cup Rows : x.id = y.id => x.cls = y.cls
    BY <1>2, <2>5
  <2>7. QED
    BY <1>2, <1>3, <2>1, <2>5, <2>6, StepKeeps
<1>6. CASE RemoveReadClass(r)
  <2>1. /\ pc[r] = "removable" /\ UNCHANGED <<load, class, schedules>>
        /\ Finish(r) \/ Goto(r, "delete", loc[r])
    BY <1>6 DEF RemoveReadClass
  <2>2. CASE Finish(r)
    BY <2>1, <2>2, FinishKeeps
  <2>3. CASE Goto(r, "delete", loc[r])
    <3>1. "delete" \in PC /\ loc[r] \in FrameOf("delete")
      BY <1>1, <2>1, FrameTable DEF PC
    <3>2. Placed("delete", loc[r], load.classes) /\ loc[r].row \in Rows /\ r \in load.requests
      BY <1>1, <2>1 DEF Placed, ClassPC, RowPC
    <3>3. QED
      BY <2>1, <2>3, <3>1, <3>2, AwaitKeeps
  <2>4. QED
    BY <2>1, <2>2, <2>3
<1>7. CASE RemoveDelete(r)
  <2>1. Goto(r, "idle", NoFrame) /\ load' = load /\ class' = class
    BY <1>7 DEF RemoveDelete, Finish
  <2>2. schedules' \subseteq schedules
    BY <1>7 DEF RemoveDelete
  <2>3. /\ schedules' \subseteq ScheduleRow
        /\ \A x \in schedules' : x.cls \in load.classes
        /\ \A x, y \in schedules' : x.id = y.id => x = y
        /\ \A x, y \in schedules' \cup Rows : x.id = y.id => x.cls = y.cls
    BY <1>1, <1>2, <2>2
  <2>4. QED
    BY <1>2, <1>3, <2>1, <2>3, StepKeeps
<1>8. QED
  BY <1>4, <1>5, <1>6, <1>7

\* What the UPDATE of a class writes: the teacher and the state that differed
\* from the row at the SELECT, to that row as it is now.
LEMMA AssignGoes ==
    ASSUME SchedInv, NEW r \in Request, AssignUpdate(r)
    PROVE  /\ loc[r].cls \in load.classes
           /\ class' \in [load.classes -> ClassRow]
           /\ \A c \in load.classes : c # loc[r].cls => class'[c] = class[c]
           /\ class'[loc[r].cls].teacher =
                IF "teacher" \in loc[r].dirty
                THEN loc[r].entity.teacher ELSE class[loc[r].cls].teacher
<1> DEFINE c == loc[r].cls
           val(k) == IF k \in loc[r].dirty THEN loc[r].entity[k] ELSE class[c][k]
           row == [teacher |-> val("teacher"), state |-> val("state")]
<1>1. /\ pc[r] = "rewrite" /\ loc[r] \in FrameOf(pc[r])
      /\ Placed(pc[r], loc[r], load.classes) /\ TypeOK
  BY Holds DEF AssignUpdate
<1>2. loc[r] \in AssignFrame
  BY <1>1, FrameTable
<1>3. loc[r].entity \in ClassRow
  BY <1>2 DEF AssignFrame
<1>4. c \in load.classes /\ class \in [load.classes -> ClassRow] /\ class[c] \in ClassRow
  BY <1>1 DEF Placed, ClassPC, TypeOK
<1>5. row \in ClassRow /\ row.teacher = val("teacher")
  BY <1>3, <1>4 DEF ClassRow
<1>6. class' = [class EXCEPT ![c] = row]
  BY DEF AssignUpdate
<1>7. row.teacher = IF "teacher" \in loc[r].dirty
                    THEN loc[r].entity.teacher ELSE class[loc[r].cls].teacher
  BY <1>5
<1> HIDE DEF row, val
<1>8. QED
  BY <1>4, <1>5, <1>6, <1>7

\* Another teacher, and what other requests do to the state of a class.
LEMMA TeacherKeeps ==
    ASSUME SchedInv, NEW r \in Request,
           TeacherLoad(r) \/ TeacherCompare(r) \/ AssignSelect(r) \/ AssignUpdate(r)
    PROVE  SchedInv'
<1>1. /\ TypeOK /\ loc[r] \in FrameOf(pc[r]) /\ Placed(pc[r], loc[r], load.classes)
      /\ pc[r] # "idle" => r \in load.requests
      /\ schedules \subseteq ScheduleRow
  BY Holds DEF TypeOK
<1>2. CASE TeacherLoad(r)
  <2> DEFINE f == [cls |-> loc[r].cls, entity |-> loc[r].entity, own |-> OfClass(loc[r].cls)]
  <2>1. /\ pc[r] = "load" /\ UNCHANGED <<load, class, schedules>>
        /\ Goto(r, "assign", loc[r]) \/ Goto(r, "compare", f)
    BY <1>2 DEF TeacherLoad
  <2>2. loc[r] \in TeacherFrame /\ loc[r].cls \in load.classes /\ r \in load.requests
    BY <1>1, <2>1, FrameTable DEF Placed, ClassPC
  <2>3. OfClass(loc[r].cls) \subseteq ScheduleRow
    BY <1>1 DEF OfClass
  <2>4. f \in CompareFrame /\ f.cls = loc[r].cls
    BY <2>2, <2>3 DEF CompareFrame, TeacherFrame
  <2> HIDE DEF f
  <2>5. CASE Goto(r, "assign", loc[r])
    <3>1. "assign" \in PC /\ loc[r] \in FrameOf("assign")
      BY <2>2, FrameTable DEF PC
    <3>2. Placed("assign", loc[r], load.classes) /\ "assign" \notin RowPC
      BY <2>2 DEF Placed, ClassPC, RowPC
    <3>3. QED
      BY <2>1, <2>2, <2>5, <3>1, <3>2, AwaitKeeps
  <2>6. CASE Goto(r, "compare", f)
    <3>1. "compare" \in PC /\ f \in FrameOf("compare")
      BY <2>4, FrameTable DEF PC
    <3>2. Placed("compare", f, load.classes) /\ "compare" \notin RowPC
      BY <2>2, <2>4 DEF Placed, ClassPC, RowPC
    <3>3. QED
      BY <2>1, <2>2, <2>6, <3>1, <3>2, AwaitKeeps
  <2>7. QED
    BY <2>1, <2>5, <2>6
<1>3. CASE TeacherCompare(r)
  <2> DEFINE f == [cls |-> loc[r].cls, entity |-> loc[r].entity]
  <2>1. /\ pc[r] = "compare" /\ UNCHANGED <<load, class, schedules>>
        /\ Finish(r) \/ Goto(r, "assign", f)
    BY <1>3 DEF TeacherCompare
  <2>2. loc[r] \in CompareFrame /\ loc[r].cls \in load.classes /\ r \in load.requests
    BY <1>1, <2>1, FrameTable DEF Placed, ClassPC
  <2>3. f \in TeacherFrame /\ f.cls = loc[r].cls
    BY <2>2 DEF CompareFrame, TeacherFrame
  <2> HIDE DEF f
  <2>4. CASE Finish(r)
    BY <2>1, <2>4, FinishKeeps
  <2>5. CASE Goto(r, "assign", f)
    <3>1. "assign" \in PC /\ f \in FrameOf("assign")
      BY <2>3, FrameTable DEF PC
    <3>2. Placed("assign", f, load.classes) /\ "assign" \notin RowPC
      BY <2>2, <2>3 DEF Placed, ClassPC, RowPC
    <3>3. QED
      BY <2>1, <2>2, <2>5, <3>1, <3>2, AwaitKeeps
  <2>6. QED
    BY <2>1, <2>4, <2>5
<1>4. CASE AssignSelect(r)
  <2> DEFINE dirty == {k \in {"teacher", "state"} :
                         loc[r].entity[k] # class[loc[r].cls][k]}
             f == [cls |-> loc[r].cls, entity |-> loc[r].entity, dirty |-> dirty]
  <2>1. /\ pc[r] = "assign" /\ UNCHANGED <<load, class, schedules>> /\ Goto(r, "rewrite", f)
    BY <1>4 DEF AssignSelect
  <2>2. loc[r] \in TeacherFrame /\ loc[r].cls \in load.classes /\ r \in load.requests
    BY <1>1, <2>1, FrameTable DEF Placed, ClassPC
  <2>3. dirty \in SUBSET {"teacher", "state"}
    OBVIOUS
  <2> HIDE DEF dirty
  <2>4. f \in AssignFrame /\ f.cls = loc[r].cls
    BY <2>2, <2>3 DEF AssignFrame, TeacherFrame
  <2> HIDE DEF f
  <2>5. "rewrite" \in PC /\ f \in FrameOf("rewrite")
    BY <2>4, FrameTable DEF PC
  <2>6. Placed("rewrite", f, load.classes) /\ "rewrite" \notin RowPC
    BY <2>2, <2>4 DEF Placed, ClassPC, RowPC
  <2>7. QED
    BY <2>1, <2>2, <2>5, <2>6, AwaitKeeps
<1>5. CASE AssignUpdate(r)
  <2>1. Goto(r, "idle", NoFrame) /\ load' = load /\ schedules' = schedules
    BY <1>5 DEF AssignUpdate, Finish
  <2>2. class' \in [load.classes -> ClassRow]
    BY <1>5, AssignGoes
  <2>3. /\ "idle" \in PC /\ NoFrame \in FrameOf("idle")
        /\ Placed("idle", NoFrame, load.classes) /\ "idle" \notin RowPC
    BY FrameTable DEF PC, Placed, ClassPC, RowPC
  <2>4. /\ schedules \subseteq ScheduleRow /\ schedules \cup Rows = Rows
        /\ \A x, y \in schedules : x.id = y.id => x = y
        /\ \A x \in schedules : x.cls \in load.classes
        /\ \A x, y \in Rows : x.id = y.id => x.cls = y.cls
    BY DEF SchedInv, TypeOK, Rows
  <2>5. QED
    BY <2>1, <2>2, <2>3, <2>4, StepKeeps
<1>6. QED
  BY <1>2, <1>3, <1>4, <1>5

\* What another state of a class changes: nothing but that.
LEMMA StateGoes ==
    ASSUME TypeOK, NEW c \in load.classes, NEW state \in {"ACTIVE", "INACTIVE", "CANCELLED"},
           ClassSetState(c, state)
    PROVE  /\ class' \in [load.classes -> ClassRow]
           /\ class[c].state # "CANCELLED"
           /\ \A d \in load.classes : class'[d].teacher = class[d].teacher
           /\ \A d \in load.classes : d # c => class'[d] = class[d]
           /\ class'[c].state = state
<1>1. class[c] \in ClassRow /\ class \in [load.classes -> ClassRow]
  BY DEF TypeOK
<1>2. PICK row : row = [class[c] EXCEPT !.state = state]
  OBVIOUS
<1>3. row \in ClassRow /\ row.teacher = class[c].teacher /\ row.state = state
  BY <1>1, <1>2 DEF ClassRow
<1>4. class' = [class EXCEPT ![c] = row] /\ class[c].state # "CANCELLED"
  BY <1>2 DEF ClassSetState
<1>5. QED
  BY <1>1, <1>3, <1>4

\* Every step keeps the invariant.
LEMMA SchedStep ==
    SchedInv /\ [Next]_vars => SchedInv'
<1>1. SUFFICES ASSUME SchedInv, [Next]_vars PROVE SchedInv'
  OBVIOUS
<1>2. ASSUME NEW r \in Request, Step(r) PROVE SchedInv'
  BY <1>1, <1>2, CreateKeeps, UpdateReadsKeep, SelectKeeps, RowWritesKeep, TeacherKeeps
     DEF Step
<1>3. ASSUME NEW r \in Request, Abandon(r) PROVE SchedInv'
  BY <1>1, <1>3, FinishKeeps DEF Abandon
<1>4. ASSUME NEW r \in Request,
             \/ \E c \in load.classes, new \in Lists : CreateReadClass(r, c, new)
             \/ \E row \in schedules : \/ RemoveReadRow(r, row)
                                       \/ \E w \in Window : UpdateReadRow(r, row, w)
             \/ \E c \in load.classes, t \in load.teachers \cup {NoTeacher} :
                  TeacherReadClass(r, c, t)
      PROVE  SchedInv'
  BY <1>1, <1>4, CallsKeep
<1>5. ASSUME NEW c \in load.classes, NEW state \in {"ACTIVE", "INACTIVE", "CANCELLED"},
             ClassSetState(c, state)
      PROVE  SchedInv'
  <2>1. class' \in [load.classes -> ClassRow] /\ UNCHANGED <<load, schedules, pc, loc>>
    BY <1>1, <1>5, StateGoes DEF SchedInv, ClassSetState
  <2>2. QED
    BY <1>1, <2>1 DEF SchedInv, TypeOK, Rows
<1>6. CASE UNCHANGED vars
  BY <1>1, <1>6 DEF vars, SchedInv, TypeOK, Rows
<1>7. QED
  BY <1>1, <1>2, <1>3, <1>4, <1>5, <1>6 DEF Next

\* Behaviours start with classes that have no schedules.
LEMMA SchedInit ==
    Init => SchedInv
<1>1. SUFFICES ASSUME Init PROVE SchedInv
  OBVIOUS
<1>2. /\ load \in Loads /\ class \in [load.classes -> ClassRow] /\ schedules = {}
      /\ pc = [r \in Request |-> "idle"] /\ loc = [r \in Request |-> NoFrame]
  BY <1>1 DEF Init
<1>3. TypeOK
  BY <1>2, FrameTable DEF TypeOK, PC
<1>4. \A r \in Request : Placed(pc[r], loc[r], load.classes)
  BY <1>2 DEF Placed, ClassPC, RowPC
<1>5. Rows = {}
  BY <1>2 DEF Rows, RowPC
<1>6. QED
  BY <1>2, <1>3, <1>4, <1>5 DEF SchedInv

\* Classes, schedules and the frames of requests are what their types say, a
\* time that is written back is one of the day, and primary keys are unique.
THEOREM TypeCorrect == Spec => []TypeOK
<1>1. SchedInv => TypeOK
  BY DEF SchedInv
<1>2. QED
  BY <1>1, SchedInit, SchedStep, PTL DEF Spec

(***************************************************************************)
(* The schedules of a class that is not ACTIVE are frozen                  *)
(***************************************************************************)

\* What a step does with a class c that is frozen.
Keeps(c) ==
    /\ OfClass(c)' = OfClass(c)
    /\ class'[c].state # "ACTIVE" => Frozen(c)'

\* A class stays frozen when its rows are as they were and the request that
\* moves does not come to write them.
LEMMA FrozenStays ==
    ASSUME TypeOK, NEW c, Frozen(c), NEW r \in Request, NEW p, NEW f, Goto(r, p, f),
           OfClass(c)' = OfClass(c), ~MayWrite(r, c)'
    PROVE  Keeps(c)
<1>1. \A q \in Request \ {r} : pc'[q] = pc[q] /\ loc'[q] = loc[q]
  BY GotoMoves
<1>2. \A q \in Request : ~MayWrite(q, c)
  BY DEF Frozen
<1>3. \A q \in Request : ~MayWrite(q, c)'
  BY <1>1, <1>2 DEF MayWrite
<1>4. QED
  BY <1>3 DEF Keeps, Frozen

\* In particular when the request ends.
LEMMA FrozenFinish ==
    ASSUME TypeOK, NEW c, Frozen(c), NEW r \in Request, Finish(r),
           OfClass(c)' = OfClass(c)
    PROVE  Keeps(c)
<1>1. Goto(r, "idle", NoFrame) /\ pc'[r] = "idle"
  BY GotoMoves DEF Finish
<1>2. ~MayWrite(r, c)'
  BY <1>1 DEF MayWrite
<1>3. QED
  BY <1>1, <1>2, FrozenStays

\* A handler of which the class is known comes to an await where it may write
\* that class's schedules only past a check of another class.
LEMMA FrozenSteps ==
    ASSUME SchedInv, NEW c \in load.classes, Frozen(c), NEW r \in Request,
           schedules' = schedules,
           \/ CreateCheckClass(r) \/ CreateCheckTeacher(r)
           \/ UpdateReadClass(r) \/ UpdateCheckClass(r) \/ UpdateCheckTeacher(r)
           \/ RemoveReadClass(r)
    PROVE  Keeps(c)
<1>1. TypeOK /\ OfClass(c)' = OfClass(c) /\ ~MayWrite(r, c) /\ class[c].state # "ACTIVE"
  BY DEF SchedInv, OfClass, Frozen
<1>2. ASSUME Finish(r) PROVE Keeps(c)
  BY <1>1, <1>2, FrozenFinish
<1>3. CASE CreateCheckClass(r) \/ CreateCheckTeacher(r)
  <2>1. PICK p \in {"others", "insert"} :
          (Finish(r) \/ Goto(r, p, loc[r])) /\ pc[r] \in {"own", "others"}
    BY <1>3 DEF CreateCheckClass, CreateCheckTeacher
  <2>2. CASE Goto(r, p, loc[r])
    <3>1. loc[r].cls # c
      BY <1>1, <2>1 DEF MayWrite
    <3>2. pc'[r] = p /\ loc'[r] = loc[r]
      BY <1>1, <2>2, GotoMoves
    <3>3. ~MayWrite(r, c)'
      BY <2>1, <3>1, <3>2 DEF MayWrite
    <3>4. QED
      BY <1>1, <2>2, <3>3, FrozenStays
  <2>3. QED
    BY <1>2, <2>1, <2>2
<1>4. CASE UpdateCheckClass(r) \/ UpdateCheckTeacher(r)
  <2>1. PICK p \in {"othersBut", "save"} :
          (Finish(r) \/ Goto(r, p, loc[r])) /\ pc[r] \in {"ownBut", "othersBut"}
    BY <1>4 DEF UpdateCheckClass, UpdateCheckTeacher
  <2>2. CASE Goto(r, p, loc[r])
    <3>1. loc[r].cls # c
      BY <1>1, <2>1 DEF MayWrite
    <3>2. pc'[r] = p /\ loc'[r] = loc[r]
      BY <1>1, <2>2, GotoMoves
    <3>3. ~MayWrite(r, c)'
      BY <2>1, <3>1, <3>2 DEF MayWrite
    <3>4. QED
      BY <1>1, <2>2, <3>3, FrozenStays
  <2>3. QED
    BY <1>2, <2>1, <2>2
<1>5. CASE UpdateReadClass(r)
  <2> DEFINE f == [row |-> loc[r].row, cls |-> loc[r].row.cls,
                   teacher |-> class[loc[r].row.cls].teacher, new |-> {loc[r].win}]
  <2>1. Finish(r) \/ (class[loc[r].row.cls].state = "ACTIVE" /\ Goto(r, "ownBut", f))
    BY <1>5 DEF UpdateReadClass
  <2>2. CASE class[loc[r].row.cls].state = "ACTIVE" /\ Goto(r, "ownBut", f)
    <3>1. loc[r].row.cls # c /\ f.cls = loc[r].row.cls
      BY <1>1, <2>2
    <3> HIDE DEF f
    <3>2. pc'[r] = "ownBut" /\ loc'[r] = f
      BY <1>1, <2>2, GotoMoves
    <3>3. ~MayWrite(r, c)'
      BY <3>1, <3>2 DEF MayWrite
    <3>4. QED
      BY <1>1, <2>2, <3>3, FrozenStays
  <2>3. QED
    BY <1>2, <2>1, <2>2
<1>6. CASE RemoveReadClass(r)
  <2>1. \/ Finish(r)
        \/ class[loc[r].row.cls].state = "ACTIVE" /\ Goto(r, "delete", loc[r])
    BY <1>6 DEF RemoveReadClass
  <2>2. CASE class[loc[r].row.cls].state = "ACTIVE" /\ Goto(r, "delete", loc[r])
    <3>1. loc[r].row.cls # c
      BY <1>1, <2>2
    <3>2. pc'[r] = "delete" /\ loc'[r] = loc[r]
      BY <1>1, <2>2, GotoMoves
    <3>3. ~MayWrite(r, c)'
      BY <3>1, <3>2 DEF MayWrite
    <3>4. QED
      BY <1>1, <2>2, <3>3, FrozenStays
  <2>3. QED
    BY <1>2, <2>1, <2>2
<1>7. QED
  BY <1>3, <1>4, <1>5, <1>6

\* The SELECT of save goes on with the class of the row it is for.
LEMMA FrozenSelect ==
    ASSUME SchedInv, NEW c \in load.classes, Frozen(c), NEW r \in Request, UpdateSelect(r)
    PROVE  Keeps(c)
<1>1. /\ TypeOK /\ OfClass(c)' = OfClass(c) /\ ~MayWrite(r, c)
      /\ pc[r] = "save" /\ Placed(pc[r], loc[r], load.classes)
  <2>1. pc[r] = "save" /\ schedules' = schedules
    BY DEF UpdateSelect
  <2>2. OfClass(c)' = OfClass(c)
    BY <2>1 DEF OfClass
  <2>3. TypeOK /\ Placed(pc[r], loc[r], load.classes)
    BY Holds
  <2>4. ~MayWrite(r, c)
    BY DEF Frozen
  <2>5. QED
    BY <2>1, <2>2, <2>3, <2>4
<1>2. loc[r].row.cls # c
  BY <1>1 DEF MayWrite, Placed
<1>3. \E p \in {"write", "restore"} : \E f : Goto(r, p, f) /\ f.row.cls = loc[r].row.cls
  <2>1. PICK w \in Window, new \in ScheduleRow :
          /\ new.cls = loc[r].row.cls
          /\ \/ \E now \in schedules :
                  Goto(r, "write", [row |-> new, dirty |->
                    {k \in {"day", "start", "end"} :
                       w[k] # IF k = "day" THEN now[k] ELSE Loaded(now[k])}])
             \/ Goto(r, "restore", [row |-> new])
    BY SelectGoes
  <2>2. ASSUME NEW dirty, Goto(r, "write", [row |-> new, dirty |-> dirty])
        PROVE  \E f : Goto(r, "write", f) /\ f.row.cls = loc[r].row.cls
    <3>1. PICK f : f = [row |-> new, dirty |-> dirty]
      OBVIOUS
    <3>2. f.row = new
      BY <3>1
    <3>3. Goto(r, "write", f)
      BY <2>2, <3>1
    <3>4. QED
      BY <2>1, <3>2, <3>3
  <2>3. ASSUME Goto(r, "restore", [row |-> new])
        PROVE  \E f : Goto(r, "restore", f) /\ f.row.cls = loc[r].row.cls
    <3>1. PICK f : f = [row |-> new]
      OBVIOUS
    <3>2. f.row = new
      BY <3>1
    <3>3. Goto(r, "restore", f)
      BY <2>3, <3>1
    <3>4. QED
      BY <2>1, <3>2, <3>3
  <2>4. QED
    BY <2>1, <2>2, <2>3
<1>4. PICK p, f : p \in {"write", "restore"} /\ Goto(r, p, f) /\ f.row.cls # c
  BY <1>2, <1>3
<1>5. pc'[r] = p /\ loc'[r] = f
  BY <1>1, <1>4, GotoMoves
<1>6. ~MayWrite(r, c)'
  BY <1>4, <1>5 DEF MayWrite
<1>7. QED
  BY <1>1, <1>4, <1>6, FrozenStays

\* The writes are to other classes.
LEMMA FrozenWrites ==
    ASSUME SchedInv, NEW c \in load.classes, Frozen(c), NEW r \in Request,
           CreateInsert(r) \/ UpdateWrite(r) \/ UpdateRestore(r) \/ RemoveDelete(r)
    PROVE  Keeps(c)
<1>1. /\ TypeOK /\ ~MayWrite(r, c)
      /\ pc[r] \in RowPC => loc[r].row \in Rows
      /\ schedules \subseteq Rows
      /\ \A x, y \in Rows : x.id = y.id => x.cls = y.cls
  BY Holds DEF Frozen, SchedInv
<1>2. ASSUME Finish(r), OfClass(c)' = OfClass(c) PROVE Keeps(c)
  BY <1>1, <1>2, FrozenFinish
<1>3. CASE CreateInsert(r)
  <2>1. pc[r] = "insert" /\ Finish(r)
    BY <1>3 DEF CreateInsert
  <2>2. loc[r].cls # c
    BY <1>1, <2>1 DEF MayWrite
  <2>3. /\ schedules \subseteq schedules'
        /\ \A x \in schedules' : x \in schedules \/ x.cls = loc[r].cls
    <3>1. PICK id \in [loc[r].new -> FreshId] :
            schedules' = schedules \cup
              {[id |-> id[w], cls |-> loc[r].cls, day |-> w.day,
                start |-> MinuteOf(w.start), end |-> MinuteOf(w.end)] : w \in loc[r].new}
      BY <1>3 DEF CreateInsert
    <3>2. QED
      BY <3>1
  <2>4. OfClass(c)' = OfClass(c)
    BY <2>2, <2>3 DEF OfClass
  <2>5. QED
    BY <1>2, <2>1, <2>4
<1>4. CASE UpdateWrite(r)
  <2>1. pc[r] = "write" /\ Finish(r)
    BY <1>4 DEF UpdateWrite
  <2>2. loc[r].row.cls # c
    BY <1>1, <2>1 DEF MayWrite
  <2>3. /\ \A x \in schedules' :
             \E now \in schedules : /\ x.id = now.id /\ x.cls = now.cls
                                    /\ now.id # loc[r].row.id => x = now
        /\ \A now \in schedules : now.id # loc[r].row.id => now \in schedules'
    BY <1>4, WriteGoes
  <2>4. \A now \in schedules : now.cls = c => now.id # loc[r].row.id
    BY <1>1, <2>1, <2>2 DEF RowPC
  <2>5. OfClass(c)' = OfClass(c)
    BY <2>3, <2>4 DEF OfClass
  <2>6. QED
    BY <1>2, <2>1, <2>5
<1>5. CASE UpdateRestore(r)
  <2>1. pc[r] = "restore" /\ Finish(r)
    BY <1>5 DEF UpdateRestore
  <2>2. loc[r].row.cls # c
    BY <1>1, <2>1 DEF MayWrite
  <2>3. schedules' = schedules \/ schedules' = schedules \cup {loc[r].row}
    BY <1>5 DEF UpdateRestore
  <2>4. OfClass(c)' = OfClass(c)
    BY <2>2, <2>3 DEF OfClass
  <2>5. QED
    BY <1>2, <2>1, <2>4
<1>6. CASE RemoveDelete(r)
  <2>1. /\ pc[r] = "delete" /\ Finish(r)
        /\ schedules' = {row \in schedules : row.id # loc[r].row.id}
    BY <1>6 DEF RemoveDelete
  <2>2. loc[r].row.cls # c
    BY <1>1, <2>1 DEF MayWrite
  <2>3. \A now \in schedules : now.cls = c => now.id # loc[r].row.id
    BY <1>1, <2>1, <2>2 DEF RowPC
  <2>4. OfClass(c)' = OfClass(c)
    BY <2>1, <2>3 DEF OfClass
  <2>5. QED
    BY <1>2, <2>1, <2>4
<1>7. QED
  BY <1>3, <1>4, <1>5, <1>6

\* A request that begins is refused, or not yet past the check; one that
\* changes the teacher writes no schedule.
LEMMA FrozenOthers ==
    ASSUME SchedInv, NEW c \in load.classes, Frozen(c), NEW r \in Request,
           \/ \E d \in load.classes, new \in Lists : CreateReadClass(r, d, new)
           \/ \E row \in schedules : \/ RemoveReadRow(r, row)
                                     \/ \E w \in Window : UpdateReadRow(r, row, w)
           \/ \E d \in load.classes, t \in load.teachers \cup {NoTeacher} :
                TeacherReadClass(r, d, t)
           \/ TeacherLoad(r) \/ TeacherCompare(r) \/ AssignSelect(r) \/ AssignUpdate(r)
           \/ Abandon(r)
    PROVE  Keeps(c)
<1>1. TypeOK /\ class[c].state # "ACTIVE"
  BY DEF SchedInv, Frozen
<1>2. ASSUME schedules' = schedules, NEW p, NEW f, Goto(r, p, f),
             p \in {"own", "others", "insert", "ownBut", "othersBut", "save"} => f.cls # c,
             p \in {"write", "restore", "delete"} => f.row.cls # c
      PROVE  Keeps(c)
  <2>1. pc'[r] = p /\ loc'[r] = f
    BY <1>1, <1>2, GotoMoves
  <2>2. ~MayWrite(r, c)'
    BY <1>2, <2>1 DEF MayWrite
  <2>3. OfClass(c)' = OfClass(c)
    BY <1>2 DEF OfClass
  <2>4. QED
    BY <1>1, <1>2, <2>2, <2>3, FrozenStays
<1>3. ASSUME NEW d \in load.classes, NEW new \in Lists, CreateReadClass(r, d, new)
      PROVE  Keeps(c)
  <2> DEFINE f == [cls |-> d, teacher |-> class[d].teacher, new |-> new]
  <2>1. Goto(r, "own", f) /\ f.cls = d /\ schedules' = schedules
    BY <1>3 DEF CreateReadClass
  <2>2. d # c
    BY <1>1, <1>3 DEF CreateReadClass
  <2> HIDE DEF f
  <2>3. QED
    BY <1>2, <2>1, <2>2
<1>4. ASSUME NEW row \in schedules, RemoveReadRow(r, row) PROVE Keeps(c)
  BY <1>2, <1>4 DEF RemoveReadRow
<1>5. ASSUME NEW row \in schedules, NEW w \in Window, UpdateReadRow(r, row, w)
      PROVE  Keeps(c)
  BY <1>2, <1>5 DEF UpdateReadRow
<1>6. ASSUME NEW d \in load.classes, NEW t \in load.teachers \cup {NoTeacher},
             TeacherReadClass(r, d, t)
      PROVE  Keeps(c)
  <2>1. PICK p, f : p \in {"assign", "load"} /\ Goto(r, p, f) /\ schedules' = schedules
    BY <1>6 DEF TeacherReadClass
  <2>2. QED
    BY <1>2, <2>1
<1>7. CASE TeacherLoad(r) \/ TeacherCompare(r) \/ AssignSelect(r)
  <2>1. /\ schedules' = schedules
        /\ Finish(r) \/ \E p \in {"assign", "compare", "rewrite"} : \E f : Goto(r, p, f)
    BY <1>7 DEF TeacherLoad, TeacherCompare, AssignSelect
  <2>2. CASE Finish(r)
    BY <1>2, <2>1, <2>2 DEF Finish
  <2>3. CASE \E p \in {"assign", "compare", "rewrite"} : \E f : Goto(r, p, f)
    BY <1>2, <2>1, <2>3
  <2>4. QED
    BY <2>1, <2>2, <2>3
<1>8. CASE AssignUpdate(r) \/ Abandon(r)
  BY <1>2, <1>8 DEF AssignUpdate, Abandon, Finish
<1>9. QED
  BY <1>3, <1>4, <1>5, <1>6, <1>7, <1>8

\* Every step keeps the schedules of a class that is frozen.
LEMMA FrozenStep ==
    ASSUME SchedInv, [Next]_vars, NEW c \in load.classes, Frozen(c)
    PROVE  Keeps(c)
<1>1. ASSUME NEW r \in Request, Step(r) PROVE Keeps(c)
  <2>1. CASE \/ CreateCheckClass(r) \/ CreateCheckTeacher(r)
             \/ UpdateReadClass(r) \/ UpdateCheckClass(r) \/ UpdateCheckTeacher(r)
             \/ RemoveReadClass(r)
    <3>1. schedules' = schedules
      BY <2>1 DEF CreateCheckClass, CreateCheckTeacher, UpdateReadClass, UpdateCheckClass,
         UpdateCheckTeacher, RemoveReadClass
    <3>2. QED
      BY <2>1, <3>1, FrozenSteps
  <2>2. QED
    BY <1>1, <2>1, FrozenSelect, FrozenWrites, FrozenOthers DEF Step
<1>2. ASSUME NEW r \in Request,
             \/ Abandon(r)
             \/ \E d \in load.classes, new \in Lists : CreateReadClass(r, d, new)
             \/ \E row \in schedules : \/ RemoveReadRow(r, row)
                                       \/ \E w \in Window : UpdateReadRow(r, row, w)
             \/ \E d \in load.classes, t \in load.teachers \cup {NoTeacher} :
                  TeacherReadClass(r, d, t)
      PROVE  Keeps(c)
  BY <1>2, FrozenOthers
<1>3. ASSUME UNCHANGED <<schedules, pc, loc>> PROVE Keeps(c)
  BY <1>3 DEF Keeps, Frozen, MayWrite, OfClass
<1>4. ASSUME NEW d \in load.classes, NEW state \in {"ACTIVE", "INACTIVE", "CANCELLED"},
             ClassSetState(d, state)
      PROVE  Keeps(c)
  BY <1>3, <1>4 DEF ClassSetState
<1>5. CASE UNCHANGED vars
  BY <1>3, <1>5 DEF vars
<1>6. QED
  BY <1>1, <1>2, <1>4, <1>5 DEF Next

\* However requests overlap, the schedules of a class that is not ACTIVE do
\* not change until it is again, but for requests that read it while it was.
THEOREM FrozenUnlessActiveHolds == Spec => FrozenUnlessActive
<1>1. SchedInv /\ [Next]_vars =>
        [\A c \in load.classes :
           Frozen(c) => /\ OfClass(c)' = OfClass(c)
                        /\ class'[c].state # "ACTIVE" => Frozen(c)']_vars
  BY FrozenStep DEF Keeps
<1>2. QED
  BY <1>1, SchedInit, SchedStep, PTL DEF Spec, FrozenUnlessActive

(***************************************************************************)
(* One request at a time: nothing overlaps                                 *)
(***************************************************************************)

\* The schedules in S of teacher t's classes other than c, by the class rows K.
Elsewhere(t, c, K, S) ==
    {row \in S : row.cls # c /\ K[row.cls].teacher = t /\ K[row.cls].state # "CANCELLED"}

\* What a handler at p with locals f has read still holds of class rows K and
\* schedules S: the rows it compared with do not clash with what it will write.
ReadyToCreate(p, f, K, S) ==
    /\ p \in {"own", "others", "insert"} =>
         /\ f.teacher = K[f.cls].teacher
         /\ \A w, v \in f.new : w # v => ~WindowsClash(w, v)
    /\ p \in {"others", "insert"} =>
         \A w \in f.new, row \in S : row.cls = f.cls => ~RowClash(w, row)
    /\ p = "insert" /\ f.teacher # NoTeacher =>
         \A w \in f.new, row \in Elsewhere(f.teacher, f.cls, K, S) : ~RowClash(w, row)

ReadyToUpdate(p, f, K, S) ==
    /\ p # "restore"
    /\ p \in {"editable", "ownBut", "othersBut", "save"} => f.row \in S
    /\ p \in {"ownBut", "othersBut", "save"} => f.teacher = K[f.cls].teacher
    /\ p \in {"othersBut", "save"} =>
         \A w \in f.new, row \in S :
           row.cls = f.cls /\ row.id # f.row.id => ~RowClash(w, row)
    /\ p = "save" /\ f.teacher # NoTeacher =>
         \A w \in f.new, row \in Elsewhere(f.teacher, f.cls, K, S) :
           row.id # f.row.id => ~RowClash(w, row)

ReadyToWrite(p, f, K, S) ==
    p = "write" =>
      /\ \A now \in S : now.id = f.row.id =>
           /\ "day" \in f.dirty \/ now.day = f.row.day
           /\ "start" \in f.dirty \/ now.start = f.row.start
           /\ "end" \in f.dirty \/ now.end = f.row.end
      /\ \A row \in S : row.id # f.row.id /\ row.cls = f.row.cls => ~Overlap(f.row, row)
      /\ K[f.row.cls].teacher # NoTeacher =>
           \A row \in Elsewhere(K[f.row.cls].teacher, f.row.cls, K, S) : ~Overlap(f.row, row)

ReadyToAssign(p, f, K, S) ==
    /\ p = "compare" => \A x \in S : x.cls = f.cls => x \in f.own
    /\ p \in {"assign", "rewrite"} /\ f.entity.teacher # NoTeacher =>
         \A x \in S, y \in Elsewhere(f.entity.teacher, f.cls, K, S) :
           x.cls = f.cls => ~Overlap(x, y)
    /\ p = "rewrite" => "teacher" \in f.dirty \/ f.entity.teacher = K[f.cls].teacher

Ready(p, f, K, S) ==
    /\ ReadyToCreate(p, f, K, S) /\ ReadyToUpdate(p, f, K, S)
    /\ ReadyToWrite(p, f, K, S) /\ ReadyToAssign(p, f, K, S)

\* The schedules S of one class do not overlap, nor those of one teacher's
\* classes by the class rows K.
ClassFree(S) == \A x, y \in S : x # y /\ x.cls = y.cls => ~Overlap(x, y)

TeacherFree(K, S) ==
    \A x, y \in S :
      /\ x.cls # y.cls /\ K[x.cls].teacher = K[y.cls].teacher
      /\ K[x.cls].teacher # NoTeacher
      /\ K[x.cls].state # "CANCELLED" /\ K[y.cls].state # "CANCELLED"
      => ~Overlap(x, y)

Booked ==
    /\ ClassFree(schedules) /\ TeacherFree(class, schedules)
    /\ \A r \in Request : Ready(pc[r], loc[r], class, schedules)

\* Rows that share time clash, however the handlers spell their times.
LEMMA OverlapClashes ==
    ASSUME NEW w \in Window, NEW x, NEW row \in ScheduleRow,
           x.day = w.day, x.start = MinuteOf(w.start), x.end = MinuteOf(w.end),
           Overlap(x, row)
    PROVE  RowClash(w, row)
<1>1. /\ row.start \in Int /\ row.end \in Int
      /\ x.start \in Int /\ x.end \in Int
      /\ w.start \in Int /\ w.start <= 2 * x.start + 1
      /\ w.end \in Int /\ 2 * x.end <= w.end
  BY TextIsATime, MinutesAreNumbers DEF Window, ScheduleRow
<1>2. w.day = row.day /\ x.start < row.end /\ x.end > row.start
  BY DEF Overlap
<1>3. w.start < 2 * row.end + 1 /\ w.end > 2 * row.start + 1
  BY <1>1, <1>2
<1>4. QED
  BY <1>2, <1>3 DEF RowClash, IsOverlapping, Loaded

\* And so do two windows of one request.
LEMMA WindowsOverlapClash ==
    ASSUME NEW w \in Window, NEW v \in Window, NEW x, NEW y,
           x.day = w.day, x.start = MinuteOf(w.start), x.end = MinuteOf(w.end),
           y.day = v.day, y.start = MinuteOf(v.start), y.end = MinuteOf(v.end),
           Overlap(x, y)
    PROVE  WindowsClash(w, v)
<1>1. /\ x.start \in Int /\ x.end \in Int /\ y.start \in Int /\ y.end \in Int
      /\ w.start \in Int /\ w.start <= 2 * x.start + 1 /\ w.end \in Int /\ 2 * x.end <= w.end
      /\ v.start \in Int /\ v.start <= 2 * y.start + 1 /\ v.end \in Int /\ 2 * y.end <= v.end
  BY TextIsATime, MinutesAreNumbers DEF Window
<1>2. w.day = v.day /\ x.start < y.end /\ x.end > y.start
  BY DEF Overlap
<1>3. w.start < v.end /\ w.end > v.start
  BY <1>1, <1>2
<1>4. QED
  BY <1>2, <1>3 DEF WindowsClash, IsOverlapping

\* Loaded rows clash with loaded rows when they share time.
LEMMA RowsOverlapClash ==
    ASSUME NEW x \in ScheduleRow, NEW row \in ScheduleRow, Overlap(x, row)
    PROVE  RowClash(LoadedWindow(x), row)
<1>1. /\ x.start \in Int /\ x.end \in Int /\ row.start \in Int /\ row.end \in Int
      /\ x.day = row.day /\ x.start < row.end /\ x.end > row.start
  BY MinutesAreNumbers DEF ScheduleRow, Overlap
<1>2. QED
  BY <1>1 DEF RowClash, IsOverlapping, Loaded, LoadedWindow

\* Sharing time is symmetric.
LEMMA OverlapSymmetric ==
    ASSUME NEW x \in ScheduleRow, NEW y \in ScheduleRow, Overlap(x, y)
    PROVE  Overlap(y, x)
<1>1. /\ x.start \in Int /\ x.end \in Int /\ y.start \in Int /\ y.end \in Int
  BY MinutesAreNumbers DEF ScheduleRow
<1>2. QED
  BY <1>1 DEF Overlap

\* When requests come one at a time, the others are idle.
LEMMA OthersAreIdle ==
    ASSUME SchedInv, Serial, NEW r \in load.requests
    PROVE  r \in Request /\ \A q \in Request \ {r} : pc[q] = "idle"
<1>1. load \in Load
  BY SchedulingAssumption DEF SchedInv, TypeOK
<1>2. load.requests \subseteq Request
  BY <1>1 DEF Load
<1>3. IsFiniteSet(load.requests)
  BY <1>2, SchedulingAssumption, FS_Subset
<1>4. PICK q : load.requests = {q}
  BY <1>3, FS_Singleton DEF Serial
<1>5. load.requests = {r}
  BY <1>4
<1>6. QED
  BY <1>2, <1>5 DEF SchedInv

\* A handler that is idle has read nothing.
LEMMA IdleIsReady ==
    ASSUME NEW f, NEW K, NEW S
    PROVE  Ready("idle", f, K, S)
BY DEF Ready, ReadyToCreate, ReadyToUpdate, ReadyToWrite, ReadyToAssign

\* A step of the one request in flight.
LEMMA MovesBooked ==
    ASSUME SchedInv, Serial, NEW r \in load.requests, NEW p, NEW f, Goto(r, p, f),
           ClassFree(schedules'), TeacherFree(class', schedules'),
           Ready(p, f, class', schedules')
    PROVE  Booked'
<1>1. r \in Request /\ \A q \in Request \ {r} : pc[q] = "idle"
  BY OthersAreIdle
<1>2. /\ pc'[r] = p /\ loc'[r] = f
      /\ \A q \in Request \ {r} : pc'[q] = "idle"
  BY <1>1, GotoMoves DEF SchedInv
<1>3. \A q \in Request \ {r} : Ready(pc'[q], loc'[q], class', schedules')
  BY <1>2, IdleIsReady
<1>4. \A q \in Request : Ready(pc'[q], loc'[q], class', schedules')
  BY <1>2, <1>3
<1>5. QED
  BY <1>4 DEF Booked

\* In particular one that only goes on, and one that ends it.
LEMMA AwaitBooked ==
    ASSUME SchedInv, Serial, Booked, NEW r \in load.requests, NEW p, NEW f, Goto(r, p, f),
           UNCHANGED <<class, schedules>>, Ready(p, f, class, schedules)
    PROVE  Booked'
<1>1. class' = class /\ schedules' = schedules
  OBVIOUS
<1>2. ClassFree(schedules) /\ TeacherFree(class, schedules)
  BY DEF Booked
<1>3. QED
  BY <1>1, <1>2, MovesBooked

LEMMA FinishBooked ==
    ASSUME SchedInv, Serial, NEW r \in load.requests, Finish(r),
           ClassFree(schedules'), TeacherFree(class', schedules')
    PROVE  Booked'
<1>1. Goto(r, "idle", NoFrame)
  BY DEF Finish
<1>2. QED
  BY <1>1, IdleIsReady, MovesBooked


\* The endpoints begin with what they read.
LEMMA CallsBooked ==
    ASSUME SchedInv, Serial, Booked, NEW r \in Request,
           \/ \E c \in load.classes, new \in Lists : CreateReadClass(r, c, new)
           \/ \E row \in schedules : \/ RemoveReadRow(r, row)
                                     \/ \E w \in Window : UpdateReadRow(r, row, w)
           \/ \E c \in load.classes, t \in load.teachers \cup {NoTeacher} :
                TeacherReadClass(r, c, t)
    PROVE  Booked'
<1>1. ASSUME NEW c \in load.classes, NEW new \in Lists, CreateReadClass(r, c, new)
      PROVE  Booked'
  <2>1. PICK f : f = [cls |-> c, teacher |-> class[c].teacher, new |-> new]
    OBVIOUS
  <2>2. /\ Goto(r, "own", f) /\ r \in load.requests /\ UNCHANGED <<class, schedules>>
        /\ \A w, v \in new : w # v => ~WindowsClash(w, v)
    BY <1>1, <2>1 DEF CreateReadClass, Called
  <2>3. f.cls = c /\ f.teacher = class[c].teacher /\ f.new = new
    BY <2>1
  <2>4. Ready("own", f, class, schedules)
    BY <2>2, <2>3 DEF Ready, ReadyToCreate, ReadyToUpdate, ReadyToWrite, ReadyToAssign
  <2>5. QED
    BY <2>2, <2>4, AwaitBooked
<1>2. ASSUME NEW row \in schedules, RemoveReadRow(r, row) PROVE Booked'
  <2>1. PICK f : f = [row |-> row]
    OBVIOUS
  <2>2. Goto(r, "removable", f) /\ r \in load.requests /\ UNCHANGED <<class, schedules>>
    BY <1>2, <2>1 DEF RemoveReadRow, Called
  <2>3. Ready("removable", f, class, schedules)
    BY DEF Ready, ReadyToCreate, ReadyToUpdate, ReadyToWrite, ReadyToAssign
  <2>4. QED
    BY <2>2, <2>3, AwaitBooked
<1>3. ASSUME NEW row \in schedules, NEW w \in Window, UpdateReadRow(r, row, w)
      PROVE  Booked'
  <2>1. PICK f : f = [row |-> row, win |-> w]
    OBVIOUS
  <2>2. Goto(r, "editable", f) /\ r \in load.requests /\ UNCHANGED <<class, schedules>>
    BY <1>3, <2>1 DEF UpdateReadRow, Called
  <2>3. f.row = row
    BY <2>1
  <2>4. Ready("editable", f, class, schedules)
    BY <2>3 DEF Ready, ReadyToCreate, ReadyToUpdate, ReadyToWrite, ReadyToAssign
  <2>5. QED
    BY <2>2, <2>4, AwaitBooked
<1>4. ASSUME NEW c \in load.classes, NEW t \in load.teachers \cup {NoTeacher},
             TeacherReadClass(r, c, t)
      PROVE  Booked'
  <2>1. PICK entity : entity = [class[c] EXCEPT !.teacher = t]
    OBVIOUS
  <2>2. PICK f : f = [cls |-> c, entity |-> entity]
    OBVIOUS
  <2>3. /\ \/ t = NoTeacher /\ Goto(r, "assign", f)
           \/ Goto(r, "load", f)
        /\ r \in load.requests /\ UNCHANGED <<class, schedules>>
    BY <1>4, <2>1, <2>2 DEF TeacherReadClass, Called
  <2>4. class[c] \in ClassRow
    BY DEF SchedInv, TypeOK
  <2>5. f.entity.teacher = t
    BY <2>1, <2>2, <2>4 DEF ClassRow
  <2>6. /\ t = NoTeacher => Ready("assign", f, class, schedules)
        /\ Ready("load", f, class, schedules)
    BY <2>5 DEF Ready, ReadyToCreate, ReadyToUpdate, ReadyToWrite, ReadyToAssign
  <2>7. QED
    BY <2>3, <2>6, AwaitBooked
<1>5. QED
  BY <1>1, <1>2, <1>3, <1>4

\* The checks of a create find that what it will insert does not clash.
LEMMA CreateChecksBooked ==
    ASSUME SchedInv, Serial, Booked, NEW r \in load.requests,
           CreateCheckClass(r) \/ CreateCheckTeacher(r)
    PROVE  Booked'
<1>1. /\ ClassFree(schedules) /\ TeacherFree(class, schedules)
      /\ Ready(pc[r], loc[r], class, schedules)
  BY OthersAreIdle DEF Booked
<1>2. ASSUME Finish(r), UNCHANGED <<class, schedules>> PROVE Booked'
  BY <1>1, <1>2, FinishBooked
<1>3. CASE CreateCheckClass(r)
  <2>1. /\ pc[r] = "own" /\ UNCHANGED <<class, schedules>>
        /\ \/ Finish(r)
           \/ /\ Goto(r, "others", loc[r])
              /\ \A w \in loc[r].new, row \in schedules :
                   row.cls = loc[r].cls => ~RowClash(w, row)
    BY <1>3 DEF CreateCheckClass, OfClass
  <2>2. CASE /\ Goto(r, "others", loc[r])
             /\ \A w \in loc[r].new, row \in schedules :
                  row.cls = loc[r].cls => ~RowClash(w, row)
    <3>1. Ready("others", loc[r], class, schedules)
      BY <1>1, <2>1, <2>2
         DEF Ready, ReadyToCreate, ReadyToUpdate, ReadyToWrite, ReadyToAssign
    <3>2. QED
      BY <2>1, <2>2, <3>1, AwaitBooked
  <2>3. QED
    BY <1>2, <2>1, <2>2
<1>4. CASE CreateCheckTeacher(r)
  <2>1. /\ pc[r] = "others" /\ UNCHANGED <<class, schedules>>
        /\ \/ Finish(r)
           \/ /\ Goto(r, "insert", loc[r])
              /\ ~TeacherBusy(loc[r].teacher, loc[r].cls, loc[r].new, {})
    BY <1>4 DEF CreateCheckTeacher
  <2>2. CASE /\ Goto(r, "insert", loc[r])
             /\ ~TeacherBusy(loc[r].teacher, loc[r].cls, loc[r].new, {})
    <3>1. loc[r].teacher # NoTeacher =>
            \A w \in loc[r].new,
               row \in Elsewhere(loc[r].teacher, loc[r].cls, class, schedules) :
              ~RowClash(w, row)
      BY <2>2 DEF TeacherBusy, OfTeacherElsewhere, Elsewhere
    <3>2. Ready("insert", loc[r], class, schedules)
      BY <1>1, <2>1, <3>1
         DEF Ready, ReadyToCreate, ReadyToUpdate, ReadyToWrite, ReadyToAssign
    <3>3. QED
      BY <2>1, <2>2, <3>2, AwaitBooked
  <2>3. QED
    BY <1>2, <2>1, <2>2
<1>5. QED
  BY <1>3, <1>4

\* What an INSERT adds: one row for each window, of the class.
LEMMA InsertGoes ==
    ASSUME SchedInv, NEW r \in Request, CreateInsert(r)
    PROVE  /\ pc[r] = "insert" /\ Finish(r) /\ class' = class
           /\ loc[r].new \subseteq Window /\ loc[r].cls \in load.classes
           /\ \A x \in schedules' :
                /\ x \in ScheduleRow
                /\ \/ x \in schedules
                   \/ /\ x.cls = loc[r].cls
                      /\ \E w \in loc[r].new : /\ x.day = w.day /\ x.start = MinuteOf(w.start)
                                               /\ x.end = MinuteOf(w.end)
           /\ \A x, y \in schedules' :
                x # y /\ x \notin schedules /\ y \notin schedules =>
                  \E w, v \in loc[r].new :
                    /\ w # v
                    /\ x.day = w.day /\ x.start = MinuteOf(w.start) /\ x.end = MinuteOf(w.end)
                    /\ y.day = v.day /\ y.start = MinuteOf(v.start) /\ y.end = MinuteOf(v.end)
<1>1. pc[r] = "insert" /\ Finish(r) /\ class' = class
  BY DEF CreateInsert
<1>2. loc[r] \in FrameOf("insert") /\ Placed("insert", loc[r], load.classes)
  BY <1>1, Holds
<1>3. loc[r].new \subseteq Window /\ loc[r].cls \in load.classes
  <2>1. loc[r] \in CreateFrame
    BY <1>2, FrameTable
  <2>2. QED
    BY <1>2, <2>1 DEF CreateFrame, Placed, ClassPC
<1>4. PICK id \in [loc[r].new -> FreshId] :
        schedules' = schedules \cup
          {[id |-> id[w], cls |-> loc[r].cls, day |-> w.day,
            start |-> MinuteOf(w.start), end |-> MinuteOf(w.end)] : w \in loc[r].new}
  BY DEF CreateInsert
<1> DEFINE made(w) == [id |-> id[w], cls |-> loc[r].cls, day |-> w.day,
                       start |-> MinuteOf(w.start), end |-> MinuteOf(w.end)]
<1>5. \A w \in loc[r].new :
        /\ made(w).cls = loc[r].cls /\ made(w).day = w.day
        /\ made(w).start = MinuteOf(w.start) /\ made(w).end = MinuteOf(w.end)
  OBVIOUS
<1> HIDE DEF made
<1>6. schedules' = schedules \cup {made(w) : w \in loc[r].new}
  BY <1>4 DEF made
<1>7. SchedInv'
  BY CreateKeeps
<1>8. schedules' \subseteq ScheduleRow
  BY <1>7 DEF SchedInv, TypeOK
<1>9. \A x \in schedules' : x \in schedules \/ \E w \in loc[r].new : x = made(w)
  BY <1>6
<1>10. \A x \in schedules' :
         x \in schedules
           \/ /\ x.cls = loc[r].cls
              /\ \E w \in loc[r].new : /\ x.day = w.day /\ x.start = MinuteOf(w.start)
                                       /\ x.end = MinuteOf(w.end)
  BY <1>5, <1>9
<1>11. ASSUME NEW x \in schedules', NEW y \in schedules', x # y,
              x \notin schedules, y \notin schedules
       PROVE  \E w, v \in loc[r].new :
                /\ w # v
                /\ x.day = w.day /\ x.start = MinuteOf(w.start) /\ x.end = MinuteOf(w.end)
                /\ y.day = v.day /\ y.start = MinuteOf(v.start) /\ y.end = MinuteOf(v.end)
  <2>1. PICK w \in loc[r].new : x = made(w)
    BY <1>9, <1>11
  <2>2. PICK v \in loc[r].new : y = made(v)
    BY <1>9, <1>11
  <2>3. w # v
    BY <1>11, <2>1, <2>2
  <2>4. QED
    BY <1>5, <2>1, <2>2, <2>3
<1>12. QED
  BY <1>1, <1>3, <1>8, <1>10, <1>11


\* What a create inserts was compared with all that is there.
LEMMA InsertBooked ==
    ASSUME SchedInv, Serial, Booked, NEW r \in load.requests, CreateInsert(r)
    PROVE  Booked'
<1>1. r \in Request
  BY OthersAreIdle
<1>2. /\ pc[r] = "insert" /\ Finish(r) /\ class' = class
      /\ loc[r].new \subseteq Window /\ loc[r].cls \in load.classes
  BY <1>1, InsertGoes
<1>3. \A x \in schedules' :
        /\ x \in ScheduleRow
        /\ \/ x \in schedules
           \/ /\ x.cls = loc[r].cls
              /\ \E w \in loc[r].new : /\ x.day = w.day /\ x.start = MinuteOf(w.start)
                                       /\ x.end = MinuteOf(w.end)
  BY <1>1, InsertGoes
<1>4. /\ loc[r].teacher = class[loc[r].cls].teacher
      /\ \A w, v \in loc[r].new : w # v => ~WindowsClash(w, v)
      /\ \A w \in loc[r].new, row \in schedules : row.cls = loc[r].cls => ~RowClash(w, row)
      /\ loc[r].teacher # NoTeacher =>
           \A w \in loc[r].new, row \in Elsewhere(loc[r].teacher, loc[r].cls, class, schedules) :
             ~RowClash(w, row)
      /\ ClassFree(schedules) /\ TeacherFree(class, schedules)
  BY <1>1, <1>2 DEF Booked, Ready, ReadyToCreate
<1>5. schedules \subseteq ScheduleRow
  BY DEF SchedInv, TypeOK
<1>6. ASSUME NEW x \in schedules', x \notin schedules, NEW y \in schedules,
             y.cls = loc[r].cls
      PROVE  ~Overlap(x, y)
  <2>1. PICK w \in loc[r].new :
          x.day = w.day /\ x.start = MinuteOf(w.start) /\ x.end = MinuteOf(w.end)
    BY <1>3, <1>6
  <2>2. ~RowClash(w, y)
    BY <1>4, <1>6
  <2>3. QED
    BY <1>2, <1>5, <2>1, <2>2, OverlapClashes
<1>7. ASSUME NEW x \in schedules', x \notin schedules, NEW y \in schedules',
             y \notin schedules, x # y
      PROVE  ~Overlap(x, y)
  <2>1. PICK w \in loc[r].new, v \in loc[r].new :
          /\ w # v
          /\ x.day = w.day /\ x.start = MinuteOf(w.start) /\ x.end = MinuteOf(w.end)
          /\ y.day = v.day /\ y.start = MinuteOf(v.start) /\ y.end = MinuteOf(v.end)
    BY <1>1, <1>7, InsertGoes
  <2>2. ~WindowsClash(w, v)
    BY <1>4, <2>1
  <2>3. QED
    BY <1>2, <2>1, <2>2, WindowsOverlapClash
<1>8. ClassFree(schedules')
  <2>1. SUFFICES ASSUME NEW x \in schedules', NEW y \in schedules', x # y, x.cls = y.cls
                 PROVE  ~Overlap(x, y)
    BY DEF ClassFree
  <2>2. CASE x \in schedules /\ y \in schedules
    BY <1>4, <2>1, <2>2 DEF ClassFree
  <2>3. CASE x \notin schedules /\ y \in schedules
    BY <1>3, <1>6, <2>1, <2>3
  <2>4. CASE x \in schedules /\ y \notin schedules
    <3>1. ~Overlap(y, x)
      BY <1>3, <1>6, <2>1, <2>4
    <3>2. QED
      BY <1>3, <3>1, OverlapSymmetric
  <2>5. CASE x \notin schedules /\ y \notin schedules
    BY <1>7, <2>1, <2>5
  <2>6. QED
    BY <2>2, <2>3, <2>4, <2>5
<1>9. ASSUME NEW x \in schedules', x \notin schedules, NEW y \in schedules,
             x.cls # y.cls, class[x.cls].teacher = class[y.cls].teacher,
             class[x.cls].teacher # NoTeacher, class[y.cls].state # "CANCELLED"
      PROVE  ~Overlap(x, y)
  <2>1. PICK w \in loc[r].new :
          x.day = w.day /\ x.start = MinuteOf(w.start) /\ x.end = MinuteOf(w.end)
    BY <1>3, <1>9
  <2>2. x.cls = loc[r].cls
    BY <1>3, <1>9
  <2>3. y \in Elsewhere(loc[r].teacher, loc[r].cls, class, schedules)
    BY <1>4, <1>9, <2>2 DEF Elsewhere
  <2>4. ~RowClash(w, y)
    BY <1>4, <1>9, <2>2, <2>3
  <2>5. QED
    BY <1>2, <1>5, <2>1, <2>4, OverlapClashes
<1>10. TeacherFree(class, schedules')
  <2>1. SUFFICES ASSUME NEW x \in schedules', NEW y \in schedules', x.cls # y.cls,
                        class[x.cls].teacher = class[y.cls].teacher,
                        class[x.cls].teacher # NoTeacher,
                        class[x.cls].state # "CANCELLED", class[y.cls].state # "CANCELLED"
                 PROVE  ~Overlap(x, y)
    BY DEF TeacherFree
  <2>2. CASE x \in schedules /\ y \in schedules
    BY <1>4, <2>1, <2>2 DEF TeacherFree
  <2>3. CASE x \notin schedules /\ y \in schedules
    BY <1>9, <2>1, <2>3
  <2>4. CASE x \in schedules /\ y \notin schedules
    <3>1. ~Overlap(y, x)
      BY <1>9, <2>1, <2>4
    <3>2. QED
      BY <1>3, <3>1, OverlapSymmetric
  <2>5. CASE x \notin schedules /\ y \notin schedules
    BY <1>3, <2>1, <2>5
  <2>6. QED
    BY <2>2, <2>3, <2>4, <2>5
<1>11. TeacherFree(class', schedules')
  BY <1>2, <1>10
<1>12. QED
  BY <1>2, <1>8, <1>11, FinishBooked

\* The checks of an update find that the new window clashes with no other row.
LEMMA UpdateChecksBooked ==
    ASSUME SchedInv, Serial, Booked, NEW r \in load.requests,
           UpdateReadClass(r) \/ UpdateCheckClass(r) \/ UpdateCheckTeacher(r)
    PROVE  Booked'
<1>1. /\ ClassFree(schedules) /\ TeacherFree(class, schedules)
      /\ Ready(pc[r], loc[r], class, schedules)
  BY OthersAreIdle DEF Booked
<1>2. ASSUME Finish(r), UNCHANGED <<class, schedules>> PROVE Booked'
  BY <1>1, <1>2, FinishBooked
<1>3. CASE UpdateReadClass(r)
  <2>1. PICK f : f = [row |-> loc[r].row, cls |-> loc[r].row.cls,
                      teacher |-> class[loc[r].row.cls].teacher, new |-> {loc[r].win}]
    OBVIOUS
  <2>2. /\ pc[r] = "editable" /\ UNCHANGED <<class, schedules>>
        /\ Finish(r) \/ Goto(r, "ownBut", f)
    BY <1>3, <2>1 DEF UpdateReadClass
  <2>3. f.row = loc[r].row /\ f.cls = loc[r].row.cls /\ f.teacher = class[f.cls].teacher
    BY <2>1
  <2>4. Ready("ownBut", f, class, schedules)
    BY <1>1, <2>2, <2>3 DEF Ready, ReadyToCreate, ReadyToUpdate, ReadyToWrite, ReadyToAssign
  <2>5. QED
    BY <1>2, <2>2, <2>4, AwaitBooked
<1>4. CASE UpdateCheckClass(r)
  <2>1. /\ pc[r] = "ownBut" /\ UNCHANGED <<class, schedules>>
        /\ \/ Finish(r)
           \/ /\ Goto(r, "othersBut", loc[r])
              /\ \A w \in loc[r].new, row \in schedules :
                   row.cls = loc[r].cls /\ row.id # loc[r].row.id => ~RowClash(w, row)
    BY <1>4 DEF UpdateCheckClass, OfClass
  <2>2. CASE /\ Goto(r, "othersBut", loc[r])
             /\ \A w \in loc[r].new, row \in schedules :
                  row.cls = loc[r].cls /\ row.id # loc[r].row.id => ~RowClash(w, row)
    <3>1. Ready("othersBut", loc[r], class, schedules)
      BY <1>1, <2>1, <2>2
         DEF Ready, ReadyToCreate, ReadyToUpdate, ReadyToWrite, ReadyToAssign
    <3>2. QED
      BY <2>1, <2>2, <3>1, AwaitBooked
  <2>3. QED
    BY <1>2, <2>1, <2>2
<1>5. CASE UpdateCheckTeacher(r)
  <2>1. /\ pc[r] = "othersBut" /\ UNCHANGED <<class, schedules>>
        /\ \/ Finish(r)
           \/ /\ Goto(r, "save", loc[r])
              /\ ~TeacherBusy(loc[r].teacher, loc[r].cls, loc[r].new, {loc[r].row.id})
    BY <1>5 DEF UpdateCheckTeacher
  <2>2. CASE /\ Goto(r, "save", loc[r])
             /\ ~TeacherBusy(loc[r].teacher, loc[r].cls, loc[r].new, {loc[r].row.id})
    <3>1. loc[r].teacher # NoTeacher =>
            \A w \in loc[r].new,
               row \in Elsewhere(loc[r].teacher, loc[r].cls, class, schedules) :
              row.id # loc[r].row.id => ~RowClash(w, row)
      BY <2>2 DEF TeacherBusy, OfTeacherElsewhere, Elsewhere
    <3>2. Ready("save", loc[r], class, schedules)
      BY <1>1, <2>1, <3>1
         DEF Ready, ReadyToCreate, ReadyToUpdate, ReadyToWrite, ReadyToAssign
    <3>3. QED
      BY <2>1, <2>2, <3>2, AwaitBooked
  <2>3. QED
    BY <1>2, <2>1, <2>2
<1>6. QED
  BY <1>3, <1>4, <1>5


\* The SELECT of save finds the row as it was read, so the row with its new
\* window is what the UPDATE will make of it.
LEMMA SelectBooked ==
    ASSUME SchedInv, Serial, Booked, NEW r \in load.requests, UpdateSelect(r)
    PROVE  Booked'
<1>1. r \in Request /\ pc[r] = "save" /\ class' = class /\ schedules' = schedules
  <2>1. r \in Request
    BY OthersAreIdle
  <2>2. pc[r] = "save" /\ UNCHANGED <<load, class, schedules>>
    BY DEF UpdateSelect
  <2>3. QED
    BY <2>1, <2>2
<1>2. /\ Placed(pc[r], loc[r], load.classes) /\ schedules \subseteq ScheduleRow
      /\ \A x, y \in schedules : x.id = y.id => x = y
  BY <1>1 DEF SchedInv, TypeOK
<1>3. loc[r].row.cls = loc[r].cls
  BY <1>1, <1>2 DEF Placed
<1>4. /\ loc[r].row \in schedules /\ loc[r].teacher = class[loc[r].cls].teacher
      /\ \A w \in loc[r].new, row \in schedules :
           row.cls = loc[r].cls /\ row.id # loc[r].row.id => ~RowClash(w, row)
      /\ loc[r].teacher # NoTeacher =>
           \A w \in loc[r].new, row \in Elsewhere(loc[r].teacher, loc[r].cls, class, schedules) :
             row.id # loc[r].row.id => ~RowClash(w, row)
  BY <1>1 DEF Booked, Ready, ReadyToUpdate
<1>5. PICK w \in Window, new \in ScheduleRow :
        /\ loc[r].new = {w}
        /\ new.id = loc[r].row.id /\ new.cls = loc[r].row.cls
        /\ new.day = w.day /\ new.start = MinuteOf(w.start) /\ new.end = MinuteOf(w.end)
        /\ \E now \in schedules :
             /\ now.id = loc[r].row.id
             /\ Goto(r, "write", [row |-> new, dirty |->
                  {k \in {"day", "start", "end"} :
                     w[k] # IF k = "day" THEN now[k] ELSE Loaded(now[k])}])
  BY <1>1, <1>4, SelectGoes
<1>6. PICK now \in schedules :
        /\ now.id = loc[r].row.id
        /\ Goto(r, "write", [row |-> new, dirty |->
             {k \in {"day", "start", "end"} :
                w[k] # IF k = "day" THEN now[k] ELSE Loaded(now[k])}])
  BY <1>5
<1>7. PICK dirty : dirty = {k \in {"day", "start", "end"} :
                              w[k] # IF k = "day" THEN now[k] ELSE Loaded(now[k])}
  OBVIOUS
<1>8. PICK f : f = [row |-> new, dirty |-> dirty]
  OBVIOUS
<1>9. Goto(r, "write", f)
  BY <1>6, <1>7, <1>8
<1>10. f.row = new /\ f.dirty = dirty
  BY <1>8
<1>11. /\ "day" \in dirty \/ now.day = new.day
       /\ "start" \in dirty \/ now.start = new.start
       /\ "end" \in dirty \/ now.end = new.end
  <2>1. /\ "day" \notin dirty => w.day = now.day
        /\ "start" \notin dirty => w.start = Loaded(now.start)
        /\ "end" \notin dirty => w.end = Loaded(now.end)
    BY <1>7
  <2>2. now.start \in Int /\ now.end \in Int
    BY <1>2, MinutesAreNumbers DEF ScheduleRow
  <2>3. MinuteOf(Loaded(now.start)) = now.start /\ MinuteOf(Loaded(now.end)) = now.end
    BY <2>2 DEF MinuteOf, Loaded
  <2>4. QED
    BY <1>5, <2>1, <2>3
<1>12. \A x \in schedules : x.id = new.id => x = now
  BY <1>2, <1>5, <1>6
<1>13. ASSUME NEW row \in schedules, row.id # new.id, row.cls = new.cls
       PROVE  ~Overlap(new, row)
  <2>1. ~RowClash(w, row)
    BY <1>3, <1>4, <1>5, <1>13
  <2>2. QED
    BY <1>2, <1>5, <2>1, OverlapClashes
<1>14. ASSUME class[new.cls].teacher # NoTeacher,
              NEW row \in Elsewhere(class[new.cls].teacher, new.cls, class, schedules)
       PROVE  ~Overlap(new, row)
  <2>1. row \in schedules /\ row.cls # new.cls
    BY DEF Elsewhere
  <2>2. row.id # loc[r].row.id
    BY <1>2, <1>4, <1>5, <2>1
  <2>3. ~RowClash(w, row)
    BY <1>3, <1>4, <1>5, <1>14, <2>2
  <2>4. QED
    BY <1>2, <1>5, <2>1, <2>3, OverlapClashes
<1>15. Ready("write", f, class, schedules)
  BY <1>10, <1>11, <1>12, <1>13, <1>14
     DEF Ready, ReadyToCreate, ReadyToUpdate, ReadyToWrite, ReadyToAssign
<1>16. QED
  BY <1>1, <1>9, <1>15, AwaitBooked

\* What an update writes was compared with all other rows.
LEMMA WriteBooked ==
    ASSUME SchedInv, Serial, Booked, NEW r \in load.requests, UpdateWrite(r)
    PROVE  Booked'
<1>1. r \in Request /\ pc[r] = "write" /\ class' = class /\ Finish(r)
  BY OthersAreIdle DEF UpdateWrite
<1>2. /\ loc[r].row \in Rows /\ schedules \subseteq Rows /\ schedules \subseteq ScheduleRow
      /\ \A x, y \in Rows : x.id = y.id => x.cls = y.cls
  BY <1>1, Holds DEF SchedInv, RowPC
<1>3. /\ ClassFree(schedules) /\ TeacherFree(class, schedules)
      /\ \A now \in schedules : now.id = loc[r].row.id =>
           /\ "day" \in loc[r].dirty \/ now.day = loc[r].row.day
           /\ "start" \in loc[r].dirty \/ now.start = loc[r].row.start
           /\ "end" \in loc[r].dirty \/ now.end = loc[r].row.end
      /\ \A row \in schedules :
           row.id # loc[r].row.id /\ row.cls = loc[r].row.cls => ~Overlap(loc[r].row, row)
      /\ class[loc[r].row.cls].teacher # NoTeacher =>
           \A row \in Elsewhere(class[loc[r].row.cls].teacher, loc[r].row.cls, class, schedules) :
             ~Overlap(loc[r].row, row)
  BY <1>1 DEF Booked, Ready, ReadyToWrite
<1>4. \A x, y \in schedules' : x.id = y.id => x = y
  BY <1>1, WriteGoes
<1>5. ASSUME NEW x \in schedules'
      PROVE  /\ x \in ScheduleRow
             /\ x.id # loc[r].row.id => x \in schedules
             /\ x.id = loc[r].row.id =>
                  /\ x.cls = loc[r].row.cls /\ x.day = loc[r].row.day
                  /\ x.start = loc[r].row.start /\ x.end = loc[r].row.end
  <2>1. x \in ScheduleRow
    BY <1>1, WriteGoes
  <2>2. PICK now \in schedules :
          /\ x.id = now.id /\ x.cls = now.cls
          /\ now.id # loc[r].row.id => x = now
          /\ now.id = loc[r].row.id =>
               /\ x.day = IF "day" \in loc[r].dirty THEN loc[r].row.day ELSE now.day
               /\ x.start = IF "start" \in loc[r].dirty THEN loc[r].row.start ELSE now.start
               /\ x.end = IF "end" \in loc[r].dirty THEN loc[r].row.end ELSE now.end
    BY <1>1, WriteGoes
  <2>3. now.id = loc[r].row.id => now.cls = loc[r].row.cls
    BY <1>2
  <2>4. QED
    BY <1>3, <2>1, <2>2, <2>3
<1>6. ASSUME NEW x \in schedules', x.id = loc[r].row.id, NEW y
      PROVE  Overlap(x, y) <=> Overlap(loc[r].row, y)
  BY <1>5, <1>6 DEF Overlap
<1>7. ClassFree(schedules')
  <2>1. SUFFICES ASSUME NEW x \in schedules', NEW y \in schedules', x # y, x.cls = y.cls
                 PROVE  ~Overlap(x, y)
    BY DEF ClassFree
  <2>2. ASSUME NEW u \in schedules', NEW v \in schedules', u # v, u.cls = v.cls,
               u.id = loc[r].row.id
        PROVE  ~Overlap(u, v)
    <3>1. v.id # loc[r].row.id
      BY <1>4, <2>2
    <3>2. v \in schedules /\ v.cls = loc[r].row.cls
      BY <1>5, <2>2, <3>1
    <3>3. ~Overlap(loc[r].row, v)
      BY <1>3, <3>1, <3>2
    <3>4. QED
      BY <1>6, <2>2, <3>3
  <2>3. CASE x.id # loc[r].row.id /\ y.id # loc[r].row.id
    BY <1>3, <1>5, <2>1, <2>3 DEF ClassFree
  <2>4. CASE x.id = loc[r].row.id
    BY <2>1, <2>2, <2>4
  <2>5. CASE y.id = loc[r].row.id
    <3>1. ~Overlap(y, x)
      BY <2>1, <2>2, <2>5
    <3>2. QED
      BY <1>5, <3>1, OverlapSymmetric
  <2>6. QED
    BY <2>3, <2>4, <2>5
<1>8. TeacherFree(class, schedules')
  <2>1. SUFFICES ASSUME NEW x \in schedules', NEW y \in schedules', x.cls # y.cls,
                        class[x.cls].teacher = class[y.cls].teacher,
                        class[x.cls].teacher # NoTeacher,
                        class[x.cls].state # "CANCELLED", class[y.cls].state # "CANCELLED"
                 PROVE  ~Overlap(x, y)
    BY DEF TeacherFree
  <2>2. ASSUME NEW u \in schedules', NEW v \in schedules', u.cls # v.cls,
               class[u.cls].teacher = class[v.cls].teacher, class[u.cls].teacher # NoTeacher,
               class[v.cls].state # "CANCELLED", u.id = loc[r].row.id
        PROVE  ~Overlap(u, v)
    <3>1. v.id # loc[r].row.id /\ u.cls = loc[r].row.cls
      BY <1>4, <1>5, <2>2
    <3>2. v \in schedules
      BY <1>5, <3>1
    <3>3. v \in Elsewhere(class[loc[r].row.cls].teacher, loc[r].row.cls, class, schedules)
      BY <2>2, <3>1, <3>2 DEF Elsewhere
    <3>4. ~Overlap(loc[r].row, v)
      BY <1>3, <2>2, <3>1, <3>3
    <3>5. QED
      BY <1>6, <2>2, <3>4
  <2>3. CASE x.id # loc[r].row.id /\ y.id # loc[r].row.id
    BY <1>3, <1>5, <2>1, <2>3 DEF TeacherFree
  <2>4. CASE x.id = loc[r].row.id
    BY <2>1, <2>2, <2>4
  <2>5. CASE y.id = loc[r].row.id
    <3>1. ~Overlap(y, x)
      BY <2>1, <2>2, <2>5
    <3>2. QED
      BY <1>5, <3>1, OverlapSymmetric
  <2>6. QED
    BY <2>3, <2>4, <2>5
<1>9. TeacherFree(class', schedules')
  BY <1>1, <1>8
<1>10. QED
  BY <1>1, <1>7, <1>9, FinishBooked

\* No row is restored, and a removal makes no row clash.
LEMMA RemoveBooked ==
    ASSUME SchedInv, Serial, Booked, NEW r \in load.requests,
           UpdateRestore(r) \/ RemoveReadClass(r) \/ RemoveDelete(r)
    PROVE  Booked'
<1>1. /\ ClassFree(schedules) /\ TeacherFree(class, schedules)
      /\ pc[r] # "restore"
  BY OthersAreIdle DEF Booked, Ready, ReadyToUpdate
<1>2. CASE UpdateRestore(r)
  BY <1>1, <1>2 DEF UpdateRestore
<1>3. CASE RemoveReadClass(r)
  <2>1. /\ UNCHANGED <<class, schedules>>
        /\ Finish(r) \/ Goto(r, "delete", loc[r])
    BY <1>3 DEF RemoveReadClass
  <2>2. Ready("delete", loc[r], class, schedules)
    BY DEF Ready, ReadyToCreate, ReadyToUpdate, ReadyToWrite, ReadyToAssign
  <2>3. QED
    BY <1>1, <2>1, <2>2, AwaitBooked, FinishBooked
<1>4. CASE RemoveDelete(r)
  <2>1. Finish(r) /\ class' = class /\ schedules' \subseteq schedules
    BY <1>4 DEF RemoveDelete
  <2>2. ClassFree(schedules')
    BY <1>1, <2>1 DEF ClassFree
  <2>3. TeacherFree(class, schedules')
    BY <1>1, <2>1 DEF TeacherFree
  <2>4. TeacherFree(class', schedules')
    BY <2>1, <2>3
  <2>5. QED
    BY <2>1, <2>2, <2>4, FinishBooked
<1>5. QED
  BY <1>2, <1>3, <1>4


\* A new teacher is compared with the schedules of the class, all of which a
\* request alone has loaded.
LEMMA TeacherBooked ==
    ASSUME SchedInv, Serial, Booked, NEW r \in load.requests,
           TeacherLoad(r) \/ TeacherCompare(r) \/ AssignSelect(r)
    PROVE  Booked'
<1>1. /\ ClassFree(schedules) /\ TeacherFree(class, schedules)
      /\ Ready(pc[r], loc[r], class, schedules)
      /\ schedules \subseteq ScheduleRow
  BY OthersAreIdle DEF Booked, SchedInv, TypeOK
<1>2. ASSUME Finish(r), UNCHANGED <<class, schedules>> PROVE Booked'
  BY <1>1, <1>2, FinishBooked
<1>3. CASE TeacherLoad(r)
  <2>1. PICK f : f = [cls |-> loc[r].cls, entity |-> loc[r].entity, own |-> OfClass(loc[r].cls)]
    OBVIOUS
  <2>2. /\ UNCHANGED <<class, schedules>>
        /\ \/ OfClass(loc[r].cls) = {} /\ Goto(r, "assign", loc[r])
           \/ Goto(r, "compare", f)
    BY <1>3, <2>1 DEF TeacherLoad
  <2>3. f.cls = loc[r].cls /\ f.own = OfClass(loc[r].cls)
    BY <2>1
  <2>4. Ready("compare", f, class, schedules)
    BY <2>3 DEF Ready, ReadyToCreate, ReadyToUpdate, ReadyToWrite, ReadyToAssign, OfClass
  <2>5. OfClass(loc[r].cls) = {} => Ready("assign", loc[r], class, schedules)
    BY DEF Ready, ReadyToCreate, ReadyToUpdate, ReadyToWrite, ReadyToAssign, OfClass
  <2>6. QED
    BY <2>2, <2>4, <2>5, AwaitBooked
<1>4. CASE TeacherCompare(r)
  <2>1. PICK f : f = [cls |-> loc[r].cls, entity |-> loc[r].entity]
    OBVIOUS
  <2>2. /\ pc[r] = "compare" /\ UNCHANGED <<class, schedules>>
        /\ \/ Finish(r)
           \/ /\ Goto(r, "assign", f)
              /\ ~TeacherBusy(loc[r].entity.teacher, loc[r].cls,
                              {LoadedWindow(row) : row \in loc[r].own}, {})
    BY <1>4, <2>1 DEF TeacherCompare
  <2>3. CASE /\ Goto(r, "assign", f)
             /\ ~TeacherBusy(loc[r].entity.teacher, loc[r].cls,
                             {LoadedWindow(row) : row \in loc[r].own}, {})
    <3>1. f.cls = loc[r].cls /\ f.entity = loc[r].entity
      BY <2>1
    <3>2. \A x \in schedules : x.cls = f.cls => x \in loc[r].own
      BY <1>1, <2>2, <3>1 DEF Ready, ReadyToAssign
    <3>3. ASSUME f.entity.teacher # NoTeacher, NEW x \in schedules,
                 NEW y \in Elsewhere(f.entity.teacher, f.cls, class, schedules), x.cls = f.cls
          PROVE  ~Overlap(x, y)
      <4>1. y \in schedules /\ y \in OfTeacherElsewhere(loc[r].entity.teacher, loc[r].cls)
        BY <3>1 DEF Elsewhere, OfTeacherElsewhere
      <4>2. LoadedWindow(x) \in {LoadedWindow(row) : row \in loc[r].own}
        BY <3>2, <3>3
      <4>3. ~RowClash(LoadedWindow(x), y)
        BY <2>3, <3>1, <3>3, <4>1, <4>2 DEF TeacherBusy
      <4>4. QED
        BY <1>1, <4>1, <4>3, RowsOverlapClash
    <3>4. Ready("assign", f, class, schedules)
      BY <3>3 DEF Ready, ReadyToCreate, ReadyToUpdate, ReadyToWrite, ReadyToAssign
    <3>5. QED
      BY <2>2, <2>3, <3>4, AwaitBooked
  <2>4. QED
    BY <1>2, <2>2, <2>3
<1>5. CASE AssignSelect(r)
  <2>1. PICK dirty : dirty = {k \in {"teacher", "state"} :
                                loc[r].entity[k] # class[loc[r].cls][k]}
    OBVIOUS
  <2>2. PICK f : f = [cls |-> loc[r].cls, entity |-> loc[r].entity, dirty |-> dirty]
    OBVIOUS
  <2>3. pc[r] = "assign" /\ UNCHANGED <<class, schedules>> /\ Goto(r, "rewrite", f)
    BY <1>5, <2>1, <2>2 DEF AssignSelect
  <2>4. f.cls = loc[r].cls /\ f.entity = loc[r].entity /\ f.dirty = dirty
    BY <2>2
  <2>5. "teacher" \in dirty \/ loc[r].entity.teacher = class[loc[r].cls].teacher
    BY <2>1
  <2>6. Ready("rewrite", f, class, schedules)
    BY <1>1, <2>3, <2>4, <2>5
       DEF Ready, ReadyToCreate, ReadyToUpdate, ReadyToWrite, ReadyToAssign
  <2>7. QED
    BY <2>3, <2>6, AwaitBooked
<1>6. QED
  BY <1>3, <1>4, <1>5

\* The new teacher is not booked twice.
LEMMA AssignBooked ==
    ASSUME SchedInv, Serial, Booked, NEW r \in load.requests, AssignUpdate(r)
    PROVE  Booked'
<1>1. r \in Request
  BY OthersAreIdle
<1>2. pc[r] = "rewrite" /\ Finish(r) /\ schedules' = schedules
  BY DEF AssignUpdate
<1>3. /\ \A c \in load.classes : c # loc[r].cls => class'[c] = class[c]
      /\ class'[loc[r].cls].teacher =
           IF "teacher" \in loc[r].dirty
           THEN loc[r].entity.teacher ELSE class[loc[r].cls].teacher
  BY <1>1, AssignGoes
<1>4. /\ ClassFree(schedules) /\ TeacherFree(class, schedules)
      /\ "teacher" \in loc[r].dirty \/ loc[r].entity.teacher = class[loc[r].cls].teacher
      /\ loc[r].entity.teacher # NoTeacher =>
           \A x \in schedules,
              y \in Elsewhere(loc[r].entity.teacher, loc[r].cls, class, schedules) :
             x.cls = loc[r].cls => ~Overlap(x, y)
  BY <1>1, <1>2 DEF Booked, Ready, ReadyToAssign
<1>5. class'[loc[r].cls].teacher = loc[r].entity.teacher
  BY <1>3, <1>4
<1>6. \A x \in schedules : x \in ScheduleRow /\ x.cls \in load.classes
  BY <1>1, Holds
<1>7. TeacherFree(class', schedules)
  <2>1. SUFFICES ASSUME NEW x \in schedules, NEW y \in schedules, x.cls # y.cls,
                        class'[x.cls].teacher = class'[y.cls].teacher,
                        class'[x.cls].teacher # NoTeacher,
                        class'[x.cls].state # "CANCELLED", class'[y.cls].state # "CANCELLED"
                 PROVE  ~Overlap(x, y)
    BY DEF TeacherFree
  <2>2. ASSUME NEW u \in schedules, NEW v \in schedules, u.cls = loc[r].cls, v.cls # u.cls,
               class'[u.cls].teacher = class'[v.cls].teacher,
               class'[u.cls].teacher # NoTeacher, class'[v.cls].state # "CANCELLED"
        PROVE  ~Overlap(u, v)
    <3>1. class'[v.cls] = class[v.cls]
      BY <1>3, <1>6, <2>2
    <3>2. v \in Elsewhere(loc[r].entity.teacher, loc[r].cls, class, schedules)
      BY <1>5, <2>2, <3>1 DEF Elsewhere
    <3>3. QED
      BY <1>4, <1>5, <2>2, <3>2
  <2>3. CASE x.cls = loc[r].cls
    BY <2>1, <2>2, <2>3
  <2>4. CASE y.cls = loc[r].cls
    <3>1. ~Overlap(y, x)
      BY <2>1, <2>2, <2>4
    <3>2. QED
      BY <1>6, <3>1, OverlapSymmetric
  <2>5. CASE x.cls # loc[r].cls /\ y.cls # loc[r].cls
    <3>1. class'[x.cls] = class[x.cls] /\ class'[y.cls] = class[y.cls]
      BY <1>3, <1>6, <2>5
    <3>2. QED
      BY <1>4, <2>1, <3>1 DEF TeacherFree
  <2>6. QED
    BY <2>3, <2>4, <2>5
<1>8. ClassFree(schedules') /\ TeacherFree(class', schedules')
  BY <1>2, <1>4, <1>7
<1>9. QED
  BY <1>2, <1>8, FinishBooked

\* Another state of a class: teachers keep their classes, and a class that is
\* cancelled stays so.
LEMMA StateBooked ==
    ASSUME SchedInv, Booked,
           NEW c \in load.classes, NEW state \in {"ACTIVE", "INACTIVE", "CANCELLED"},
           ClassSetState(c, state)
    PROVE  Booked'
<1>1. UNCHANGED <<schedules, pc, loc>>
  BY DEF ClassSetState
<1>2. /\ \A d \in load.classes : class'[d].teacher = class[d].teacher
      /\ \A d \in load.classes : class[d].state = "CANCELLED" => class'[d].state = "CANCELLED"
  BY StateGoes DEF SchedInv
<1>3. \A x \in schedules : x.cls \in load.classes
  BY DEF SchedInv
<1>4. \A t, d : Elsewhere(t, d, class', schedules) \subseteq Elsewhere(t, d, class, schedules)
  BY <1>2, <1>3 DEF Elsewhere
<1>5. TeacherFree(class', schedules)
  BY <1>2, <1>3 DEF Booked, TeacherFree
<1>6. ASSUME NEW r \in Request PROVE Ready(pc[r], loc[r], class', schedules)
  <2>1. Placed(pc[r], loc[r], load.classes) /\ Ready(pc[r], loc[r], class, schedules)
    BY DEF SchedInv, Booked
  <2>2. /\ pc[r] \in ClassPC => class'[loc[r].cls].teacher = class[loc[r].cls].teacher
        /\ pc[r] \in RowPC => class'[loc[r].row.cls].teacher = class[loc[r].row.cls].teacher
    BY <1>2, <2>1 DEF Placed
  <2>3. ReadyToCreate(pc[r], loc[r], class', schedules)
    BY <1>4, <2>1, <2>2 DEF Ready, ReadyToCreate, ClassPC
  <2>4. ReadyToUpdate(pc[r], loc[r], class', schedules)
    BY <1>4, <2>1, <2>2 DEF Ready, ReadyToUpdate, ClassPC
  <2>5. ReadyToWrite(pc[r], loc[r], class', schedules)
    BY <1>4, <2>1, <2>2 DEF Ready, ReadyToWrite, RowPC
  <2>6. ReadyToAssign(pc[r], loc[r], class', schedules)
    BY <1>4, <2>1, <2>2 DEF Ready, ReadyToAssign, ClassPC
  <2>7. QED
    BY <2>3, <2>4, <2>5, <2>6 DEF Ready
<1>7. QED
  BY <1>1, <1>5, <1>6 DEF Booked

\* Requests one at a time and what they have read, with no row overlapping.
SerialInv == Serial => Booked

\* A step goes on with a request that has begun, and with the same load.
LEMMA StepGoesOn ==
    ASSUME NEW r \in Request, Step(r)
    PROVE  pc[r] # "idle" /\ load' = load
<1>1. CASE CreateCheckClass(r) \/ CreateCheckTeacher(r) \/ CreateInsert(r)
  BY <1>1 DEF CreateCheckClass, CreateCheckTeacher, CreateInsert
<1>2. CASE UpdateReadClass(r) \/ UpdateCheckClass(r) \/ UpdateCheckTeacher(r)
  BY <1>2 DEF UpdateReadClass, UpdateCheckClass, UpdateCheckTeacher
<1>3. CASE UpdateSelect(r)
  BY <1>3 DEF UpdateSelect
<1>4. CASE UpdateWrite(r) \/ UpdateRestore(r)
  BY <1>4 DEF UpdateWrite, UpdateRestore
<1>5. CASE RemoveReadClass(r) \/ RemoveDelete(r)
  BY <1>5 DEF RemoveReadClass, RemoveDelete
<1>6. CASE TeacherLoad(r) \/ TeacherCompare(r)
  BY <1>6 DEF TeacherLoad, TeacherCompare
<1>7. CASE AssignSelect(r) \/ AssignUpdate(r)
  BY <1>7 DEF AssignSelect, AssignUpdate
<1>8. QED
  BY <1>1, <1>2, <1>3, <1>4, <1>5, <1>6, <1>7 DEF Step

\* No step chooses another load.
LEMMA LoadStays ==
    ASSUME [Next]_vars
    PROVE  load' = load
<1>1. ASSUME NEW r \in Request, Step(r) \/ Abandon(r) PROVE load' = load
  BY <1>1, StepGoesOn DEF Abandon
<1>2. ASSUME NEW r \in Request,
             \/ \E c \in load.classes, new \in Lists : CreateReadClass(r, c, new)
             \/ \E row \in schedules : \/ RemoveReadRow(r, row)
                                       \/ \E w \in Window : UpdateReadRow(r, row, w)
             \/ \E c \in load.classes, t \in load.teachers \cup {NoTeacher} :
                  TeacherReadClass(r, c, t)
      PROVE  load' = load
  BY <1>2 DEF CreateReadClass, RemoveReadRow, UpdateReadRow, TeacherReadClass
<1>3. ASSUME NEW c \in load.classes, NEW state \in {"ACTIVE", "INACTIVE", "CANCELLED"},
             ClassSetState(c, state)
      PROVE  load' = load
  BY <1>3 DEF ClassSetState
<1>4. QED
  BY <1>1, <1>2, <1>3 DEF Next, vars

\* Every step keeps that.
LEMMA SerialStep ==
    SchedInv /\ SerialInv /\ [Next]_vars => SerialInv'
<1>1. SUFFICES ASSUME SchedInv, Serial, Booked, [Next]_vars PROVE Booked'
  BY LoadStays DEF SerialInv, Serial
<1>2. ASSUME NEW r \in Request, Step(r) PROVE Booked'
  <2>1. pc[r] # "idle"
    BY <1>2, StepGoesOn
  <2>2. r \in load.requests
    BY <1>1, <2>1, Holds
  <2>3. QED
    BY <1>1, <1>2, <2>2, CreateChecksBooked, InsertBooked, UpdateChecksBooked, SelectBooked,
       WriteBooked, RemoveBooked, TeacherBooked, AssignBooked DEF Step
<1>3. ASSUME NEW r \in Request, Abandon(r) PROVE Booked'
  <2>1. pc[r] # "idle" /\ Finish(r) /\ class' = class /\ schedules' = schedules
    BY <1>3 DEF Abandon
  <2>2. r \in load.requests
    BY <1>1, <2>1, Holds
  <2>3. ClassFree(schedules') /\ TeacherFree(class', schedules')
    BY <1>1, <2>1 DEF Booked
  <2>4. QED
    BY <1>1, <2>1, <2>2, <2>3, FinishBooked
<1>4. ASSUME NEW r \in Request,
             \/ \E c \in load.classes, new \in Lists : CreateReadClass(r, c, new)
             \/ \E row \in schedules : \/ RemoveReadRow(r, row)
                                       \/ \E w \in Window : UpdateReadRow(r, row, w)
             \/ \E c \in load.classes, t \in load.teachers \cup {NoTeacher} :
                  TeacherReadClass(r, c, t)
      PROVE  Booked'
  BY <1>1, <1>4, CallsBooked
<1>5. ASSUME NEW c \in load.classes, NEW state \in {"ACTIVE", "INACTIVE", "CANCELLED"},
             ClassSetState(c, state)
      PROVE  Booked'
  BY <1>1, <1>5, StateBooked
<1>6. CASE UNCHANGED vars
  BY <1>1, <1>6 DEF vars, Booked
<1>7. QED
  BY <1>1, <1>2, <1>3, <1>4, <1>5, <1>6 DEF Next

\* Without schedules nothing overlaps.
LEMMA SerialInit ==
    Init => SerialInv
BY IdleIsReady DEF Init, SerialInv, Booked, ClassFree, TeacherFree

\* One request at a time, the schedules of one class never overlap, however
\* times are spelled and whatever the handlers are asked for.
THEOREM NoClassOverlapHolds == Spec => []NoClassOverlap
<1>1. SerialInv => NoClassOverlap
  BY DEF SerialInv, Booked, ClassFree, NoClassOverlap
<1>2. QED
  BY <1>1, SchedInit, SchedStep, SerialInit, SerialStep, PTL DEF Spec

\* One request at a time, no teacher is booked twice: not by a schedule, nor by
\* the class that gets another teacher.
THEOREM NoDoubleBookingHolds == Spec => []NoDoubleBooking
<1>1. SerialInv => NoDoubleBooking
  BY DEF SerialInv, Booked, TeacherFree, NoDoubleBooking
<1>2. QED
  BY <1>1, SchedInit, SchedStep, SerialInit, SerialStep, PTL DEF Spec


=============================================================================
