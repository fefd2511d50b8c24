--------------------------- MODULE AttendanceProofs ---------------------------
(***************************************************************************)
(* Theorems about Attendance for every set of requests, users and students *)
(* and for sheets of any length.                                           *)
(***************************************************************************)
EXTENDS Attendance, SequenceTheorems, TLAPS

(***************************************************************************)
(* Transactions and rows                                                   *)
(***************************************************************************)

Writing == {"check", "find", "insert", "select", "update"}

\* A request that is being handled has been sent by somebody.
HasUser == \A r \in Request : pc[r] \in Writing => user[r] \in User

\* What is written and not committed is locked by its writer.
WritesLocked ==
    \A r \in Request, s \in Student : written[r][s] # NoMark => lock[s] = r

\* A row that was found stays: no transaction takes a row away.
RowFound ==
    \A r \in Request : pc[r] \in {"select", "update"} => Visible(r, Current(r)) # NoMark

SheetInv == TypeOK /\ HasUser /\ WritesLocked /\ RowFound

\* The record that the handler is at.
LEMMA CurrentRecord ==
    ASSUME TypeOK, NEW r \in Request, RecordLeft(r)
    PROVE  /\ at[r] \in DOMAIN records[r]
           /\ records[r][at[r]] \in Record
           /\ Current(r) \in Student
           /\ user[r] \in User => Entity(r) \in Mark
<1>1. records[r] \in Seq(Record) /\ at[r] \in Nat \ {0}
  BY DEF TypeOK
<1>2. at[r] \in 1..Len(records[r])
  BY <1>1 DEF RecordLeft
<1>3. records[r][at[r]] \in Record /\ at[r] \in DOMAIN records[r]
  BY <1>1, <1>2, ElementOfSeq
<1>4. QED
  BY <1>3 DEF Current, Entity, Record, Mark

\* What a request sees of a row, once it is there, is a row.
LEMMA VisibleRow ==
    ASSUME TypeOK, NEW r \in Request, NEW s \in Student
    PROVE  Visible(r, s) \in Mark \cup {NoMark}
BY DEF TypeOK, Visible

\* What an UPDATE makes of a row is a row.
LEMMA UpdatedRow ==
    ASSUME SheetInv, NEW r \in Request, pc[r] = "update"
    PROVE  Updated(r) \in Mark
<1>1. RecordLeft(r) /\ user[r] \in User /\ Visible(r, Current(r)) # NoMark
  BY DEF SheetInv, TypeOK, HasUser, RowFound, Writing
<1>2. Entity(r) \in Mark /\ Current(r) \in Student
  BY <1>1, CurrentRecord DEF SheetInv
<1>3. Visible(r, Current(r)) \in Mark
  BY <1>1, <1>2, VisibleRow DEF SheetInv
<1>4. QED
  BY <1>2, <1>3 DEF Updated, Mark

\* What writing a row changes.
LEMMA WriteChanges ==
    ASSUME TypeOK, NEW r \in Request, RecordLeft(r), NEW m \in Mark, Write(r, m)
    PROVE  /\ Current(r) \in Student
           /\ \A q \in Request, s \in Student :
                written'[q][s] = IF q = r /\ s = Current(r) THEN m ELSE written[q][s]
           /\ \A s \in Student : lock'[s] = IF s = Current(r) THEN r ELSE lock[s]
           /\ \A q \in Request :
                /\ pc'[q] = IF q = r THEN "find" ELSE pc[q]
                /\ at'[q] = IF q = r THEN at[q] + 1 ELSE at[q]
                /\ dirty'[q] = IF q = r THEN {} ELSE dirty[q]
                /\ q # r => written'[q] = written[q]
           /\ UNCHANGED <<enrolled, attendance, user, records>>
<1>1. Current(r) \in Student
  BY CurrentRecord
<1>2. QED
  BY <1>1 DEF Write, Goto, TypeOK, request

\* Writing a row that is free.
LEMMA WriteKeeps ==
    ASSUME SheetInv, NEW r \in Request, RecordLeft(r), pc[r] \in {"insert", "update"},
           NEW m \in Mark, Free(r, Current(r)), Write(r, m)
    PROVE  SheetInv'
<1> DEFINE c == Current(r)
<1>1. /\ c \in Student
      /\ \A q \in Request, s \in Student :
           written'[q][s] = IF q = r /\ s = c THEN m ELSE written[q][s]
      /\ \A s \in Student : lock'[s] = IF s = c THEN r ELSE lock[s]
      /\ \A q \in Request :
           /\ pc'[q] = IF q = r THEN "find" ELSE pc[q]
           /\ at'[q] = IF q = r THEN at[q] + 1 ELSE at[q]
           /\ q # r => written'[q] = written[q]
      /\ UNCHANGED <<enrolled, attendance, user, records>>
  BY WriteChanges DEF SheetInv
<1>2. \A q \in Request \ {r} : lock[c] # q
  BY AttendanceAssumption DEF Free
<1>3. TypeOK'
  <2>1. /\ written' \in [Request -> [Student -> Mark \cup {NoMark}]]
        /\ lock' \in [Student -> Request \cup {Nobody}]
    BY <1>1 DEF Write, SheetInv, TypeOK
  <2>2. /\ pc' \in [Request -> PC] /\ at' \in [Request -> Nat \ {0}]
        /\ dirty' \in [Request -> SUBSET Column]
    BY DEF Write, Goto, SheetInv, TypeOK, PC, InTransaction
  <2>3. ASSUME NEW q \in Request, pc'[q] \in {"insert", "select", "update"}
        PROVE  RecordLeft(q)'
    BY <1>1, <2>3 DEF SheetInv, TypeOK, RecordLeft
  <2>4. ASSUME NEW q \in Request, pc'[q] \notin InTransaction
        PROVE  written'[q] = NothingWritten' /\ \A s \in Student : lock'[s] # q
    <3>1. q # r /\ pc'[q] = pc[q]
      BY <1>1, <2>4 DEF InTransaction
    <3>2. QED
      BY <1>1, <1>2, <2>4, <3>1 DEF SheetInv, TypeOK, NothingWritten
  <2>5. QED
    BY <1>1, <2>1, <2>2, <2>3, <2>4 DEF SheetInv, TypeOK
<1>4. HasUser'
  BY <1>1 DEF SheetInv, HasUser, Writing
<1>5. WritesLocked'
  <2> SUFFICES ASSUME NEW q \in Request, NEW s \in Student, written'[q][s] # NoMark
               PROVE  lock'[s] = q
    BY DEF WritesLocked
  <2>1. CASE q = r /\ s = c
    BY <1>1, <2>1
  <2>2. CASE ~(q = r /\ s = c)
    <3>1. written[q][s] # NoMark
      BY <1>1, <2>2
    <3>2. lock[s] = q
      BY <3>1 DEF SheetInv, WritesLocked
    <3>3. QED
      BY <1>1, <1>2, <2>2, <3>2
  <2>3. QED
    BY <2>1, <2>2
<1>6. RowFound'
  BY <1>1 DEF SheetInv, RowFound, Visible, Current
<1>7. QED
  BY <1>3, <1>4, <1>5, <1>6 DEF SheetInv

\* The tables, and the transactions that are open on them.
data == <<enrolled, attendance, written, lock>>

\* A step of a handler that goes on to another statement and writes no row.
LEMMA ReadKeeps ==
    ASSUME SheetInv, NEW r \in Request, NEW p \in PC, Goto(r, p),
           UNCHANGED <<data, request, at>>,
           dirty' \in [Request -> SUBSET Column],
           p \in InTransaction \/ pc[r] \notin InTransaction,
           p \in Writing => pc[r] \in Writing,
           p \in {"insert", "select", "update"} => RecordLeft(r),
           p \in {"select", "update"} => Visible(r, Current(r)) # NoMark
    PROVE  SheetInv'
<1>1. \A q \in Request : pc'[q] = IF q = r THEN p ELSE pc[q]
  BY DEF Goto, SheetInv, TypeOK
<1>2. TypeOK'
  <2>1. pc' \in [Request -> PC]
    BY DEF Goto, SheetInv, TypeOK
  <2>2. \A q \in Request : pc'[q] \notin InTransaction => pc[q] \notin InTransaction
    BY <1>1
  <2>3. \A q \in Request : pc'[q] \in {"insert", "select", "update"} => RecordLeft(q)'
    BY <1>1 DEF SheetInv, TypeOK, RecordLeft, request
  <2>4. QED
    BY <2>1, <2>2, <2>3 DEF data, request, SheetInv, TypeOK, NothingWritten
<1>3. WritesLocked' /\ HasUser'
  BY <1>1 DEF data, request, SheetInv, WritesLocked, HasUser
<1>4. RowFound'
  BY <1>1 DEF data, request, SheetInv, RowFound, Visible, Current
<1>5. QED
  BY <1>2, <1>3, <1>4 DEF SheetInv

\* The end of a transaction keeps the invariant if no row goes away.
LEMMA EndKeeps ==
    ASSUME SheetInv, NEW r \in Request, NEW p \in {"idle", "failed", "summary"},
           Goto(r, p), Forget(r), Release(r),
           written' = [written EXCEPT ![r] = NothingWritten], UNCHANGED enrolled,
           attendance' \in [Student -> Mark \cup {NoMark}],
           \A s \in Student : attendance[s] # NoMark => attendance'[s] # NoMark
    PROVE  SheetInv'
<1>1. /\ \A q \in Request :
           /\ pc'[q] = IF q = r THEN p ELSE pc[q]
           /\ written'[q] = IF q = r THEN NothingWritten ELSE written[q]
           /\ q # r => /\ user'[q] = user[q] /\ records'[q] = records[q]
                       /\ at'[q] = at[q] /\ dirty'[q] = dirty[q]
      /\ \A s \in Student : lock'[s] = IF lock[s] = r THEN Nobody ELSE lock[s]
  BY DEF Goto, Forget, Release, SheetInv, TypeOK
<1>2. TypeOK'
  <2>1. /\ pc' \in [Request -> PC]
        /\ written' \in [Request -> [Student -> Mark \cup {NoMark}]]
        /\ lock' \in [Student -> Request \cup {Nobody}]
    BY DEF Goto, Release, SheetInv, TypeOK, PC, NothingWritten
  <2>2. /\ user' \in [Request -> User \cup {Nobody}]
        /\ at' \in [Request -> Nat \ {0}] /\ dirty' \in [Request -> SUBSET Column]
    BY DEF Forget, SheetInv, TypeOK
  <2>3. records' \in [Request -> Seq(Record)]
    BY DEF Forget, SheetInv, TypeOK
  <2>4. ASSUME NEW q \in Request, pc'[q] \in {"insert", "select", "update"}
        PROVE  RecordLeft(q)'
    BY <1>1, <2>4 DEF SheetInv, TypeOK, RecordLeft
  <2>5. ASSUME NEW q \in Request, pc'[q] \notin InTransaction
        PROVE  written'[q] = NothingWritten' /\ \A s \in Student : lock'[s] # q
    <3>1. CASE q = r
      BY <1>1, <3>1, AttendanceAssumption DEF NothingWritten
    <3>2. CASE q # r
      BY <1>1, <2>5, <3>2, AttendanceAssumption DEF SheetInv, TypeOK, NothingWritten
    <3>3. QED
      BY <3>1, <3>2
  <2>6. QED
    BY <2>1, <2>2, <2>3, <2>4, <2>5 DEF SheetInv, TypeOK
<1>3. WritesLocked'
  BY <1>1 DEF SheetInv, WritesLocked, NothingWritten
<1>4. HasUser'
  BY <1>1 DEF SheetInv, HasUser, Writing
<1>5. RowFound'
  <2> SUFFICES ASSUME NEW q \in Request, pc'[q] \in {"select", "update"}
               PROVE  Visible(q, Current(q))' # NoMark
    BY DEF RowFound
  <2>1. /\ q # r /\ pc[q] \in {"select", "update"} /\ written'[q] = written[q]
        /\ Current(q)' = Current(q)
    BY <1>1 DEF Current
  <2>2. Current(q) \in Student
    BY <2>1, CurrentRecord DEF SheetInv, TypeOK
  <2>3. Visible(q, Current(q)) # NoMark
    BY <2>1 DEF SheetInv, RowFound
  <2>4. QED
    BY <2>1, <2>2, <2>3 DEF Visible
<1>6. QED
  BY <1>2, <1>3, <1>4, <1>5 DEF SheetInv

\* A rollback changes no row.
LEMMA RollbackKeeps ==
    ASSUME SheetInv, NEW r \in Request, NEW p \in {"idle", "failed"}, Rollback(r, p)
    PROVE  SheetInv'
BY EndKeeps DEF Rollback, SheetInv, TypeOK

\* COMMIT: what the transaction wrote becomes everybody's.
LEMMA CommitKeeps ==
    ASSUME SheetInv, NEW r \in Request, Commit(r)
    PROVE  SheetInv'
<1>1. \A s \in Student : Visible(r, s) \in Mark \cup {NoMark}
  BY VisibleRow DEF SheetInv
<1>2. /\ attendance' \in [Student -> Mark \cup {NoMark}]
      /\ \A s \in Student : attendance[s] # NoMark => attendance'[s] # NoMark
  BY <1>1 DEF Commit, Visible
<1>3. QED
  BY <1>2, EndKeeps DEF Commit

\* Before any request nothing is written or locked.
LEMMA InitSheet == Init => SheetInv
BY AttendanceAssumption DEF Init, SheetInv, TypeOK, HasUser, WritesLocked, RowFound,
   PC, NothingWritten, Writing

\* The steps of a handler keep the invariant.
LEMMA StepSheet ==
    ASSUME SheetInv, NEW r \in Request, Step(r)
    PROVE  SheetInv'
<1>1. CASE CheckEnrolled(r)
  <2>1. CASE Goto(r, "find") /\ UNCHANGED <<request, at, dirty>>
    BY <1>1, <2>1, ReadKeeps
    DEF CheckEnrolled, data, PC, InTransaction, Writing, SheetInv, TypeOK
  <2>2. CASE Goto(r, "idle") /\ Forget(r)
    <3>1. \A s \in Student : lock[s] # r
      BY <1>1 DEF CheckEnrolled, SheetInv, TypeOK, InTransaction
    <3>2. Release(r)
      BY <1>1, <3>1 DEF CheckEnrolled, Release, SheetInv, TypeOK
    <3>3. written' = [written EXCEPT ![r] = NothingWritten]
      BY <1>1 DEF CheckEnrolled, SheetInv, TypeOK, InTransaction
    <3>4. QED
      BY <1>1, <2>2, <3>2, <3>3, EndKeeps DEF CheckEnrolled, SheetInv, TypeOK
  <2>3. QED
    BY <1>1, <2>1, <2>2 DEF CheckEnrolled
<1>2. CASE Find(r)
  BY <1>2, ReadKeeps DEF Find, data, PC, InTransaction, Writing, SheetInv, TypeOK
<1>3. CASE SaveSelect(r)
  <2>1. RecordLeft(r) /\ Visible(r, Current(r)) # NoMark
    BY <1>3 DEF SaveSelect, SheetInv, TypeOK, RowFound
  <2>2. dirty' \in [Request -> SUBSET Column]
    BY <1>3 DEF SaveSelect, SheetInv, TypeOK
  <2>3. QED
    BY <1>3, <2>1, <2>2, ReadKeeps DEF SaveSelect, data, PC, InTransaction, Writing
<1>4. CASE SaveUpdate(r)
  <2>1. RecordLeft(r) /\ Updated(r) \in Mark
    BY <1>4, UpdatedRow DEF SaveUpdate, SheetInv, TypeOK
  <2>2. QED
    BY <1>4, <2>1, WriteKeeps DEF SaveUpdate
<1>5. CASE Insert(r)
  <2>1. RecordLeft(r) /\ user[r] \in User
    BY <1>5 DEF Insert, SheetInv, TypeOK, HasUser, Writing
  <2>2. Entity(r) \in Mark
    BY <2>1, CurrentRecord DEF SheetInv
  <2>3. CASE Write(r, Entity(r))
    BY <1>5, <2>1, <2>2, <2>3, WriteKeeps DEF Insert
  <2>4. CASE /\ Goto(r, "aborted")
             /\ UNCHANGED <<enrolled, attendance, written, lock, request, at, dirty>>
    BY <1>5, <2>4, ReadKeeps DEF Insert, data, PC, InTransaction, Writing, SheetInv, TypeOK
  <2>5. QED
    BY <1>5, <2>3, <2>4 DEF Insert
<1>6. CASE FindRaced(r) \/ DeadlockDetected(r)
  BY <1>6, RollbackKeeps DEF FindRaced, DeadlockDetected
<1>7. CASE Commit(r)
  BY <1>7, CommitKeeps
<1>8. CASE Summarize(r)
  BY <1>8, ReadKeeps DEF Summarize, data, PC, InTransaction, Writing, SheetInv, TypeOK
<1>9. QED
  BY <1>1, <1>2, <1>3, <1>4, <1>5, <1>6, <1>7, <1>8 DEF Step

\* A request comes in.
LEMMA PutKeeps ==
    ASSUME SheetInv, NEW r \in Request, NEW u \in User, NEW sheet \in Sheets,
           Put(r, u, sheet)
    PROVE  SheetInv'
<1>1. /\ \A q \in Request : /\ pc'[q] = IF q = r THEN "check" ELSE pc[q]
                            /\ user'[q] = IF q = r THEN u ELSE user[q]
                            /\ q # r => records'[q] = records[q]
      /\ pc[r] = "idle"
      /\ UNCHANGED <<enrolled, attendance, written, lock, at, dirty>>
  BY DEF Put, Goto, SheetInv, TypeOK
<1>2. TypeOK'
  <2>1. sheet \in Seq(Record)
    BY AttendanceAssumption DEF Record
  <2>2. /\ pc' \in [Request -> PC] /\ user' \in [Request -> User \cup {Nobody}]
        /\ records' \in [Request -> Seq(Record)]
    BY <2>1 DEF Put, Goto, SheetInv, TypeOK, PC
  <2>3. ASSUME NEW q \in Request
        PROVE  /\ pc'[q] \in {"insert", "select", "update"} => RecordLeft(q)'
               /\ pc'[q] \notin InTransaction =>
                    written'[q] = NothingWritten' /\ \A s \in Student : lock'[s] # q
    BY <1>1 DEF SheetInv, TypeOK, RecordLeft, NothingWritten, InTransaction
  <2>4. QED
    BY <1>1, <2>2, <2>3 DEF SheetInv, TypeOK
<1>3. HasUser' /\ WritesLocked'
  BY <1>1 DEF SheetInv, HasUser, WritesLocked
<1>4. RowFound'
  BY <1>1 DEF SheetInv, RowFound, Visible, Current
<1>5. QED
  BY <1>2, <1>3, <1>4 DEF SheetInv

\* Every step keeps the invariant.
LEMMA NextSheet == SheetInv /\ [Next]_vars => SheetInv'
<1> SUFFICES ASSUME SheetInv, [Next]_vars PROVE SheetInv'
  OBVIOUS
<1>1. ASSUME NEW r \in Request, Abandon(r) PROVE SheetInv'
  BY <1>1, RollbackKeeps DEF Abandon
<1>2. ASSUME NEW s \in Student, Unenroll(s) PROVE SheetInv'
  <2>1. /\ enrolled' \subseteq Student
        /\ UNCHANGED <<attendance, written, lock, pc, user, records, at, dirty>>
    BY <1>2 DEF Unenroll, SheetInv, TypeOK, request
  <2>2. TypeOK'
    BY <2>1 DEF SheetInv, TypeOK, NothingWritten, RecordLeft
  <2>3. QED
    BY <2>1, <2>2 DEF SheetInv, WritesLocked, HasUser, RowFound, Visible, Current
<1>3. CASE UNCHANGED vars
  BY <1>3 DEF vars, SheetInv, TypeOK, WritesLocked, HasUser, RowFound,
     Visible, Current, NothingWritten, RecordLeft
<1>4. QED
  BY <1>1, <1>2, <1>3, PutKeeps, StepSheet DEF Next

\* Every reachable state is typed, and only open transactions have locks.
THEOREM TypeCorrect == Spec => []TypeOK
<1>1. SheetInv => TypeOK
  BY DEF SheetInv
<1>2. QED
  BY <1>1, InitSheet, NextSheet, PTL DEF Spec

(***************************************************************************)
(* Sheets that list the whole class                                        *)
(***************************************************************************)

\* Every sheet that a client sends lists every student, and none twice.
WholeSheets ==
    \A sheet \in Sheets :
      /\ \A s \in Student : \E i \in DOMAIN sheet : sheet[i].student = s
      /\ \A i, j \in DOMAIN sheet : sheet[i].student = sheet[j].student => i = j

\* What an open transaction has written is what its records say, the first apart;
\* and once it has written that, what it selected is still what is stored.
Progress(r) ==
    /\ records[r] \in Sheets
    /\ \A i \in DOMAIN records[r] :
         LET row == written[r][records[r][i].student]
         IN  /\ i < at[r] => row # NoMark
             /\ i >= at[r] => row = NoMark
             /\ 2 <= i /\ i < at[r] =>
                  row = [status |-> records[r][i].status, by |-> user[r]]
    /\ pc[r] = "update" /\ at[r] >= 2 =>
         dirty[r] = {k \in Column : Entity(r)[k] # attendance[Current(r)][k]}

WholeInv ==
    /\ \A r \in Request : pc[r] \in Writing => Progress(r)
    /\ SheetFromOneRequest

\* A request that takes no step is as far as it was, if it sees what it saw.
LEMMA OthersProgress ==
    ASSUME NEW q \in Request, at[q] \in Nat,
           pc'[q] \in Writing => Progress(q),
           pc'[q] = "update" => pc[q] = "update" \/ at[q] < 2,
           user'[q] = user[q], records'[q] = records[q], at'[q] = at[q],
           dirty'[q] = dirty[q], written'[q] = written[q],
           pc'[q] = "update" => at[q] < 2 \/ attendance' = attendance
    PROVE  pc'[q] \in Writing => Progress(q)'
<1> SUFFICES ASSUME pc'[q] \in Writing PROVE Progress(q)'
  OBVIOUS
<1>1. Entity(q)' = Entity(q) /\ Current(q)' = Current(q)
  BY DEF Entity, Current
<1>2. pc'[q] = "update" /\ at'[q] >= 2 =>
        dirty'[q] = {k \in Column : Entity(q)'[k] # attendance'[Current(q)'][k]}
  <2> SUFFICES ASSUME pc'[q] = "update", at'[q] >= 2
               PROVE  dirty'[q] = {k \in Column : Entity(q)'[k] # attendance'[Current(q)'][k]}
    OBVIOUS
  <2>1. pc[q] = "update" /\ at[q] >= 2 /\ attendance' = attendance
    OBVIOUS
  <2>2. QED
    BY <1>1, <2>1 DEF Progress
<1>3. QED
  BY <1>2 DEF Progress

\* The transaction has not written the row it is at.
LEMMA CurrentUnwritten ==
    ASSUME TypeOK, NEW r \in Request, RecordLeft(r), Progress(r)
    PROVE  written[r][Current(r)] = NoMark
<1>1. PICK i \in DOMAIN records[r] : i = at[r]
  BY CurrentRecord
<1>2. i >= at[r]
  BY <1>1 DEF TypeOK
<1>3. written[r][records[r][i].student] = NoMark
  BY <1>2 DEF Progress
<1>4. QED
  BY <1>1, <1>3 DEF Current

\* From the second record on, an UPDATE stores the record as it was sent.
LEMMA UpdatedIsEntity ==
    ASSUME SheetInv, WholeInv, NEW r \in Request, pc[r] = "update", at[r] >= 2
    PROVE  Updated(r) = Entity(r)
<1>1. RecordLeft(r) /\ Progress(r)
  BY DEF SheetInv, TypeOK, WholeInv, Writing
<1>3. written[r][Current(r)] = NoMark
  BY <1>1, CurrentUnwritten DEF SheetInv
<1>4. dirty[r] = {k \in Column : Entity(r)[k] # Visible(r, Current(r))[k]}
  BY <1>1, <1>3 DEF Progress, Visible
<1>5. Updated(r) = [status |-> Entity(r)["status"], by |-> Entity(r)["by"]]
  BY <1>4 DEF Updated, Column
<1>6. QED
  BY <1>5 DEF Entity

\* Writing the current record.
LEMMA WriteWhole ==
    ASSUME WholeSheets, SheetInv, WholeInv, NEW r \in Request, RecordLeft(r),
           pc[r] \in {"insert", "update"}, NEW m \in Mark, Write(r, m),
           at[r] >= 2 => m = Entity(r)
    PROVE  WholeInv'
<1>1. /\ Current(r) \in Student
      /\ \A q \in Request, s \in Student :
           written'[q][s] = IF q = r /\ s = Current(r) THEN m ELSE written[q][s]
      /\ \A q \in Request :
           /\ pc'[q] = IF q = r THEN "find" ELSE pc[q]
           /\ at'[q] = IF q = r THEN at[q] + 1 ELSE at[q]
           /\ dirty'[q] = IF q = r THEN {} ELSE dirty[q]
           /\ q # r => written'[q] = written[q]
      /\ UNCHANGED <<enrolled, attendance, user, records>>
  BY WriteChanges DEF SheetInv
<1>2. SheetFromOneRequest'
  BY <1>1 DEF WholeInv, SheetFromOneRequest, StoredBut1, NothingWritten
<1>3. ASSUME NEW q \in Request, q # r
      PROVE  pc'[q] \in Writing => Progress(q)'
  <2>1. at[q] \in Nat /\ (pc'[q] \in Writing => Progress(q))
    BY <1>1, <1>3 DEF SheetInv, TypeOK, WholeInv
  <2>2. QED
    BY <1>1, <1>3, <2>1, OthersProgress
<1>4. Progress(r)'
  <2>1. /\ Progress(r) /\ m # NoMark
        /\ at[r] \in Nat \ {0} /\ at[r] \in DOMAIN records[r]
        /\ records[r] \in Sheets /\ records[r] \in Seq(Record)
    BY CurrentRecord, AttendanceAssumption
    DEF SheetInv, TypeOK, WholeInv, Writing, Mark, Progress
  <2>2. pc'[r] = "find" /\ at'[r] = at[r] + 1 /\ records'[r] = records[r]
        /\ user'[r] = user[r]
    BY <1>1
  <2>3. ASSUME NEW i \in DOMAIN records[r]
        PROVE  LET row == written'[r][records[r][i].student]
               IN  /\ i < at[r] + 1 => row # NoMark
                   /\ i >= at[r] + 1 => row = NoMark
                   /\ 2 <= i /\ i < at[r] + 1 =>
                        row = [status |-> records[r][i].status, by |-> user[r]]
    <3>1. i \in Nat /\ records[r][i].student \in Student
      <4>1. i \in 1..Len(records[r]) /\ Len(records[r]) \in Nat
        BY <2>1, LenProperties
      <4>2. records[r][i] \in Record
        BY <2>1, <4>1, ElementOfSeq
      <4>3. QED
        BY <4>1, <4>2 DEF Record
    <3>2. CASE i = at[r]
      <4>1. written'[r][records[r][i].student] = m
        BY <1>1, <3>1, <3>2 DEF Current
      <4>2. at[r] >= 2 => m = [status |-> records[r][i].status, by |-> user[r]]
        BY <3>2 DEF Entity
      <4>3. QED
        BY <2>1, <3>1, <3>2, <4>1, <4>2
    <3>3. CASE i # at[r]
      <4>1. records[r][i].student # Current(r)
        BY <2>1, <3>3 DEF WholeSheets, Current
      <4>2. written'[r][records[r][i].student] = written[r][records[r][i].student]
        BY <1>1, <3>1, <4>1
      <4>3. (i < at[r] + 1 <=> i < at[r]) /\ (i >= at[r] + 1 => i >= at[r])
        BY <2>1, <3>1, <3>3
      <4>4. QED
        BY <2>1, <4>2, <4>3 DEF Progress
    <3>4. QED
      BY <3>2, <3>3
  <2>4. QED
    BY <2>1, <2>2, <2>3 DEF Progress
<1>5. QED
  BY <1>2, <1>3, <1>4 DEF WholeInv

\* A step of one handler that writes no row, and selects none.
LEMMA ReadWhole ==
    ASSUME SheetInv, WholeInv, NEW r \in Request, NEW p \in PC \ {"update"}, Goto(r, p),
           UNCHANGED <<attendance, written, request, at, dirty>>,
           p \in Writing => pc[r] \in Writing
    PROVE  WholeInv'
<1>1. \A q \in Request : pc'[q] = IF q = r THEN p ELSE pc[q]
  BY DEF Goto, SheetInv, TypeOK
<1>2. SheetFromOneRequest'
  BY DEF WholeInv, SheetFromOneRequest, StoredBut1, NothingWritten
<1>3. ASSUME NEW q \in Request
      PROVE  pc'[q] \in Writing => Progress(q)'
  <2>1. at[q] \in Nat /\ (pc'[q] \in Writing => Progress(q))
    BY <1>1 DEF SheetInv, TypeOK, WholeInv
  <2>2. QED
    BY <1>1, <2>1, OthersProgress DEF request
<1>4. QED
  BY <1>2, <1>3 DEF WholeInv

\* The SELECT of save(): what it finds differing is what differs from the stored
\* row, which the transaction has not written.
LEMMA SelectWhole ==
    ASSUME SheetInv, WholeInv, NEW r \in Request, SaveSelect(r)
    PROVE  WholeInv'
<1>1. /\ \A q \in Request : /\ pc'[q] = IF q = r THEN "update" ELSE pc[q]
                            /\ q # r => dirty'[q] = dirty[q]
      /\ dirty'[r] = {k \in Column : Entity(r)[k] # Visible(r, Current(r))[k]}
      /\ UNCHANGED <<enrolled, attendance, written, lock, user, records, at>>
  BY DEF SaveSelect, Goto, SheetInv, TypeOK, request
<1>2. SheetFromOneRequest'
  BY <1>1 DEF WholeInv, SheetFromOneRequest, StoredBut1, NothingWritten
<1>3. ASSUME NEW q \in Request, q # r
      PROVE  pc'[q] \in Writing => Progress(q)'
  <2>1. at[q] \in Nat /\ (pc'[q] \in Writing => Progress(q))
    BY <1>1, <1>3 DEF SheetInv, TypeOK, WholeInv
  <2>2. QED
    BY <1>1, <1>3, <2>1, OthersProgress
<1>4. Progress(r)'
  <2>1. RecordLeft(r) /\ Progress(r)
    BY DEF SaveSelect, SheetInv, TypeOK, WholeInv, Writing
  <2>3. written[r][Current(r)] = NoMark
    BY <2>1, CurrentUnwritten DEF SheetInv
  <2>4. dirty'[r] = {k \in Column : Entity(r)[k] # attendance[Current(r)][k]}
    BY <1>1, <2>3 DEF Visible
  <2>5. Entity(r)' = Entity(r) /\ Current(r)' = Current(r)
    BY <1>1 DEF Entity, Current
  <2>6. dirty'[r] = {k \in Column : Entity(r)'[k] # attendance'[Current(r)'][k]}
    BY <1>1, <2>4, <2>5
  <2>7. QED
    BY <1>1, <2>1, <2>6 DEF Progress
<1>5. QED
  BY <1>2, <1>3, <1>4 DEF WholeInv

\* The end of a transaction that changes no row.
LEMMA RollbackWhole ==
    ASSUME SheetInv, WholeInv, NEW r \in Request, NEW p \in {"idle", "failed"},
           Goto(r, p), Forget(r), UNCHANGED attendance,
           \A q \in Request \ {r} : written'[q] = written[q]
    PROVE  WholeInv'
<1>1. \A q \in Request :
        /\ pc'[q] = IF q = r THEN p ELSE pc[q]
        /\ q # r => /\ user'[q] = user[q] /\ records'[q] = records[q]
                    /\ at'[q] = at[q] /\ dirty'[q] = dirty[q]
  BY DEF Goto, Forget, SheetInv, TypeOK
<1>2. SheetFromOneRequest'
  BY DEF WholeInv, SheetFromOneRequest, StoredBut1, NothingWritten
<1>3. ASSUME NEW q \in Request
      PROVE  pc'[q] \in Writing => Progress(q)'
  <2>1. CASE q = r
    BY <1>1, <2>1 DEF Writing
  <2>2. CASE q # r
    <3>1. at[q] \in Nat /\ (pc'[q] \in Writing => Progress(q))
      BY <1>1, <2>2 DEF SheetInv, TypeOK, WholeInv
    <3>2. QED
      BY <1>1, <2>2, <3>1, OthersProgress
  <2>3. QED
    BY <2>1, <2>2
<1>4. QED
  BY <1>2, <1>3 DEF WholeInv

\* A transaction commits when it has written every row; no other one has written
\* any, so that none is past its first record.
LEMMA CommitWhole ==
    ASSUME WholeSheets, SheetInv, WholeInv, NEW r \in Request, Commit(r)
    PROVE  WholeInv'
<1>1. /\ \A q \in Request :
           /\ pc'[q] = IF q = r THEN "summary" ELSE pc[q]
           /\ q # r => /\ user'[q] = user[q] /\ records'[q] = records[q]
                       /\ at'[q] = at[q] /\ dirty'[q] = dirty[q]
                       /\ written'[q] = written[q]
      /\ attendance' = [s \in Student |-> Visible(r, s)]
      /\ pc[r] = "find" /\ ~RecordLeft(r)
  BY DEF Commit, Goto, Forget, SheetInv, TypeOK
<1>2. /\ Progress(r) /\ user[r] \in User
      /\ records[r] \in Sheets /\ records[r] \in Seq(Record) /\ at[r] \in Nat \ {0}
  BY <1>1 DEF SheetInv, TypeOK, HasUser, WholeInv, Writing, Progress
<1>3. \A i \in DOMAIN records[r] : i \in Nat /\ i < at[r] /\ records[r][i].student \in Student
  <2> SUFFICES ASSUME NEW i \in DOMAIN records[r]
               PROVE  i \in Nat /\ i < at[r] /\ records[r][i].student \in Student
    OBVIOUS
  <2>1. i \in 1..Len(records[r]) /\ Len(records[r]) \in Nat
    BY <1>2, LenProperties
  <2>2. records[r][i] \in Record
    BY <1>2, <2>1, ElementOfSeq
  <2>3. QED
    BY <1>1, <1>2, <2>1, <2>2 DEF RecordLeft, Record
<1>4. \A s \in Student : written[r][s] # NoMark /\ lock[s] = r
  <2> SUFFICES ASSUME NEW s \in Student PROVE written[r][s] # NoMark
    BY DEF SheetInv, WritesLocked
  <2>1. PICK i \in DOMAIN records[r] : records[r][i].student = s
    BY <1>2 DEF WholeSheets
  <2>2. QED
    BY <1>2, <1>3, <2>1 DEF Progress
<1>5. SheetFromOneRequest'
  <2>1. \A s \in Student : attendance'[s] = written[r][s]
    BY <1>1, <1>4 DEF Visible
  <2>2. \A i \in 2..Len(records[r]) :
          attendance'[records[r][i].student]
            = [status |-> records[r][i].status, by |-> user[r]]
    <3> SUFFICES ASSUME NEW i \in 2..Len(records[r])
                 PROVE  attendance'[records[r][i].student]
                          = [status |-> records[r][i].status, by |-> user[r]]
      OBVIOUS
    <3>1. i \in DOMAIN records[r] /\ 2 <= i
      BY <1>2, LenProperties
    <3>2. QED
      BY <1>2, <1>3, <2>1, <3>1 DEF Progress
  <2>3. PICK sheet \in Sheets, u \in User : sheet = records[r] /\ u = user[r]
    BY <1>2
  <2>4. StoredBut1(sheet, u)'
    BY <2>2, <2>3 DEF StoredBut1
  <2>5. \A s \in Student : attendance'[s] # NoMark
    BY <1>4, <2>1
  <2>6. QED
    BY <2>4, <2>5 DEF SheetFromOneRequest
<1>6. ASSUME NEW q \in Request, q # r
      PROVE  pc'[q] \in Writing => Progress(q)'
  <2>1. at[q] \in Nat \ {0} /\ (pc'[q] \in Writing => Progress(q))
    BY <1>1, <1>6 DEF SheetInv, TypeOK, WholeInv
  <2>2. ASSUME pc[q] = "update", ~(at[q] < 2) PROVE FALSE
    <3>1. Progress(q) /\ RecordLeft(q) /\ records[q] \in Seq(Record)
      BY <2>2 DEF SheetInv, TypeOK, WholeInv, Writing
    <3>2. 1 \in DOMAIN records[q] /\ 1 < at[q]
      BY <2>1, <2>2, <3>1, LenProperties DEF RecordLeft
    <3>3. records[q][1].student \in Student
      <4>1. 1 \in 1..Len(records[q])
        BY <3>1, <3>2, LenProperties
      <4>2. records[q][1] \in Record
        BY <3>1, <4>1, ElementOfSeq
      <4>3. QED
        BY <4>2 DEF Record
    <3>4. written[q][records[q][1].student] # NoMark
      BY <3>1, <3>2 DEF Progress
    <3>5. lock[records[q][1].student] = q
      BY <3>3, <3>4 DEF SheetInv, WritesLocked
    <3>6. QED
      BY <1>4, <1>6, <3>3, <3>5
  <2>3. QED
    BY <1>1, <1>6, <2>1, <2>2, OthersProgress
<1>7. QED
  BY <1>1, <1>5, <1>6 DEF WholeInv, Writing

\* A request comes in with a whole sheet, of which nothing is written yet.
LEMMA PutWhole ==
    ASSUME SheetInv, WholeInv, NEW r \in Request, NEW u \in User, NEW sheet \in Sheets,
           at[r] = 1, Put(r, u, sheet)
    PROVE  WholeInv'
<1>1. /\ \A q \in Request : /\ pc'[q] = IF q = r THEN "check" ELSE pc[q]
                            /\ records'[q] = IF q = r THEN sheet ELSE records[q]
                            /\ q # r => user'[q] = user[q]
      /\ pc[r] = "idle"
      /\ UNCHANGED <<enrolled, attendance, written, lock, at, dirty>>
  BY DEF Put, Goto, SheetInv, TypeOK
<1>2. SheetFromOneRequest'
  BY <1>1 DEF WholeInv, SheetFromOneRequest, StoredBut1, NothingWritten
<1>3. ASSUME NEW q \in Request, q # r
      PROVE  pc'[q] \in Writing => Progress(q)'
  <2>1. at[q] \in Nat /\ (pc'[q] \in Writing => Progress(q))
    BY <1>1, <1>3 DEF SheetInv, TypeOK, WholeInv
  <2>2. QED
    BY <1>1, <1>3, <2>1, OthersProgress
<1>4. ASSUME NEW i \in DOMAIN sheet
      PROVE  i \in Nat /\ i >= 1 /\ written[r][sheet[i].student] = NoMark
  <2>1. sheet \in Seq(Record)
    BY AttendanceAssumption DEF Record
  <2>2. i \in 1..Len(sheet) /\ Len(sheet) \in Nat
    BY <2>1, LenProperties
  <2>3. sheet[i] \in Record
    BY <2>1, <2>2, ElementOfSeq
  <2>4. sheet[i].student \in Student
    BY <2>3 DEF Record
  <2>5. written[r] = NothingWritten
    BY <1>1 DEF SheetInv, TypeOK, InTransaction
  <2>6. QED
    BY <2>2, <2>4, <2>5 DEF NothingWritten
<1>5. Progress(r)'
  <2>1. pc'[r] = "check" /\ records'[r] = sheet /\ at'[r] = 1
    BY <1>1
  <2>2. \A i \in DOMAIN sheet :
          /\ ~(i < 1)
          /\ written'[r][sheet[i].student] = NoMark
    BY <1>1, <1>4
  <2>3. QED
    BY <1>4, <2>1, <2>2 DEF Progress
<1>6. QED
  BY <1>2, <1>3, <1>5 DEF WholeInv

\* A slot that is free is at its first record.
FreshSlots == \A r \in Request : pc[r] \in {"idle", "summary", "failed"} => at[r] = 1

\* Every step keeps the slots fresh.
LEMMA NextFresh == SheetInv /\ FreshSlots /\ [Next]_vars => FreshSlots'
<1> SUFFICES ASSUME SheetInv, FreshSlots, [Next]_vars,
                    NEW q \in Request, pc'[q] \in {"idle", "summary", "failed"}
             PROVE  at'[q] = 1
  BY DEF FreshSlots
<1>1. ASSUME NEW r \in Request, Forget(r), NEW p \in PC, Goto(r, p)
      PROVE  at'[q] = 1
  BY <1>1 DEF Forget, Goto, FreshSlots, SheetInv, TypeOK
<1>2. ASSUME NEW r \in Request, NEW p \in Writing \cup {"aborted"}, Goto(r, p),
             \A o \in Request \ {r} : at'[o] = at[o]
      PROVE  at'[q] = 1
  BY <1>2 DEF Goto, FreshSlots, SheetInv, TypeOK, Writing
<1>3. ASSUME NEW r \in Request, NEW m, Write(r, m)
      PROVE  at'[q] = 1
  BY <1>2, <1>3 DEF Write, Writing, SheetInv, TypeOK
<1>4. ASSUME NEW r \in Request, Step(r) PROVE at'[q] = 1
  <2>1. CASE CheckEnrolled(r)
    BY <1>1, <1>2, <2>1 DEF CheckEnrolled, PC, Writing
  <2>2. CASE Find(r) \/ SaveSelect(r)
    BY <1>2, <2>2 DEF Find, SaveSelect, Writing
  <2>3. CASE SaveUpdate(r)
    BY <1>3, <2>3 DEF SaveUpdate
  <2>4. CASE Insert(r)
    BY <1>2, <1>3, <2>4 DEF Insert
  <2>5. CASE FindRaced(r) \/ DeadlockDetected(r) \/ Commit(r)
    BY <1>1, <2>5 DEF FindRaced, DeadlockDetected, Rollback, Commit, PC
  <2>6. CASE Summarize(r)
    BY <2>6 DEF Summarize, Goto, FreshSlots, SheetInv, TypeOK
  <2>7. QED
    BY <1>4, <2>1, <2>2, <2>3, <2>4, <2>5, <2>6 DEF Step
<1>5. ASSUME NEW r \in Request, NEW u \in User, NEW sheet \in Sheets, Put(r, u, sheet)
      PROVE  at'[q] = 1
  BY <1>2, <1>5 DEF Put, Writing
<1>6. ASSUME NEW r \in Request, Abandon(r) PROVE at'[q] = 1
  BY <1>1, <1>6 DEF Abandon, Rollback, PC
<1>7. CASE UNCHANGED <<pc, at>>
  BY <1>7 DEF FreshSlots
<1>8. QED
  BY <1>4, <1>5, <1>6, <1>7 DEF Next, Unenroll, vars

\* When sheets are whole every step keeps the stored sheet whole.
LEMMA NextWhole ==
    ASSUME WholeSheets, SheetInv, FreshSlots, WholeInv, [Next]_vars
    PROVE  WholeInv'
<1>1. ASSUME NEW r \in Request, NEW u \in User, NEW sheet \in Sheets, Put(r, u, sheet)
      PROVE  WholeInv'
  BY <1>1, PutWhole DEF Put, FreshSlots
<1>2. ASSUME NEW r \in Request, Step(r) PROVE WholeInv'
  <2>1. CASE CheckEnrolled(r)
    <3>1. CASE Goto(r, "find") /\ UNCHANGED <<request, at, dirty>>
      BY <2>1, <3>1, ReadWhole DEF CheckEnrolled, PC, InTransaction, Writing
    <3>2. CASE Goto(r, "idle") /\ Forget(r)
      BY <2>1, <3>2, RollbackWhole DEF CheckEnrolled
    <3>3. QED
      BY <2>1, <3>1, <3>2 DEF CheckEnrolled
  <2>2. CASE Find(r)
    BY <2>2, ReadWhole DEF Find, PC, InTransaction, Writing
  <2>3. CASE SaveSelect(r)
    BY <2>3, SelectWhole
  <2>4. CASE SaveUpdate(r)
    <3>1. RecordLeft(r) /\ Updated(r) \in Mark
      BY <2>4, UpdatedRow DEF SaveUpdate, SheetInv, TypeOK
    <3>2. QED
      BY <2>4, <3>1, WriteWhole, UpdatedIsEntity DEF SaveUpdate
  <2>5. CASE Insert(r)
    <3>1. RecordLeft(r) /\ user[r] \in User
      BY <2>5 DEF Insert, SheetInv, TypeOK, HasUser, Writing
    <3>2. Entity(r) \in Mark
      BY <3>1, CurrentRecord DEF SheetInv
    <3>3. CASE Write(r, Entity(r))
      BY <2>5, <3>1, <3>2, <3>3, WriteWhole DEF Insert
    <3>4. CASE /\ Goto(r, "aborted")
               /\ UNCHANGED <<enrolled, attendance, written, lock, request, at, dirty>>
      BY <3>4, ReadWhole DEF PC, InTransaction, Writing
    <3>5. QED
      BY <2>5, <3>3, <3>4 DEF Insert
  <2>6. CASE FindRaced(r) \/ DeadlockDetected(r)
    BY <2>6, RollbackWhole DEF FindRaced, DeadlockDetected, Rollback, SheetInv, TypeOK
  <2>7. CASE Commit(r)
    BY <2>7, CommitWhole
  <2>8. CASE Summarize(r)
    BY <2>8, ReadWhole DEF Summarize, PC, Writing
  <2>9. QED
    BY <1>2, <2>1, <2>2, <2>3, <2>4, <2>5, <2>6, <2>7, <2>8 DEF Step
<1>3. ASSUME NEW r \in Request, Abandon(r) PROVE WholeInv'
  BY <1>3, RollbackWhole DEF Abandon, Rollback, SheetInv, TypeOK
<1>4. ASSUME UNCHANGED <<attendance, written, pc, user, records, at, dirty>>
      PROVE  WholeInv'
  BY <1>4 DEF WholeInv, Progress, Entity, Current, SheetFromOneRequest, StoredBut1,
     NothingWritten
<1>5. QED
  BY <1>1, <1>2, <1>3, <1>4 DEF Next, Unenroll, request, vars

\* When every client sends the sheet of the whole class, what is stored is the
\* sheet of one request, except for the row it wrote first.
THEOREM SheetIsOneRequests ==
    ASSUME WholeSheets
    PROVE  Spec => []SheetFromOneRequest
<1>1. Init => FreshSlots /\ WholeInv
  BY DEF Init, FreshSlots, WholeInv, Writing, SheetFromOneRequest
<1>2. SheetInv /\ FreshSlots /\ WholeInv /\ [Next]_vars => FreshSlots' /\ WholeInv'
  BY NextFresh, NextWhole
<1>3. WholeInv => SheetFromOneRequest
  BY DEF WholeInv
<1>4. QED
  BY <1>1, <1>2, <1>3, InitSheet, NextSheet, PTL DEF Spec

=============================================================================
