----------------------------- MODULE ImportProofs -----------------------------
(***************************************************************************)
(* Theorems about ImportJob for every set of requests, jobs and keys, for  *)
(* files of any length, and for every environment.                         *)
(***************************************************************************)
EXTENDS ImportJob, FiniteSetTheorems, WellFoundedInduction, TLAPS

(***************************************************************************)
(* Frames                                                                  *)
(***************************************************************************)

\* The frame of each program counter.
LEMMA FrameTable ==
    /\ "idle" \in PC /\ FrameOf("idle") = {NoFrame}
    /\ \A p \in PreviewPC : p \in PC /\ FrameOf(p) = PreviewFrame
    /\ \A p \in {"claim", "readRows"} : p \in PC /\ FrameOf(p) = ClaimFrame
    /\ \A p \in RowPC : p \in PC /\ FrameOf(p) = RowFrame
    /\ "complete" \in PC /\ FrameOf("complete") = EndFrame
BY DEF PC, PreviewPC, RowPC, FrameOf

\* What TypeOK says of the suspended handlers.
FramesTyped ==
    /\ pc \in [Request -> PC]
    /\ DOMAIN loc = Request
    /\ \A r \in Request : loc[r] \in FrameOf(pc[r])

\* Going to the next await changes the frame of one request, and with locals of
\* the right type it keeps all frames typed.
LEMMA GotoTyped ==
    ASSUME FramesTyped, NEW r \in Request, NEW p \in PC, NEW f \in FrameOf(p),
           Goto(r, p, f)
    PROVE  /\ FramesTyped'
           /\ pc'[r] = p /\ loc'[r] = f
           /\ \A q \in Request \ {r} : pc'[q] = pc[q] /\ loc'[q] = loc[q]
BY DEF Goto, FramesTyped

\* Answering leaves no locals.
LEMMA FinishTyped ==
    ASSUME FramesTyped, NEW r \in Request, Finish(r)
    PROVE  /\ FramesTyped'
           /\ pc'[r] = "idle"
           /\ \A q \in Request \ {r} : pc'[q] = pc[q] /\ loc'[q] = loc[q]
BY GotoTyped, FrameTable DEF Finish

\* A nonempty set of natural numbers has a least element.
LEMMA LeastElement ==
    ASSUME NEW S \in SUBSET Nat, S # {}
    PROVE  Min(S) \in S
<1> DEFINE R == OpToRel(<, Nat)
<1>1. IsWellFoundedOn(R, Nat)
  BY NatLessThanWellFounded
<1>2. \A x, y \in Nat : x < y => <<x, y>> \in R
  BY DEF OpToRel
<1> HIDE DEF R
<1>3. PICK x \in S : \A y \in S : <<y, x>> \notin R
  BY <1>1, WFMin, Zenon
<1>4. ASSUME NEW y \in S PROVE x <= y
  <2>1. x \in Nat /\ y \in Nat /\ ~(y < x)
    BY <1>2, <1>3
  <2>2. QED
    BY <2>1
<1>5. QED
  BY <1>4 DEF Min

\* A set of rows is finite.
LEMMA RowSetFinite ==
    ASSUME NEW S \in SUBSET RowNumber
    PROVE  IsFiniteSet(S) /\ S \subseteq Nat
<1>1. IsFiniteSet(RowNumber) /\ RowNumber \subseteq Nat
  BY FS_Interval, ImportAssumption DEF RowNumber
<1>2. QED
  BY <1>1, FS_Subset

\* A row being processed is one of those left.
LEMMA CurrentRow ==
    ASSUME NEW r \in Request, loc[r] \in RowFrame
    PROVE  Current(r) \in loc[r].todo /\ Current(r) \in RowNumber
<1>1. loc[r].todo \subseteq RowNumber /\ loc[r].todo # {}
  BY DEF RowFrame, ConfirmFrame
<1>2. loc[r].todo \subseteq Nat
  BY <1>1, RowSetFinite
<1>3. QED
  BY <1>1, <1>2, LeastElement DEF Current

\* The rows of a job in some status are finitely many.
LEMMA RowsFinite ==
    ASSUME NEW j, NEW s
    PROVE  IsFiniteSet(RowsIn(j, s)) /\ Cardinality(RowsIn(j, s)) \in Nat
<1>1. RowsIn(j, s) \in SUBSET RowNumber
  BY DEF RowsIn
<1>2. QED
  BY <1>1, RowSetFinite, FS_CardinalityType

\* Going on with the loop keeps the frames typed.
LEMMA ContinueTyped ==
    ASSUME FramesTyped, NEW r \in Request, NEW f \in ConfirmFrame, Continue(r, f)
    PROVE  /\ FramesTyped'
           /\ pc'[r] = IF f.todo = {} THEN "complete" ELSE "check"
           /\ loc'[r] = f
           /\ \A q \in Request \ {r} : pc'[q] = pc[q] /\ loc'[q] = loc[q]
<1>1. f \in FrameOf(IF f.todo = {} THEN "complete" ELSE "check")
  BY FrameTable DEF RowPC, RowFrame, EndFrame
<1>2. QED
  BY <1>1, FrameTable, GotoTyped DEF Continue, RowPC

\* So does being done with a row.
LEMMA DoneTyped ==
    ASSUME FramesTyped, NEW r \in Request, loc[r] \in ConfirmFrame, Done(r)
    PROVE  FramesTyped'
<1>1. [loc[r] EXCEPT !.todo = @ \ {Current(r)}] \in ConfirmFrame
  BY DEF ConfirmFrame
<1>2. QED
  BY <1>1, ContinueTyped DEF Done

\* Marking a row keeps the rows typed.
LEMMA MarkTyped ==
    ASSUME TypeOK, NEW r \in Request, loc[r].job \in Job, Current(r) \in RowNumber,
           NEW s \in RowStatus, Mark(r, s)
    PROVE  row' \in [Job -> [RowNumber -> RowStatus \cup {"NONE"}]]
BY DEF Mark, TypeOK

(***************************************************************************)
(* Type correctness                                                        *)
(***************************************************************************)

\* The initial state is typed.
LEMMA InitTyped == Init => TypeOK
BY FrameTable DEF Init, TypeOK, Holder

\* The steps of the preview keep the types.
LEMMA PreviewTyped ==
    ASSUME TypeOK, NEW r \in Request,
           \/ \E j \in Job : PreviewReadCodes(r, j)
           \/ PreviewReadEmails(r) \/ PreviewSaveJob(r) \/ PreviewSaveRows(r)
    PROVE  TypeOK'
<1>0. FramesTyped
  BY DEF TypeOK, FramesTyped
<1>1. ASSUME NEW j \in Job, PreviewReadCodes(r, j)
      PROVE  TypeOK'
  <2>1. PICK errors \in CellErrors :
          Goto(r, "emails",
               [job |-> j, valid |-> {n \in RowNumber \ errors :
                                        ~Repeats(j, n) /\ holder[Code[j][n]] = Nobody}])
    BY <1>1 DEF PreviewReadCodes
  <2>2. [job |-> j, valid |-> {n \in RowNumber \ errors :
                                 ~Repeats(j, n) /\ holder[Code[j][n]] = Nobody}]
          \in FrameOf("emails")
    BY FrameTable DEF PreviewFrame, PreviewPC
  <2>3. FramesTyped'
    BY <1>0, <2>1, <2>2, FrameTable, GotoTyped DEF PreviewPC
  <2>4. QED
    BY <1>1, <2>3 DEF PreviewReadCodes, store, TypeOK, FramesTyped
<1>2. CASE PreviewReadEmails(r)
  <2>1. loc[r] \in PreviewFrame
    BY <1>2, FrameTable DEF PreviewReadEmails, TypeOK, PreviewPC
  <2>2. PICK errors \in BranchErrors :
          Goto(r, "saveJob",
               [loc[r] EXCEPT !.valid = {n \in @ \ errors :
                                           holder[Email[loc[r].job][n]] = Nobody}])
    BY <1>2 DEF PreviewReadEmails
  <2>3. [loc[r] EXCEPT !.valid = {n \in @ \ errors :
                                    holder[Email[loc[r].job][n]] = Nobody}]
          \in FrameOf("saveJob")
    BY <2>1, FrameTable DEF PreviewFrame, PreviewPC
  <2>4. FramesTyped'
    BY <1>0, <2>2, <2>3, FrameTable, GotoTyped DEF PreviewPC
  <2>5. QED
    BY <1>2, <2>4 DEF PreviewReadEmails, store, TypeOK, FramesTyped
<1>3. CASE PreviewSaveJob(r)
  <2>1. loc[r] \in FrameOf("saveRows")
    BY <1>3, FrameTable DEF PreviewSaveJob, TypeOK, PreviewPC
  <2>2. FramesTyped'
    BY <1>0, <1>3, <2>1, FrameTable, GotoTyped DEF PreviewSaveJob, PreviewPC
  <2>3. status' \in [Job -> JobStatus \cup {"NONE"}]
    BY <1>3 DEF PreviewSaveJob, TypeOK, JobStatus
  <2>4. QED
    BY <1>3, <2>2, <2>3 DEF PreviewSaveJob, TypeOK, FramesTyped
<1>4. CASE PreviewSaveRows(r)
  <2>1. FramesTyped'
    BY <1>0, <1>4, FinishTyped DEF PreviewSaveRows
  <2>2. row' \in [Job -> [RowNumber -> RowStatus \cup {"NONE"}]]
    BY <1>4 DEF PreviewSaveRows, TypeOK, RowStatus
  <2>3. QED
    BY <1>4, <2>1, <2>2 DEF PreviewSaveRows, TypeOK, FramesTyped
<1>5. QED
  BY <1>1, <1>2, <1>3, <1>4

\* Claiming a job and reading its rows keep the types.
LEMMA ClaimTyped ==
    ASSUME TypeOK, NEW r \in Request,
           \/ \E j \in Job : ConfirmRead(r, j)
           \/ ConfirmClaim(r) \/ ConfirmReadRows(r)
    PROVE  TypeOK'
<1>0. FramesTyped
  BY DEF TypeOK, FramesTyped
<1>1. ASSUME NEW j \in Job, ConfirmRead(r, j)
      PROVE  TypeOK'
  <2>1. [job |-> j] \in FrameOf("claim")
    BY FrameTable DEF ClaimFrame
  <2>2. FramesTyped'
    BY <1>0, <1>1, <2>1, FrameTable, GotoTyped DEF ConfirmRead
  <2>3. QED
    BY <1>1, <2>2 DEF ConfirmRead, store, TypeOK, FramesTyped
<1>2. CASE ConfirmClaim(r)
  <2>1. loc[r] \in FrameOf("readRows")
    BY <1>2, FrameTable DEF ConfirmClaim, TypeOK
  <2>2. FramesTyped'
    BY <1>0, <1>2, <2>1, FrameTable, GotoTyped, FinishTyped DEF ConfirmClaim
  <2>3. status' \in [Job -> JobStatus \cup {"NONE"}]
    BY <1>2 DEF ConfirmClaim, TypeOK, JobStatus
  <2>4. QED
    BY <1>2, <2>2, <2>3 DEF ConfirmClaim, TypeOK, FramesTyped
<1>3. CASE ConfirmReadRows(r)
  <2>1. loc[r] \in ClaimFrame
    BY <1>3, FrameTable DEF ConfirmReadRows, TypeOK
  <2> DEFINE f == [job |-> loc[r].job, todo |-> ToImport(loc[r].job), success |-> 0,
                   failed |-> Cardinality(RowsIn(loc[r].job, "FAILED"))]
  <2>2. Cardinality(RowsIn(loc[r].job, "FAILED")) \in Nat
    BY RowsFinite
  <2>3. f \in ConfirmFrame
    BY <2>1, <2>2 DEF ClaimFrame, ConfirmFrame, ToImport, RowsIn
  <2>4. FramesTyped'
    BY <1>0, <1>3, <2>3, ContinueTyped DEF ConfirmReadRows
  <2>5. QED
    BY <1>3, <2>4 DEF ConfirmReadRows, store, TypeOK, FramesTyped
<1>4. QED
  BY <1>1, <1>2, <1>3

\* The loop over the rows and the end of the job keep the types.
LEMMA RowTyped ==
    ASSUME TypeOK, NEW r \in Request,
           \/ RowCheck(r) \/ RowCreate(r) \/ RowMarkSuccess(r) \/ RowMarkFailed(r)
           \/ ConfirmComplete(r)
    PROVE  TypeOK'
<1>0. FramesTyped
  BY DEF TypeOK, FramesTyped
<1>1. /\ loc[r] \in ConfirmFrame /\ loc[r].job \in Job
      /\ ~ConfirmComplete(r) => loc[r] \in RowFrame /\ Current(r) \in RowNumber
  <2>1. /\ pc[r] \in RowPC \cup {"complete"}
        /\ ~ConfirmComplete(r) => pc[r] \in RowPC
    BY DEF RowCheck, RowCreate, RowMarkSuccess, RowMarkFailed, ConfirmComplete, RowPC
  <2>2. /\ loc[r] \in RowFrame \cup EndFrame
        /\ ~ConfirmComplete(r) => loc[r] \in RowFrame
    BY <2>1, FrameTable DEF TypeOK
  <2>3. loc[r] \in ConfirmFrame
    BY <2>2 DEF RowFrame, EndFrame
  <2>4. loc[r].job \in Job
    BY <2>3 DEF ConfirmFrame
  <2>5. QED
    BY <2>2, <2>3, <2>4, CurrentRow
<1>2. ASSUME NEW g \in RowFrame, Catch(r, g)
      PROVE  FramesTyped'
  <2>1. [g EXCEPT !.failed = @ + 1] \in RowFrame
    BY DEF RowFrame, ConfirmFrame
  <2>2. [g EXCEPT !.failed = @ + 1] \in FrameOf("markFailed")
    BY <2>1, FrameTable DEF RowPC
  <2>3. QED
    BY <1>0, <1>2, <2>2, FrameTable, GotoTyped DEF Catch, RowPC
<1>3. CASE RowCheck(r)
  <2>0. loc[r] \in RowFrame
    BY <1>1, <1>3 DEF RowCheck, ConfirmComplete
  <2>1. loc[r] \in FrameOf("create")
    BY <2>0, FrameTable DEF RowPC
  <2>2. FramesTyped'
    BY <1>0, <2>0, <1>2, <1>3, <2>1, FrameTable, GotoTyped DEF RowCheck, RowPC
  <2>3. QED
    BY <1>3, <2>2 DEF RowCheck, store, TypeOK, FramesTyped
<1>4. CASE RowCreate(r)
  <2>0. pc[r] = "create" /\ loc[r] \in RowFrame /\ Current(r) \in RowNumber
    BY <1>1, <1>4 DEF RowCreate, ConfirmComplete
  <2>a. [loc[r] EXCEPT !.success = @ + 1] \in RowFrame
    BY <2>0 DEF RowFrame, ConfirmFrame
  <2>1. [loc[r] EXCEPT !.success = @ + 1] \in FrameOf("markSuccess")
    BY <2>a, FrameTable DEF RowPC
  <2>2. FramesTyped'
    BY <1>0, <2>0, <1>2, <1>4, <2>1, FrameTable, GotoTyped DEF RowCreate, RowPC
  <2>3. holder' \in [Key -> Holder]
    <3> DEFINE j == loc[r].job
               n == Current(r)
    <3>1. CASE UNCHANGED holder
      BY <3>1 DEF TypeOK
    <3>2. CASE holder' = [holder EXCEPT ![Code[j][n]] = <<j, n>>, ![Email[j][n]] = <<j, n>>]
      <4>1. n \in RowNumber
        BY <2>0
      <4>2. <<j, n>> \in Holder
        BY <1>1, <4>1 DEF Holder
      <4>3. QED
        BY <3>2, <4>2 DEF TypeOK
    <3>3. QED
      BY <1>4, <3>1, <3>2 DEF RowCreate
  <2>4. QED
    BY <1>4, <2>2, <2>3 DEF RowCreate, TypeOK, FramesTyped
<1>5. CASE RowMarkSuccess(r)
  <2>0. loc[r] \in RowFrame /\ Current(r) \in RowNumber
    BY <1>1, <1>5 DEF RowMarkSuccess, ConfirmComplete
  <2>1. FramesTyped'
    BY <1>0, <1>1, <2>0, <1>2, <1>5, DoneTyped DEF RowMarkSuccess
  <2>2. row' \in [Job -> [RowNumber -> RowStatus \cup {"NONE"}]]
    <3>1. CASE Mark(r, "SUCCESS")
      BY <1>1, <2>0, <3>1, MarkTyped DEF RowStatus
    <3>2. CASE UNCHANGED row
      BY <3>2 DEF TypeOK
    <3>3. QED
      BY <1>5, <3>1, <3>2 DEF RowMarkSuccess
  <2>3. QED
    BY <1>5, <2>1, <2>2 DEF RowMarkSuccess, TypeOK, FramesTyped
<1>6. CASE RowMarkFailed(r)
  <2>1. FramesTyped'
    BY <1>0, <1>1, <1>6, DoneTyped DEF RowMarkFailed
  <2>2. row' \in [Job -> [RowNumber -> RowStatus \cup {"NONE"}]]
    BY <1>1, <1>6, MarkTyped DEF RowMarkFailed, ConfirmComplete, RowStatus
  <2>3. QED
    BY <1>6, <2>1, <2>2 DEF RowMarkFailed, TypeOK, FramesTyped
<1>7. CASE ConfirmComplete(r)
  <2>1. FramesTyped'
    BY <1>0, <1>7, FinishTyped DEF ConfirmComplete
  <2>2. status' \in [Job -> JobStatus \cup {"NONE"}]
    BY <1>7 DEF ConfirmComplete, TypeOK, JobStatus
  <2>3. counts' \in [Job -> [success: Nat, failed: Nat]]
    BY <1>1, <1>7 DEF ConfirmComplete, TypeOK, ConfirmFrame
  <2>4. QED
    BY <1>7, <2>1, <2>2, <2>3 DEF ConfirmComplete, TypeOK, FramesTyped
<1>8. QED
  BY <1>3, <1>4, <1>5, <1>6, <1>7

\* Every step keeps the types.
LEMMA NextTyped == TypeOK /\ [Next]_vars => TypeOK'
<1> SUFFICES ASSUME TypeOK, [Next]_vars PROVE TypeOK'
  OBVIOUS
<1>1. ASSUME NEW r \in Request, Abandon(r) PROVE TypeOK'
  <2>1. FramesTyped'
    BY <1>1, FinishTyped DEF Abandon, TypeOK, FramesTyped
  <2>2. QED
    BY <1>1, <2>1 DEF Abandon, store, TypeOK, FramesTyped
<1>2. ASSUME NEW k \in Key, OtherWriter(k) PROVE TypeOK'
  BY <1>2 DEF OtherWriter, TypeOK, Holder
<1>6. ASSUME NEW k \in Key, NEW j \in Job, CodeReleased(j, k) PROVE TypeOK'
  BY <1>6 DEF CodeReleased, TypeOK, Holder
<1>7. ASSUME NEW k \in Key, NEW j \in Job, NEW n \in RowNumber, CodeMoved(j, n, k)
      PROVE  TypeOK'
  <2>1. <<j, n>> \in Holder /\ Nobody \in Holder
    BY DEF Holder
  <2>2. holder' \in [Key -> Holder]
    BY <1>7, <2>1 DEF CodeMoved, TypeOK
  <2>3. QED
    BY <1>7, <2>2 DEF CodeMoved, TypeOK
<1>3. CASE Crash
  BY <1>3, FrameTable DEF Crash, store, TypeOK
<1>4. CASE UNCHANGED vars
  BY <1>4 DEF vars, TypeOK
<1>5. QED
  BY <1>1, <1>2, <1>3, <1>4, <1>6, <1>7, PreviewTyped, ClaimTyped, RowTyped DEF Next, Step

\* Every reachable state of an import is typed.
THEOREM TypeCorrect == Spec => []TypeOK
BY InitTyped, NextTyped, PTL DEF Spec

(***************************************************************************)
(* The inductive invariant                                                 *)
(***************************************************************************)

MadeRows(j) == {n \in RowNumber : Made(j, n)}

\* A key held by the account of a row means that the account was made: the
\* code it has may be another than the row's, its email is the row's.
KeysWhole ==
    \A k \in Key, j \in Job, n \in RowNumber : holder[k] = <<j, n>> => Made(j, n)

\* A row the preview accepted and nothing has failed, or with an account.
Accepted(j, n) == row[j][n] \in {"PENDING", "SUCCESS"} \/ Made(j, n)

\* What the rows of a job say of its accounts and of each other.
RowsFit(j) ==
    /\ \A n \in RowNumber : row[j][n] = "SUCCESS" => Made(j, n)
    /\ "fault" \notin env => \A n \in RowNumber : row[j][n] = "FAILED" => ~Made(j, n)
    /\ \A m, n \in RowNumber :
         m # n /\ Accepted(j, m) /\ Accepted(j, n)
           => Code[j][m] # Code[j][n] /\ Email[j][m] # Email[j][n]

\* What the status of a job says of its rows.
StatusFits(j) ==
    /\ Previewed(j) \/ \A n \in RowNumber : row[j][n] = "NONE"
    /\ status[j] = "NONE" => \A n \in RowNumber : row[j][n] = "NONE"
    /\ status[j] \in {"NONE", "PREVIEW"} =>
         \A n \in RowNumber : row[j][n] # "SUCCESS" /\ ~Made(j, n)
    /\ status[j] \in {"PROCESSING", "COMPLETED"} => Previewed(j)

\* The report of a job that is COMPLETED.
Reported(j) ==
    status[j] = "COMPLETED" =>
      /\ \A n \in RowNumber : row[j][n] # "PENDING"
      /\ counts[j].failed = Cardinality(RowsIn(j, "FAILED"))
      /\ Cardinality(RowsIn(j, "SUCCESS")) <= counts[j].success
      /\ counts[j].success <= Cardinality(MadeRows(j))
      /\ "fault" \notin env => counts[j].success = Cardinality(RowsIn(j, "SUCCESS"))

\* A preview under way is alone with its job, and its valid rows fit together.
PreviewerKnows(r) ==
    pc[r] \in PreviewPC =>
      /\ status[loc[r].job] = IF pc[r] = "saveRows" THEN "PREVIEW" ELSE "NONE"
      /\ \A n \in RowNumber : row[loc[r].job][n] = "NONE"
      /\ \A n \in loc[r].valid : ~Repeats(loc[r].job, n)

\* A confirmation knows a job whose rows are saved, and once it has claimed
\* the job, that the job is PROCESSING.
ConfirmerKnows(r) ==
    /\ pc[r] = "claim" => Previewed(loc[r].job)
    /\ Processing(r) => status[loc[r].job] = "PROCESSING"
    /\ pc[r] = "readRows" =>
         \A n \in RowNumber : row[loc[r].job][n] \in {"PENDING", "FAILED"} /\ ~Made(loc[r].job, n)

\* A row not reached yet is PENDING and has no account.
Untouched(j, n) == row[j][n] = "PENDING" /\ ~Made(j, n)

\* The rows left are those that are not decided, and how far the current one
\* has come is what the request remembers.
LoopKnows(r) ==
    LET j == loc[r].job
        n == Current(r)
    IN /\ pc[r] \in RowPC \cup {"complete"} =>
            \A m \in RowNumber : row[j][m] = "PENDING" => m \in loc[r].todo
       /\ pc[r] \in RowPC => \A m \in loc[r].todo \ {n} : Untouched(j, m)
       /\ pc[r] \in {"check", "create"} => Untouched(j, n)
       /\ pc[r] = "markSuccess" => row[j][n] = "PENDING" /\ Made(j, n)
       /\ pc[r] = "markFailed" =>
            /\ row[j][n] \in {"PENDING", "SUCCESS"}
            /\ "fault" \notin env => Untouched(j, n)

One(b) == IF b THEN 1 ELSE 0

\* The counters of the loop, one ahead of the row that is about to be marked.
CountersKnow(r) ==
    LET j == loc[r].job
        marked == Cardinality(RowsIn(j, "SUCCESS")) + One(pc[r] = "markSuccess")
    IN pc[r] \in RowPC \cup {"complete"} =>
         /\ loc[r].failed = Cardinality(RowsIn(j, "FAILED")) + One(pc[r] = "markFailed")
         /\ marked <= loc[r].success
         /\ loc[r].success <= Cardinality(MadeRows(j))
         /\ "fault" \notin env => loc[r].success = marked

JobKnows(j) == RowsFit(j) /\ StatusFits(j) /\ Reported(j)

RequestKnows(r) ==
    PreviewerKnows(r) /\ ConfirmerKnows(r) /\ LoopKnows(r) /\ CountersKnow(r)

\* No two previews, and no two confirmations past their claim, have one job.
Apart ==
    \A q, r \in Request :
      /\ q # r
      /\ \/ pc[q] \in PreviewPC /\ pc[r] \in PreviewPC
         \/ Processing(q) /\ Processing(r)
      => loc[q].job # loc[r].job

ImportInv ==
    /\ TypeOK
    /\ KeysWhole
    /\ Apart
    /\ \A j \in Job : JobKnows(j)
    /\ \A r \in Request : RequestKnows(r)

(***************************************************************************)
(* What a step leaves alone                                                *)
(***************************************************************************)

\* A step says nothing new of a job.
TableStays(j) ==
    /\ status'[j] = status[j] /\ counts'[j] = counts[j] /\ row'[j] = row[j]
    /\ \A n \in RowNumber : Made(j, n)' <=> Made(j, n)

\* The keys of a row are keys.
LEMMA KeysOfRow ==
    ASSUME NEW j \in Job, NEW n \in RowNumber
    PROVE  Code[j][n] \in Key /\ Email[j][n] \in Key
BY ImportAssumption

\* What is known of a job depends on its tables only.
LEMMA JobStays ==
    ASSUME NEW j \in Job, TableStays(j), UNCHANGED env, JobKnows(j)
    PROVE  JobKnows(j)'
<1>1. /\ \A s : RowsIn(j, s)' = RowsIn(j, s)
      /\ MadeRows(j)' = MadeRows(j)
  BY DEF TableStays, RowsIn, MadeRows
<1>2. RowsFit(j)'
  BY DEF TableStays, JobKnows, RowsFit, Accepted
<1>3. StatusFits(j)'
  BY DEF TableStays, JobKnows, StatusFits, Previewed
<1>4. Reported(j)'
  BY <1>1 DEF TableStays, JobKnows, Reported
<1>5. QED
  BY <1>2, <1>3, <1>4 DEF JobKnows

\* The job of a request that is not idle, and the row it is at.
LEMMA JobOf ==
    ASSUME TypeOK, NEW r \in Request, pc[r] # "idle"
    PROVE  /\ loc[r].job \in Job
           /\ pc[r] \in RowPC => /\ loc[r] \in RowFrame
                                 /\ Current(r) \in loc[r].todo
                                 /\ Current(r) \in RowNumber
<1>1. loc[r] \in PreviewFrame \cup ClaimFrame \cup RowFrame \cup EndFrame
  BY FrameTable DEF TypeOK, PC
<1>2. loc[r].job \in Job
  BY <1>1 DEF PreviewFrame, ClaimFrame, RowFrame, EndFrame, ConfirmFrame
<1>3. pc[r] \in RowPC => loc[r] \in RowFrame
  BY FrameTable DEF TypeOK
<1>4. QED
  BY <1>2, <1>3, CurrentRow

\* A request that does not move still knows what it knew of its job, when the
\* step leaves that job alone.
LEMMA RequestStays ==
    ASSUME TypeOK, UNCHANGED env, NEW q \in Request,
           pc'[q] = pc[q], loc'[q] = loc[q],
           pc[q] # "idle" => TableStays(loc[q].job),
           RequestKnows(q)
    PROVE  RequestKnows(q)'
<1>1. CASE pc[q] = "idle"
  BY <1>1 DEF RequestKnows, PreviewerKnows, ConfirmerKnows, LoopKnows, CountersKnow,
              Processing, PreviewPC, RowPC
<1>2. CASE pc[q] # "idle"
  <2>1. PICK j \in Job : TableStays(j) /\ loc[q].job = j /\ loc'[q].job = j
    BY <1>2, JobOf
  <2>2. /\ \A s : RowsIn(j, s)' = RowsIn(j, s)
        /\ MadeRows(j)' = MadeRows(j)
    BY <2>1 DEF TableStays, RowsIn, MadeRows
  <2>3. Current(q)' = Current(q)
    BY DEF Current
  <2>4. PreviewerKnows(q)'
    BY <2>1 DEF RequestKnows, PreviewerKnows, TableStays, Repeats, RepeatsInTeacherFile,
                RepeatsInStudentFile
  <2>5. ConfirmerKnows(q)'
    BY <2>1 DEF RequestKnows, ConfirmerKnows, TableStays, Processing, Previewed
  <2>6. CountersKnow(q)'
    BY <2>1, <2>2 DEF RequestKnows, CountersKnow, One
  <2>7. LoopKnows(q)'
    <3>1. \A m \in RowNumber : Untouched(j, m)' <=> Untouched(j, m)
      BY <2>1 DEF Untouched, TableStays
    <3>2. pc[q] \in RowPC => Current(q) \in RowNumber /\ loc[q].todo \subseteq RowNumber
      BY <1>2, JobOf DEF RowFrame, ConfirmFrame
    <3>5. \A n \in RowNumber : Made(j, n)' <=> Made(j, n)
      BY <2>1 DEF TableStays
    <3>6. row'[j] = row[j] /\ loc'[q].todo = loc[q].todo
      BY <2>1 DEF TableStays
    <3>7. LoopKnows(q)
      BY DEF RequestKnows
    <3>8. QED
      BY <2>1, <2>3, <3>1, <3>2, <3>5, <3>6, <3>7 DEF LoopKnows, RowPC
  <2>8. QED
    BY <2>4, <2>5, <2>6, <2>7 DEF RequestKnows
<1>3. QED
  BY <1>1, <1>2

\* Nothing is known of a request that has answered, and of one that is about to
\* claim a job only that the job has its rows.
LEMMA EarlyKnows ==
    ASSUME NEW r \in Request,
           \/ pc'[r] = "idle"
           \/ pc'[r] = "claim" /\ Previewed(loc[r].job)'
    PROVE  RequestKnows(r)'
BY DEF RequestKnows, PreviewerKnows, ConfirmerKnows, LoopKnows, CountersKnow,
       Processing, PreviewPC, RowPC, Previewed

\* The requests other than one stay where they are.
OthersStay(r) == \A q \in Request \ {r} : pc'[q] = pc[q] /\ loc'[q] = loc[q]

\* A step of a request that changes only what it knows.
LEMMA QuietStep ==
    ASSUME ImportInv, TypeOK', UNCHANGED store, NEW r \in Request, OthersStay(r),
           RequestKnows(r)', Apart'
    PROVE  ImportInv'
<1>1. UNCHANGED env /\ \A j \in Job : TableStays(j)
  BY DEF store, TableStays, Made
<1>2. KeysWhole'
  BY DEF store, ImportInv, KeysWhole, Made
<1>3. \A j \in Job : JobKnows(j)'
  BY <1>1, JobStays DEF ImportInv
<1>4. ASSUME NEW q \in Request \ {r} PROVE RequestKnows(q)'
  <2>1. RequestKnows(q) /\ TypeOK
    BY DEF ImportInv
  <2>2. pc[q] # "idle" => TableStays(loc[q].job)
    BY <1>1, <2>1, JobOf
  <2>3. QED
    BY <1>1, <2>1, <2>2, RequestStays DEF OthersStay
<1>5. QED
  BY <1>2, <1>3, <1>4 DEF ImportInv

\* The requests past their claim, and the previews: those that work on a job.
Working(r) == pc[r] \notin {"idle", "claim"}

\* The request is the only one that works on its job.
Alone(r, j) == \A q \in Request \ {r} : Working(q) => loc[q].job # j

\* A step of a request that changes the tables of the job it works on.
LEMMA WorkStep ==
    ASSUME ImportInv, TypeOK', UNCHANGED env, NEW r \in Request, OthersStay(r),
           NEW j \in Job, Alone(r, j),
           \A i \in Job \ {j} : TableStays(i),
           Previewed(j) => Previewed(j)',
           Working(r)' => loc'[r].job = j,
           KeysWhole', JobKnows(j)', RequestKnows(r)'
    PROVE  ImportInv'
<1>1. ASSUME NEW i \in Job PROVE JobKnows(i)'
  BY JobStays DEF ImportInv
<1>2. ASSUME NEW q \in Request \ {r} PROVE RequestKnows(q)'
  <2>1. RequestKnows(q) /\ TypeOK
    BY DEF ImportInv
  <2>2. CASE ~Working(q) \/ loc[q].job # j
    <3>1. CASE pc[q] = "idle"
      BY <3>1, EarlyKnows DEF OthersStay
    <3>2. CASE pc[q] = "claim" /\ loc[q].job = j
      <4>1. Previewed(j)
        BY <2>1, <3>2 DEF RequestKnows, ConfirmerKnows
      <4>2. Previewed(loc[q].job)'
        BY <3>2, <4>1 DEF OthersStay
      <4>3. QED
        BY <3>2, <4>2, EarlyKnows DEF OthersStay
    <3>3. CASE pc[q] # "idle" /\ loc[q].job # j
      <4>1. TableStays(loc[q].job)
        BY <2>1, <3>3, JobOf
      <4>2. QED
        BY <2>1, <4>1, RequestStays DEF OthersStay
    <3>4. QED
      BY <2>2, <3>1, <3>2, <3>3 DEF Working
  <2>3. QED
    BY <2>2 DEF Alone
<1>3. Apart'
  <2>1. \A p \in PreviewPC : p \notin {"idle", "claim"}
    BY DEF PreviewPC
  <2>2. \A q \in Request :
          pc'[q] \in PreviewPC \/ Processing(q)' => Working(q)'
    BY <2>1 DEF Working, Processing, RowPC
  <2>3. \A q \in Request \ {r} : Working(q)' => loc'[q].job # j
    BY DEF OthersStay, Alone, Working
  <2>4. SUFFICES ASSUME NEW p \in Request, NEW q \in Request, p # q,
                        \/ pc'[p] \in PreviewPC /\ pc'[q] \in PreviewPC
                        \/ Processing(p)' /\ Processing(q)'
                 PROVE  loc'[p].job # loc'[q].job
    BY DEF Apart
  <2>5. CASE p # r /\ q # r
    <3>1. /\ pc'[p] = pc[p] /\ loc'[p] = loc[p]
          /\ pc'[q] = pc[q] /\ loc'[q] = loc[q]
      BY <2>5 DEF OthersStay
    <3>2. QED
      BY <2>4, <3>1 DEF ImportInv, Apart, Processing
  <2>6. CASE p = r \/ q = r
    BY <2>2, <2>3, <2>4, <2>6
  <2>7. QED
    BY <2>5, <2>6
<1>4. QED
  BY <1>1, <1>2, <1>3 DEF ImportInv

\* A file has a row.
LEMMA HasRow == 1 \in RowNumber
BY ImportAssumption DEF RowNumber

\* A request that works on a job is the only one.
LEMMA WorkerAlone ==
    ASSUME ImportInv, NEW r \in Request, Working(r)
    PROVE  Alone(r, loc[r].job)
<1> SUFFICES ASSUME NEW q \in Request \ {r}, Working(q), loc[q].job = loc[r].job
             PROVE  FALSE
  BY DEF Alone
<1>1. \A p \in Request : Working(p) => pc[p] \in PreviewPC \/ Processing(p)
  BY DEF ImportInv, TypeOK, Working, PC, Processing
<1>2. RequestKnows(q) /\ RequestKnows(r)
  BY DEF ImportInv
<1>3. ~(pc[q] \in PreviewPC /\ pc[r] \in PreviewPC) /\ ~(Processing(q) /\ Processing(r))
  BY DEF ImportInv, Apart
<1>4. ASSUME NEW p \in Request, RequestKnows(p) PROVE
        /\ pc[p] \in PreviewPC => status[loc[p].job] \in {"NONE", "PREVIEW"}
        /\ Processing(p) => status[loc[p].job] = "PROCESSING"
  BY <1>4 DEF RequestKnows, PreviewerKnows, ConfirmerKnows
<1>5. QED
  BY <1>1, <1>2, <1>3, <1>4

(***************************************************************************)
(* The preview keeps the invariant                                         *)
(***************************************************************************)

\* A preview begins alone with its job, which has no rows.
LEMMA PreviewReadCodesKeeps ==
    ASSUME ImportInv, TypeOK', NEW r \in Request, NEW j \in Job, PreviewReadCodes(r, j)
    PROVE  ImportInv'
<1>1. /\ pc'[r] = "emails" /\ OthersStay(r) /\ loc'[r].job = j
      /\ \A n \in loc'[r].valid : n \in RowNumber /\ ~Repeats(j, n)
      /\ UNCHANGED store
  BY DEF PreviewReadCodes, Goto, OthersStay, ImportInv, TypeOK
<1>2. status[j] = "NONE" /\ \A n \in RowNumber : row[j][n] = "NONE"
  BY DEF PreviewReadCodes, ImportInv, JobKnows, StatusFits
<1>3. RequestKnows(r)'
  <2>1. PreviewerKnows(r)'
    BY <1>1, <1>2 DEF PreviewerKnows, store, Repeats, RepeatsInTeacherFile,
                      RepeatsInStudentFile
  <2>2. ConfirmerKnows(r)' /\ LoopKnows(r)' /\ CountersKnow(r)'
    BY <1>1 DEF ConfirmerKnows, LoopKnows, CountersKnow, Processing, RowPC
  <2>3. QED
    BY <2>1, <2>2 DEF RequestKnows
<1>4. Apart'
  <2>1. \A q \in Request : pc[q] \in PreviewPC => loc[q].job # j
    BY DEF PreviewReadCodes
  <2>2. QED
    BY <1>1, <2>1 DEF ImportInv, Apart, OthersStay, Processing, RowPC
<1>5. QED
  BY <1>1, <1>3, <1>4, QuietStep

\* Reading the emails leaves fewer valid rows.
LEMMA PreviewReadEmailsKeeps ==
    ASSUME ImportInv, TypeOK', NEW r \in Request, PreviewReadEmails(r)
    PROVE  ImportInv'
<1>1. loc[r] \in PreviewFrame /\ pc[r] = "emails"
  BY FrameTable DEF PreviewReadEmails, ImportInv, TypeOK, PreviewPC
<1>2. /\ pc'[r] = "saveJob" /\ OthersStay(r) /\ loc'[r].job = loc[r].job
      /\ loc'[r].valid \subseteq loc[r].valid
      /\ UNCHANGED store
  BY <1>1 DEF PreviewReadEmails, Goto, OthersStay, ImportInv, TypeOK, PreviewFrame
<1>3. PreviewerKnows(r)
  BY DEF ImportInv, RequestKnows
<1>4. RequestKnows(r)'
  <2>1. PreviewerKnows(r)'
    BY <1>1, <1>2, <1>3 DEF PreviewerKnows, PreviewPC, store, Repeats, RepeatsInTeacherFile,
                            RepeatsInStudentFile
  <2>2. ConfirmerKnows(r)' /\ LoopKnows(r)' /\ CountersKnow(r)'
    BY <1>2 DEF ConfirmerKnows, LoopKnows, CountersKnow, Processing, RowPC
  <2>3. QED
    BY <2>1, <2>2 DEF RequestKnows
<1>5. Apart'
  BY <1>1, <1>2 DEF ImportInv, Apart, OthersStay, Processing, RowPC, PreviewPC
<1>6. QED
  BY <1>2, <1>4, <1>5, QuietStep

\* The job of a preview is saved without rows.
LEMMA PreviewSaveJobKeeps ==
    ASSUME ImportInv, TypeOK', NEW r \in Request, PreviewSaveJob(r)
    PROVE  ImportInv'
<1>1. PICK j \in Job : loc[r].job = j
  BY JobOf DEF PreviewSaveJob, ImportInv
<1>2. /\ pc[r] = "saveJob" /\ pc'[r] = "saveRows" /\ OthersStay(r) /\ loc'[r] = loc[r]
      /\ status'[j] = "PREVIEW" /\ \A i \in Job \ {j} : status'[i] = status[i]
      /\ UNCHANGED <<env, counts, row, holder>>
  BY <1>1 DEF PreviewSaveJob, Goto, OthersStay, ImportInv, TypeOK
<1>3. /\ status[j] = "NONE"
      /\ \A n \in RowNumber : row[j][n] = "NONE"
      /\ \A n \in loc[r].valid : ~Repeats(j, n)
  BY <1>1, <1>2 DEF ImportInv, RequestKnows, PreviewerKnows, PreviewPC
<1>4. /\ \A i \in Job \ {j} : TableStays(i)
      /\ \A i \in Job, n \in RowNumber : Made(i, n)' <=> Made(i, n)
      /\ KeysWhole'
  BY <1>2 DEF TableStays, Made, ImportInv, KeysWhole
<1>5. JobKnows(j)'
  <2>1. JobKnows(j)
    BY DEF ImportInv
  <2>2. RowsFit(j)'
    BY <1>2, <1>4, <2>1 DEF JobKnows, RowsFit, Accepted
  <2>3. StatusFits(j)'
    BY <1>2, <1>3, <1>4, <2>1 DEF JobKnows, StatusFits, Previewed
  <2>4. Reported(j)'
    BY <1>2 DEF Reported
  <2>5. QED
    BY <2>2, <2>3, <2>4 DEF JobKnows
<1>6. RequestKnows(r)'
  <2>1. PreviewerKnows(r)'
    BY <1>1, <1>2, <1>3 DEF PreviewerKnows, Repeats, RepeatsInTeacherFile,
                            RepeatsInStudentFile
  <2>2. ConfirmerKnows(r)' /\ LoopKnows(r)' /\ CountersKnow(r)'
    BY <1>2 DEF ConfirmerKnows, LoopKnows, CountersKnow, Processing, RowPC
  <2>3. QED
    BY <2>1, <2>2 DEF RequestKnows
<1>7. Alone(r, j) /\ loc'[r].job = j /\ (Previewed(j) => Previewed(j)')
  BY <1>1, <1>2, WorkerAlone DEF Working, Previewed
<1>8. QED
  BY <1>2, <1>4, <1>5, <1>6, <1>7, WorkStep

\* Two rows that the validator lets pass have no key in common.
LEMMA ValidRowsDiffer ==
    ASSUME NEW j \in Job, NEW m \in RowNumber, NEW n \in RowNumber, m # n,
           ~Repeats(j, m), ~Repeats(j, n)
    PROVE  Code[j][m] # Code[j][n] /\ Email[j][m] # Email[j][n]
<1>1. m < n \/ n < m
  BY ImportAssumption DEF RowNumber
<1>2. QED
  BY <1>1 DEF Repeats, RepeatsInStudentFile, RepeatsInTeacherFile

\* The rows of a preview are saved: none is made, and those PENDING fit together.
LEMMA PreviewSaveRowsKeeps ==
    ASSUME ImportInv, TypeOK', NEW r \in Request, PreviewSaveRows(r)
    PROVE  ImportInv'
<1>1. PICK j \in Job : loc[r].job = j
  BY JobOf DEF PreviewSaveRows, ImportInv
<1>2. /\ pc[r] = "saveRows" /\ pc'[r] = "idle" /\ OthersStay(r)
      /\ \A n \in RowNumber : row'[j][n] = IF n \in loc[r].valid THEN "PENDING" ELSE "FAILED"
      /\ \A i \in Job \ {j} : row'[i] = row[i]
      /\ UNCHANGED <<env, counts, status, holder>>
  BY <1>1 DEF PreviewSaveRows, Finish, Goto, OthersStay, ImportInv, TypeOK
<1>3. /\ status[j] = "PREVIEW"
      /\ \A n \in RowNumber : row[j][n] = "NONE"
      /\ \A n \in loc[r].valid : ~Repeats(j, n)
  BY <1>1, <1>2 DEF ImportInv, RequestKnows, PreviewerKnows, PreviewPC
<1>4. /\ \A i \in Job \ {j} : TableStays(i)
      /\ \A i \in Job, n \in RowNumber : Made(i, n)' <=> Made(i, n)
      /\ KeysWhole'
  BY <1>2 DEF TableStays, Made, ImportInv, KeysWhole
<1>5. \A n \in RowNumber : ~Made(j, n)
  BY <1>3 DEF ImportInv, JobKnows, StatusFits
<1>6. JobKnows(j)'
  <2>1. RowsFit(j)'
    <3>1. \A n \in RowNumber : Accepted(j, n)' => ~Repeats(j, n)
      BY <1>2, <1>3, <1>4, <1>5 DEF Accepted
    <3>2. QED
      BY <1>2, <1>4, <1>5, <3>1, ValidRowsDiffer DEF RowsFit
  <2>2. StatusFits(j)'
    BY <1>2, <1>3, <1>4, <1>5 DEF StatusFits, Previewed
  <2>3. Reported(j)'
    BY <1>2, <1>3 DEF Reported
  <2>4. QED
    BY <2>1, <2>2, <2>3 DEF JobKnows
<1>7. RequestKnows(r)' /\ ~Working(r)'
  BY <1>2, EarlyKnows DEF Working
<1>8. Alone(r, j) /\ (Previewed(j) => Previewed(j)')
  BY <1>1, <1>2, WorkerAlone DEF Working, Previewed
<1>9. QED
  BY <1>2, <1>4, <1>6, <1>7, <1>8, WorkStep

(***************************************************************************)
(* The claim keeps the invariant                                           *)
(***************************************************************************)

\* A confirmation begins with a job that has its rows.
LEMMA ConfirmReadKeeps ==
    ASSUME ImportInv, TypeOK', NEW r \in Request, NEW j \in Job, ConfirmRead(r, j)
    PROVE  ImportInv'
<1>1. /\ pc'[r] = "claim" /\ OthersStay(r) /\ loc'[r].job = j
      /\ UNCHANGED store /\ Previewed(j)
  BY DEF ConfirmRead, Goto, OthersStay, ImportInv, TypeOK
<1>2. RequestKnows(r)'
  <2>1. Previewed(loc[r].job)'
    BY <1>1 DEF Previewed, store
  <2>2. QED
    BY <1>1, <2>1, EarlyKnows
<1>3. Apart'
  BY <1>1 DEF ImportInv, Apart, OthersStay, Processing, RowPC, PreviewPC
<1>4. QED
  BY <1>1, <1>2, <1>3, QuietStep

\* A request gives up, or finds its job claimed by another.
LEMMA FinishKeeps ==
    ASSUME ImportInv, TypeOK', NEW r \in Request, Finish(r), UNCHANGED store
    PROVE  ImportInv'
<1>1. pc'[r] = "idle" /\ OthersStay(r)
  BY DEF Finish, Goto, OthersStay, ImportInv, TypeOK
<1>2. RequestKnows(r)'
  BY <1>1, EarlyKnows
<1>3. Apart'
  BY <1>1 DEF ImportInv, Apart, OthersStay, Processing, RowPC, PreviewPC
<1>4. QED
  BY <1>1, <1>2, <1>3, QuietStep

\* The claim: the conditional UPDATE lets one request through, and nobody else
\* was working on the job.
LEMMA ConfirmClaimKeeps ==
    ASSUME ImportInv, TypeOK', NEW r \in Request, ConfirmClaim(r)
    PROVE  ImportInv'
<1>1. PICK j \in Job : loc[r].job = j
  BY JobOf DEF ConfirmClaim, ImportInv
<1>2. CASE ~Claims(j)
  BY <1>1, <1>2, FinishKeeps DEF ConfirmClaim, store
<1>3. CASE Claims(j)
  <2>1. /\ pc[r] = "claim" /\ pc'[r] = "readRows" /\ OthersStay(r) /\ loc'[r] = loc[r]
        /\ status[j] = "PREVIEW" /\ status'[j] = "PROCESSING"
        /\ \A i \in Job \ {j} : status'[i] = status[i]
        /\ UNCHANGED <<env, counts, row, holder>>
    BY <1>1, <1>3 DEF ConfirmClaim, Claims, Claimable, Goto, OthersStay, ImportInv, TypeOK
  <2>2. Previewed(j)
    BY <1>1, <2>1 DEF ImportInv, RequestKnows, ConfirmerKnows
  <2>3. /\ \A i \in Job \ {j} : TableStays(i)
        /\ \A i \in Job, n \in RowNumber : Made(i, n)' <=> Made(i, n)
        /\ KeysWhole'
    BY <2>1 DEF TableStays, Made, ImportInv, KeysWhole
  <2>4. Alone(r, j)
    <3> SUFFICES ASSUME NEW q \in Request \ {r}, Working(q), loc[q].job = j
                 PROVE  FALSE
      BY DEF Alone
    <3>1. pc[q] \in PreviewPC \/ Processing(q)
      BY DEF ImportInv, TypeOK, Working, PC, Processing
    <3>2. PreviewerKnows(q) /\ ConfirmerKnows(q)
      BY DEF ImportInv, RequestKnows
    <3>3. row[j][1] # "NONE" /\ 1 \in RowNumber
      BY <2>2, HasRow DEF Previewed
    <3>4. QED
      BY <2>1, <3>1, <3>2, <3>3 DEF PreviewerKnows, ConfirmerKnows
  <2>5. JobKnows(j) /\ \A n \in RowNumber : row[j][n] \in {"PENDING", "FAILED"} /\ ~Made(j, n)
    <3>1. JobKnows(j)
      BY DEF ImportInv
    <3>2. \A n \in RowNumber : row[j][n] \in RowStatus /\ row[j][n] # "SUCCESS" /\ ~Made(j, n)
      BY <2>1, <2>2, <3>1 DEF ImportInv, TypeOK, JobKnows, StatusFits, Previewed
    <3>3. QED
      BY <3>1, <3>2 DEF RowStatus
  <2>6. JobKnows(j)'
    <3>1. RowsFit(j)'
      BY <2>1, <2>3, <2>5 DEF JobKnows, RowsFit, Accepted
    <3>2. StatusFits(j)'
      BY <2>1, <2>2, <2>3 DEF StatusFits, Previewed
    <3>3. Reported(j)'
      BY <2>1 DEF Reported
    <3>4. QED
      BY <3>1, <3>2, <3>3 DEF JobKnows
  <2>7. RequestKnows(r)'
    <3>1. ConfirmerKnows(r)'
      BY <1>1, <2>1, <2>3, <2>5 DEF ConfirmerKnows
    <3>2. PreviewerKnows(r)' /\ LoopKnows(r)' /\ CountersKnow(r)'
      BY <2>1 DEF PreviewerKnows, LoopKnows, CountersKnow, RowPC, PreviewPC
    <3>3. QED
      BY <3>1, <3>2 DEF RequestKnows
  <2>8. loc'[r].job = j /\ (Previewed(j) => Previewed(j)')
    BY <1>1, <2>1 DEF Previewed
  <2>9. QED
    BY <2>1, <2>3, <2>4, <2>6, <2>7, <2>8, WorkStep
<1>4. QED
  BY <1>2, <1>3

(***************************************************************************)
(* The loop over the rows keeps the invariant                              *)
(***************************************************************************)

\* A step of the loop that leaves the tables alone leaves the requests apart.
LEMMA LoopApart ==
    ASSUME ImportInv, NEW r \in Request, Processing(r), Processing(r)',
           loc'[r].job = loc[r].job, OthersStay(r)
    PROVE  Apart'
BY DEF ImportInv, Apart, OthersStay, Processing, RowPC, PreviewPC

\* Nothing is known of a request in the loop as a previewer or as a reader of rows.
LEMMA InLoopKnows ==
    ASSUME NEW r \in Request, pc'[r] \in RowPC \cup {"complete"},
           (status[loc[r].job] = "PROCESSING")', LoopKnows(r)', CountersKnow(r)'
    PROVE  RequestKnows(r)'
BY DEF RequestKnows, PreviewerKnows, ConfirmerKnows, Processing, RowPC, PreviewPC

\* What is known of a request in the loop, of the job by its name.
LEMMA LoopFacts ==
    ASSUME ImportInv, NEW r \in Request, pc[r] \in RowPC
    PROVE  \E j \in Job, n \in RowNumber :
             /\ loc[r].job = j /\ Current(r) = n /\ n \in loc[r].todo
             /\ loc[r] \in RowFrame
             /\ status[j] = "PROCESSING"
             /\ KeysWhole /\ JobKnows(j) /\ LoopKnows(r) /\ CountersKnow(r)
             /\ Alone(r, j) /\ Processing(r)
<1>1. pc[r] \notin {"idle", "claim"} /\ Processing(r)
  BY DEF RowPC, Processing
<1>2. status[loc[r].job] = "PROCESSING" /\ LoopKnows(r) /\ CountersKnow(r)
  BY <1>1 DEF ImportInv, RequestKnows, ConfirmerKnows
<1>3. Alone(r, loc[r].job)
  BY <1>1, WorkerAlone DEF Working
<1>4. QED
  BY <1>1, <1>2, <1>3, JobOf DEF ImportInv

\* The rows of the job are read: those PENDING are left to do.
LEMMA ConfirmReadRowsKeeps ==
    ASSUME ImportInv, TypeOK', NEW r \in Request, ConfirmReadRows(r)
    PROVE  ImportInv'
<1>1. PICK j \in Job : loc[r].job = j
  BY JobOf DEF ConfirmReadRows, ImportInv
<1>2. /\ loc'[r] = [job |-> j, todo |-> ToImport(j), success |-> 0,
                    failed |-> Cardinality(RowsIn(j, "FAILED"))]
      /\ pc'[r] = IF ToImport(j) = {} THEN "complete" ELSE "check"
      /\ OthersStay(r) /\ UNCHANGED store /\ pc[r] = "readRows"
  BY <1>1 DEF ConfirmReadRows, Continue, Goto, OthersStay, ImportInv, TypeOK
<1>3. /\ loc'[r].job = j /\ loc'[r].todo = ToImport(j) /\ loc'[r].success = 0
      /\ loc'[r].failed = Cardinality(RowsIn(j, "FAILED"))
  BY <1>2
<1>4. /\ status[j] = "PROCESSING"
      /\ \A n \in RowNumber : row[j][n] \in {"PENDING", "FAILED"} /\ ~Made(j, n)
  BY <1>1, <1>2 DEF ImportInv, RequestKnows, ConfirmerKnows, Processing
<1>5. /\ RowsIn(j, "SUCCESS")' = {} /\ Cardinality(RowsIn(j, "SUCCESS"))' = 0
      /\ RowsIn(j, "FAILED")' = RowsIn(j, "FAILED")
      /\ MadeRows(j)' = {} /\ Cardinality(MadeRows(j))' = 0
  <2>1. RowsIn(j, "SUCCESS")' = {} /\ MadeRows(j)' = {}
    BY <1>2, <1>4 DEF store, RowsIn, MadeRows, Made
  <2>2. RowsIn(j, "FAILED")' = RowsIn(j, "FAILED")
    BY <1>2 DEF store, RowsIn
  <2>3. QED
    BY <2>1, <2>2, FS_EmptySet
<1>6. Cardinality(RowsIn(j, "FAILED")) \in Nat
  BY RowsFinite
<1>7. LoopKnows(r)'
  <2>1. ToImport(j) \subseteq RowNumber /\ \A m \in ToImport(j) : Untouched(j, m)'
    BY <1>2, <1>4 DEF ToImport, RowsIn, Untouched, Made, store
  <2>2. \A m \in RowNumber : (row[j][m] = "PENDING")' => m \in ToImport(j)
    BY <1>2 DEF ToImport, RowsIn, store
  <2>3. pc'[r] = "check" => Current(r)' \in ToImport(j)
    <3>1. CASE ToImport(j) # {}
      <4>1. ToImport(j) \subseteq Nat
        BY <2>1, RowSetFinite
      <4>2. QED
        BY <1>3, <3>1, <4>1, LeastElement DEF Current
    <3>2. QED
      BY <1>2, <3>1
  <2>4. QED
    BY <1>2, <1>3, <2>1, <2>2, <2>3 DEF LoopKnows, RowPC
<1>8. CountersKnow(r)'
  BY <1>2, <1>3, <1>5, <1>6 DEF CountersKnow, One, RowPC
<1>9. RequestKnows(r)'
  <2>1. pc'[r] \in RowPC \cup {"complete"} /\ (status[loc[r].job] = "PROCESSING")'
    BY <1>2, <1>3, <1>4 DEF RowPC, store
  <2>2. QED
    BY <1>7, <1>8, <2>1, InLoopKnows
<1>10. Apart'
  <2>1. Processing(r) /\ Processing(r)' /\ loc'[r].job = loc[r].job
    BY <1>1, <1>2, <1>3 DEF Processing, RowPC
  <2>2. QED
    BY <1>2, <2>1, LoopApart
<1>11. QED
  BY <1>2, <1>9, <1>10, QuietStep

\* Of an accepted row without account, a key that is taken is taken elsewhere:
\* the accounts of its file have emails of their own, and codes of their own
\* unless they were given another.
LEMMA TakenByAnother ==
    ASSUME TypeOK, KeysWhole, NEW j \in Job, NEW n \in RowNumber,
           RowsFit(j), Untouched(j, n), ~KeysFree(j, n)
    PROVE  TakenElsewhere(Code[j][n], j) \/ TakenElsewhere(Email[j][n], j)
<1>1. ASSUME NEW m \in RowNumber, NEW k \in {Code[j][n], Email[j][n]}, holder[k] = <<j, m>>,
             k \in {Code[j][m], Email[j][m]}
      PROVE  FALSE
  <2>1. k \in Key
    BY KeysOfRow
  <2>2. Made(j, m)
    BY <1>1, <2>1 DEF KeysWhole
  <2>3. m # n
    BY <2>2 DEF Untouched
  <2>4. Code[j][m] # Code[j][n] /\ Email[j][m] # Email[j][n]
    BY <2>2, <2>3 DEF RowsFit, Accepted, Untouched
  <2>5. Code[j][m] # Email[j][n] /\ Code[j][n] # Email[j][m]
    BY ImportAssumption
  <2>6. QED
    BY <1>1, <2>4, <2>5
<1>2. QED
  BY <1>1 DEF KeysFree, TakenElsewhere

\* A row that is refused before it has an account is counted as failed.
LEMMA RefusedKeeps ==
    ASSUME ImportInv, TypeOK', NEW r \in Request, pc[r] \in {"check", "create"},
           Catch(r, loc[r]), UNCHANGED store
    PROVE  ImportInv'
<1>1. pc[r] \in {"check", "create"} /\ pc[r] \in RowPC
  BY DEF RowPC
<1>2. PICK j \in Job, n \in RowNumber :
             /\ loc[r].job = j /\ Current(r) = n /\ n \in loc[r].todo
             /\ loc[r] \in RowFrame
             /\ status[j] = "PROCESSING"
             /\ KeysWhole /\ JobKnows(j) /\ LoopKnows(r) /\ CountersKnow(r)
             /\ Alone(r, j) /\ Processing(r)
  BY <1>1, LoopFacts
<1>3. UNCHANGED store
  OBVIOUS
<1>4. /\ \A s : RowsIn(j, s)' = RowsIn(j, s)
      /\ MadeRows(j)' = MadeRows(j)
      /\ \A m \in RowNumber : Untouched(j, m)' <=> Untouched(j, m)
      /\ row'[j] = row[j] /\ env' = env /\ status'[j] = "PROCESSING"
  BY <1>2, <1>3 DEF store, RowsIn, MadeRows, Made, Untouched
<1>5. loc[r].todo \subseteq RowNumber /\ loc[r].failed \in Nat
  BY <1>2 DEF RowFrame, ConfirmFrame
<1>6. Untouched(j, n) /\ \A m \in loc[r].todo \ {n} : Untouched(j, m)
  BY <1>1, <1>2 DEF LoopKnows
<1>7. /\ pc'[r] = "markFailed" /\ OthersStay(r)
      /\ loc'[r].job = j /\ loc'[r].todo = loc[r].todo
      /\ loc'[r].success = loc[r].success /\ loc'[r].failed = loc[r].failed + 1
  BY <1>2 DEF Catch, Goto, OthersStay, ImportInv, TypeOK, RowFrame, ConfirmFrame
<1>8. Current(r)' = n
  BY <1>2, <1>7 DEF Current
<1>10. LoopKnows(r)'
  BY <1>1, <1>2, <1>4, <1>5, <1>6, <1>7, <1>8 DEF LoopKnows, RowPC, Untouched
<1>11. CountersKnow(r)'
  <2>1. Cardinality(RowsIn(j, "FAILED")) \in Nat
    BY RowsFinite
  <2>2. loc[r].failed = Cardinality(RowsIn(j, "FAILED"))
    BY <1>1, <1>2, <2>1 DEF CountersKnow, One
  <2>3. QED
    BY <1>1, <1>2, <1>4, <1>7, <2>1, <2>2 DEF CountersKnow, One, RowPC
<1>12. RequestKnows(r)'
  BY <1>2, <1>4, <1>7, <1>10, <1>11, InLoopKnows DEF RowPC
<1>13. Apart'
  BY <1>2, <1>7, LoopApart DEF Processing, RowPC
<1>14. QED
  BY <1>3, <1>7, <1>12, <1>13, QuietStep

\* The check decides whether to try the row.
LEMMA RowCheckKeeps ==
    ASSUME ImportInv, TypeOK', NEW r \in Request, RowCheck(r)
    PROVE  ImportInv'
<1>1. pc[r] = "check" /\ pc[r] \in RowPC
  BY DEF RowCheck, RowPC
<1>2. PICK j \in Job, n \in RowNumber :
             /\ loc[r].job = j /\ Current(r) = n /\ n \in loc[r].todo
             /\ loc[r] \in RowFrame
             /\ status[j] = "PROCESSING"
             /\ KeysWhole /\ JobKnows(j) /\ LoopKnows(r) /\ CountersKnow(r)
             /\ Alone(r, j) /\ Processing(r)
  BY <1>1, LoopFacts
<1>3. UNCHANGED store
  BY DEF RowCheck
<1>4. /\ \A s : RowsIn(j, s)' = RowsIn(j, s)
      /\ MadeRows(j)' = MadeRows(j)
      /\ \A m \in RowNumber : Untouched(j, m)' <=> Untouched(j, m)
      /\ row'[j] = row[j] /\ env' = env /\ status'[j] = "PROCESSING"
  BY <1>2, <1>3 DEF store, RowsIn, MadeRows, Made, Untouched
<1>5. loc[r].todo \subseteq RowNumber /\ loc[r].failed \in Nat
  BY <1>2 DEF RowFrame, ConfirmFrame
<1>6. Untouched(j, n) /\ \A m \in loc[r].todo \ {n} : Untouched(j, m)
  BY <1>1, <1>2 DEF LoopKnows
<1>7. CASE Goto(r, "create", loc[r])
  <2>1. pc'[r] = "create" /\ loc'[r] = loc[r] /\ OthersStay(r)
    BY <1>7 DEF Goto, OthersStay, ImportInv, TypeOK
  <2>2. Current(r)' = n
    BY <1>2, <2>1 DEF Current
  <2>3. LoopKnows(r)'
    BY <1>1, <1>2, <1>4, <1>5, <1>6, <2>1, <2>2 DEF LoopKnows, RowPC
  <2>4. CountersKnow(r)'
    BY <1>1, <1>2, <1>4, <2>1 DEF CountersKnow, One, RowPC
  <2>5. RequestKnows(r)'
    BY <1>2, <1>4, <2>1, <2>3, <2>4, InLoopKnows DEF RowPC
  <2>6. Apart'
    BY <1>2, <2>1, LoopApart DEF Processing, RowPC
  <2>7. QED
    BY <1>3, <2>1, <2>5, <2>6, QuietStep
<1>8. CASE Catch(r, loc[r])
  BY <1>1, <1>3, <1>8, RefusedKeeps
<1>9. QED
  BY <1>2, <1>7, <1>8 DEF RowCheck

\* What the transaction of a row does: it makes that account and no other.
LEMMA CreateMakes ==
    ASSUME TypeOK, KeysWhole, NEW j \in Job, NEW n \in RowNumber, KeysFree(j, n),
           holder' = [holder EXCEPT ![Code[j][n]] = <<j, n>>, ![Email[j][n]] = <<j, n>>]
    PROVE  /\ Made(j, n)' /\ ~Made(j, n)
           /\ \A i \in Job, m \in RowNumber :
                i # j \/ m # n => (Made(i, m)' <=> Made(i, m))
           /\ KeysWhole'
           /\ MadeRows(j)' = MadeRows(j) \cup {n}
           /\ Cardinality(MadeRows(j)) \in Nat
           /\ Cardinality(MadeRows(j))' = Cardinality(MadeRows(j)) + 1
<1> DEFINE c == Code[j][n]
           e == Email[j][n]
<1>1. c \in Key /\ e \in Key
  BY KeysOfRow
<1>2. \A k \in Key : holder'[k] = IF k \in {c, e} THEN <<j, n>> ELSE holder[k]
  BY <1>1 DEF TypeOK
<1>3. holder[c] = Nobody /\ holder[e] = Nobody
  BY DEF KeysFree
<1>4. Made(j, n)'
  BY <1>1, <1>2 DEF Made
<1>5. ~Made(j, n)
  BY <1>3 DEF Made, Nobody
<1>6. ASSUME NEW i \in Job, NEW m \in RowNumber, i # j \/ m # n
      PROVE  Made(i, m)' <=> Made(i, m)
  <2>0. <<i, m>> # <<j, n>> /\ <<i, m>> # Nobody
    BY <1>6 DEF Nobody
  <2>1. Code[i][m] \in Key /\ Email[i][m] \in Key
    BY KeysOfRow
  <2>2. \A k \in Key : holder'[k] = <<i, m>> <=> holder[k] = <<i, m>>
    <3> SUFFICES ASSUME NEW k \in Key
                 PROVE  holder'[k] = <<i, m>> <=> holder[k] = <<i, m>>
      OBVIOUS
    <3>1. CASE k = c \/ k = e
      <4>1. holder'[k] = <<j, n>> /\ holder[k] = Nobody
        BY <1>2, <1>3, <3>1
      <4>2. QED
        BY <2>0, <4>1
    <3>2. CASE k # c /\ k # e
      BY <1>2, <3>2
    <3>3. QED
      BY <3>1, <3>2
  <2>3. QED
    BY <2>1, <2>2 DEF Made
<1>8. KeysWhole'
  <2> SUFFICES ASSUME NEW k \in Key, NEW i \in Job, NEW m \in RowNumber,
                      holder'[k] = <<i, m>>, i # j \/ m # n
               PROVE  Made(i, m)'
    BY <1>4 DEF KeysWhole
  <2>1. <<i, m>> # <<j, n>>
    OBVIOUS
  <2>2. holder[k] = <<i, m>>
    BY <1>2, <2>1
  <2>3. QED
    BY <1>6, <2>2 DEF KeysWhole
<1>9. MadeRows(j)' = MadeRows(j) \cup {n} /\ n \notin MadeRows(j)
  BY <1>4, <1>5, <1>6 DEF MadeRows
<1>10. IsFiniteSet(MadeRows(j))
  BY RowSetFinite DEF MadeRows
<1>11. /\ Cardinality(MadeRows(j)) \in Nat
       /\ Cardinality(MadeRows(j))' = Cardinality(MadeRows(j)) + 1
  BY <1>9, <1>10, FS_AddElement, FS_CardinalityType
<1>12. QED
  BY <1>4, <1>5, <1>6, <1>8, <1>9, <1>11

\* The transaction of a row: it makes the account, or the row counts as failed.
LEMMA RowCreateKeeps ==
    ASSUME ImportInv, TypeOK', NEW r \in Request, RowCreate(r)
    PROVE  ImportInv'
<1>1. pc[r] = "create" /\ pc[r] \in RowPC
  BY DEF RowCreate, RowPC
<1>2. PICK j \in Job, n \in RowNumber :
             /\ loc[r].job = j /\ Current(r) = n /\ n \in loc[r].todo
             /\ loc[r] \in RowFrame
             /\ status[j] = "PROCESSING"
             /\ KeysWhole /\ JobKnows(j) /\ LoopKnows(r) /\ CountersKnow(r)
             /\ Alone(r, j) /\ Processing(r)
  BY <1>1, LoopFacts
<1>3. CASE UNCHANGED holder /\ Catch(r, loc[r])
  <2>1. UNCHANGED store
    BY <1>3 DEF RowCreate, store
  <2>2. QED
    BY <1>1, <1>3, <2>1, RefusedKeeps
<1>4. CASE /\ KeysFree(j, n)
           /\ holder' = [holder EXCEPT ![Code[j][n]] = <<j, n>>, ![Email[j][n]] = <<j, n>>]
           /\ \/ Goto(r, "markSuccess", [loc[r] EXCEPT !.success = @ + 1])
              \/ "fault" \in env /\ Catch(r, loc[r])
  <2>1. UNCHANGED <<env, status, counts, row>>
    BY DEF RowCreate
  <2>2. /\ Made(j, n)' /\ ~Made(j, n)
        /\ \A i \in Job, m \in RowNumber : i # j \/ m # n => (Made(i, m)' <=> Made(i, m))
        /\ KeysWhole'
        /\ MadeRows(j)' = MadeRows(j) \cup {n}
        /\ Cardinality(MadeRows(j)) \in Nat
        /\ Cardinality(MadeRows(j))' = Cardinality(MadeRows(j)) + 1
    BY <1>2, <1>4, CreateMakes DEF ImportInv
  <2>3. /\ loc[r].todo \subseteq RowNumber /\ loc[r].failed \in Nat /\ loc[r].success \in Nat
    BY <1>2 DEF RowFrame, ConfirmFrame
  <2>4. Untouched(j, n) /\ \A m \in loc[r].todo \ {n} : Untouched(j, m)
    BY <1>1, <1>2 DEF LoopKnows
  <2>5. /\ OthersStay(r) /\ loc'[r].job = j /\ loc'[r].todo = loc[r].todo
        /\ \/ /\ pc'[r] = "markSuccess"
              /\ loc'[r].success = loc[r].success + 1 /\ loc'[r].failed = loc[r].failed
           \/ /\ pc'[r] = "markFailed" /\ "fault" \in env
              /\ loc'[r].success = loc[r].success /\ loc'[r].failed = loc[r].failed + 1
    BY <1>2, <1>4 DEF Catch, Goto, OthersStay, ImportInv, TypeOK, RowFrame, ConfirmFrame
  <2>6. Current(r)' = n
    BY <1>2, <2>5 DEF Current
  <2>7. JobKnows(j)'
    <3>1. RowsFit(j)'
      BY <1>2, <2>1, <2>2, <2>4 DEF JobKnows, RowsFit, Accepted, Untouched
    <3>2. StatusFits(j)'
      BY <1>2, <2>1 DEF JobKnows, StatusFits, Previewed
    <3>3. Reported(j)'
      BY <1>2, <2>1 DEF Reported
    <3>4. QED
      BY <3>1, <3>2, <3>3 DEF JobKnows
  <2>8. LoopKnows(r)'
    <3>1. \A m \in loc[r].todo \ {n} : Untouched(j, m)'
      BY <2>1, <2>2, <2>3, <2>4 DEF Untouched
    <3>2. \A m \in RowNumber : (row[j][m] = "PENDING")' => m \in loc[r].todo
      BY <1>1, <1>2, <2>1 DEF LoopKnows, RowPC
    <3>3. (row[j][n])' = "PENDING"
      BY <2>1, <2>4 DEF Untouched
    <3>5. QED
      BY <2>1, <2>2, <2>5, <2>6, <3>1, <3>2, <3>3 DEF LoopKnows, RowPC
  <2>9. CountersKnow(r)'
    <3>1. /\ RowsIn(j, "FAILED")' = RowsIn(j, "FAILED")
          /\ RowsIn(j, "SUCCESS")' = RowsIn(j, "SUCCESS")
      BY <2>1 DEF RowsIn
    <3>2. /\ Cardinality(RowsIn(j, "FAILED")) \in Nat
          /\ Cardinality(RowsIn(j, "SUCCESS")) \in Nat
      BY RowsFinite
    <3>3. /\ loc[r].failed = Cardinality(RowsIn(j, "FAILED"))
          /\ Cardinality(RowsIn(j, "SUCCESS")) <= loc[r].success
          /\ loc[r].success <= Cardinality(MadeRows(j))
          /\ "fault" \notin env => loc[r].success = Cardinality(RowsIn(j, "SUCCESS"))
      BY <1>1, <1>2, <3>2 DEF CountersKnow, One
    <3>4. CASE pc'[r] = "markSuccess"
      <4>1. loc'[r].success = loc[r].success + 1 /\ loc'[r].failed = loc[r].failed
        BY <2>5, <3>4
      <4>2. QED
        BY <2>1, <2>2, <2>3, <2>5, <3>1, <3>2, <3>3, <3>4, <4>1 DEF CountersKnow, One
    <3>5. CASE pc'[r] = "markFailed"
      <4>1. /\ loc'[r].success = loc[r].success /\ loc'[r].failed = loc[r].failed + 1
            /\ "fault" \in env
        BY <2>5, <3>5
      <4>2. loc'[r].success <= Cardinality(MadeRows(j))'
        BY <2>2, <2>3, <3>3, <4>1
      <4>3. QED
        BY <2>1, <2>3, <2>5, <3>1, <3>2, <3>3, <3>5, <4>1, <4>2 DEF CountersKnow, One
    <3>6. QED
      BY <2>5, <3>4, <3>5
  <2>10. RequestKnows(r)'
    BY <1>2, <2>1, <2>5, <2>8, <2>9, InLoopKnows DEF RowPC
  <2>11. /\ \A i \in Job \ {j} : TableStays(i)
         /\ Previewed(j) => Previewed(j)'
    BY <2>1, <2>2 DEF TableStays, Previewed
  <2>12. QED
    BY <1>2, <2>1, <2>2, <2>5, <2>7, <2>10, <2>11, WorkStep
<1>5. QED
  BY <1>2, <1>3, <1>4 DEF RowCreate

\* Marking a row changes no other.
LEMMA MarkOne ==
    ASSUME TypeOK, NEW r \in Request, NEW j \in Job, NEW n \in RowNumber, NEW s,
           loc[r].job = j, Current(r) = n, Mark(r, s)
    PROVE  /\ row'[j][n] = s
           /\ \A i \in Job, m \in RowNumber : i # j \/ m # n => row'[i][m] = row[i][m]
           /\ \A i \in Job \ {j} : row'[i] = row[i]
BY DEF Mark, TypeOK

\* It moves the row from one status to another.
LEMMA MarkCounts ==
    ASSUME NEW j \in Job, NEW n \in RowNumber, NEW s,
           row[j][n] # s, row'[j][n] = s,
           \A m \in RowNumber : m # n => row'[j][m] = row[j][m]
    PROVE  /\ Cardinality(RowsIn(j, s))' = Cardinality(RowsIn(j, s)) + 1
           /\ \A t : t # s /\ row[j][n] # t => RowsIn(j, t)' = RowsIn(j, t)
           /\ \A t : t # s => Cardinality(RowsIn(j, t))' <= Cardinality(RowsIn(j, t))
<1>1. Cardinality(RowsIn(j, s))' = Cardinality(RowsIn(j, s)) + 1
  <2>1. RowsIn(j, s)' = RowsIn(j, s) \cup {n} /\ n \notin RowsIn(j, s)
    BY DEF RowsIn
  <2>2. QED
    BY <2>1, RowsFinite, FS_AddElement
<1>2. ASSUME NEW t, t # s, row[j][n] # t
      PROVE  RowsIn(j, t)' = RowsIn(j, t)
  BY <1>2 DEF RowsIn
<1>3. ASSUME NEW t, t # s
      PROVE  Cardinality(RowsIn(j, t))' <= Cardinality(RowsIn(j, t))
  <2>1. RowsIn(j, t)' \subseteq RowsIn(j, t)
    BY <1>3 DEF RowsIn
  <2>2. QED
    BY <2>1, RowsFinite, FS_Subset
<1>4. QED
  BY <1>1, <1>2, <1>3

\* What a request remembers when it is done with a row.
LEMMA DoneFacts ==
    ASSUME TypeOK, NEW r \in Request, loc[r] \in RowFrame, Done(r)
    PROVE  /\ pc'[r] = IF loc'[r].todo = {} THEN "complete" ELSE "check"
           /\ loc'[r].todo = loc[r].todo \ {Current(r)}
           /\ loc'[r].job = loc[r].job
           /\ loc'[r].success = loc[r].success /\ loc'[r].failed = loc[r].failed
           /\ OthersStay(r)
<1>1. loc'[r] = [loc[r] EXCEPT !.todo = @ \ {Current(r)}]
  BY DEF Done, Continue, Goto, TypeOK
<1>2. /\ loc'[r].todo = loc[r].todo \ {Current(r)}
      /\ loc'[r].job = loc[r].job
      /\ loc'[r].success = loc[r].success /\ loc'[r].failed = loc[r].failed
  BY <1>1 DEF RowFrame, ConfirmFrame
<1>3. pc'[r] = IF loc'[r].todo = {} THEN "complete" ELSE "check"
  BY <1>1 DEF Done, Continue, Goto, TypeOK
<1>4. OthersStay(r)
  BY DEF Done, Continue, Goto, OthersStay, TypeOK
<1>5. QED
  BY <1>2, <1>3, <1>4

\* When the current row is decided, the loop knows as much of the next one.
LEMMA DoneKnows ==
    ASSUME TypeOK, TypeOK', NEW r \in Request, NEW j \in Job, NEW n \in RowNumber,
           pc[r] \in RowPC, loc[r].job = j, Current(r) = n, loc[r] \in RowFrame,
           LoopKnows(r), Done(r), UNCHANGED holder,
           (row[j][n])' # "PENDING",
           \A m \in RowNumber : m # n => row'[j][m] = row[j][m]
    PROVE  LoopKnows(r)'
<1>1. /\ pc'[r] = IF loc'[r].todo = {} THEN "complete" ELSE "check"
      /\ loc'[r].todo = loc[r].todo \ {n} /\ loc'[r].job = j
  BY DoneFacts
<1>2. loc[r].todo \subseteq RowNumber
  BY DEF RowFrame, ConfirmFrame
<1>3. \A m \in loc[r].todo \ {n} : Untouched(j, m)'
  BY <1>2 DEF LoopKnows, Untouched, Made
<1>4. pc'[r] = "check" => Current(r)' \in loc'[r].todo
  <2>1. CASE pc'[r] = "check"
    <3>1. loc'[r].todo # {} /\ loc'[r].todo \subseteq RowNumber
      BY <1>1, <1>2, <2>1
    <3>2. loc'[r].todo \subseteq Nat
      BY <3>1, RowSetFinite
    <3>3. QED
      BY <3>1, <3>2, LeastElement DEF Current
  <2>2. QED
    BY <2>1
<1>5. \A m \in RowNumber : (row[j][m])' = "PENDING" => m \in loc'[r].todo
  BY <1>1 DEF LoopKnows, RowPC
<1>6. QED
  BY <1>1, <1>3, <1>4, <1>5 DEF LoopKnows, RowPC

\* The row of an account is marked SUCCESS; when the UPDATE fails, applied or
\* not, it is about to be marked FAILED.
LEMMA RowMarkSuccessKeeps ==
    ASSUME ImportInv, TypeOK', NEW r \in Request, RowMarkSuccess(r)
    PROVE  ImportInv'
<1>1. pc[r] = "markSuccess" /\ pc[r] \in RowPC
  BY DEF RowMarkSuccess, RowPC
<1>2. PICK j \in Job, n \in RowNumber :
             /\ loc[r].job = j /\ Current(r) = n /\ n \in loc[r].todo
             /\ loc[r] \in RowFrame
             /\ status[j] = "PROCESSING"
             /\ KeysWhole /\ JobKnows(j) /\ LoopKnows(r) /\ CountersKnow(r)
             /\ Alone(r, j) /\ Processing(r)
  BY <1>1, LoopFacts
<1>3. UNCHANGED <<env, status, counts, holder>>
  BY DEF RowMarkSuccess
<1>4. row[j][n] = "PENDING" /\ Made(j, n)
  BY <1>1, <1>2 DEF LoopKnows
<1>5. /\ \A i \in Job, m \in RowNumber : Made(i, m)' <=> Made(i, m)
      /\ KeysWhole'
      /\ MadeRows(j)' = MadeRows(j)
  BY <1>2, <1>3 DEF Made, KeysWhole, MadeRows
<1>6. /\ Cardinality(RowsIn(j, "FAILED")) \in Nat
      /\ Cardinality(RowsIn(j, "SUCCESS")) \in Nat
      /\ loc[r].todo \subseteq RowNumber /\ loc[r].failed \in Nat /\ loc[r].success \in Nat
  BY <1>2, RowsFinite DEF RowFrame, ConfirmFrame
<1>7. /\ loc[r].failed = Cardinality(RowsIn(j, "FAILED"))
      /\ Cardinality(RowsIn(j, "SUCCESS")) + 1 <= loc[r].success
      /\ loc[r].success <= Cardinality(MadeRows(j))
      /\ "fault" \notin env => loc[r].success = Cardinality(RowsIn(j, "SUCCESS")) + 1
  BY <1>1, <1>2, <1>6 DEF CountersKnow, One
<1>8. CASE Mark(r, "SUCCESS")
  <2>1. /\ row'[j][n] = "SUCCESS"
        /\ \A i \in Job, m \in RowNumber : i # j \/ m # n => row'[i][m] = row[i][m]
        /\ \A i \in Job \ {j} : row'[i] = row[i]
        /\ Cardinality(RowsIn(j, "SUCCESS"))' = Cardinality(RowsIn(j, "SUCCESS")) + 1
        /\ RowsIn(j, "FAILED")' = RowsIn(j, "FAILED")
    <3>1. /\ row'[j][n] = "SUCCESS"
          /\ \A i \in Job, m \in RowNumber : i # j \/ m # n => row'[i][m] = row[i][m]
          /\ \A i \in Job \ {j} : row'[i] = row[i]
      BY <1>2, <1>8, MarkOne DEF ImportInv
    <3>2. QED
      BY <1>4, <3>1, MarkCounts
  <2>2. JobKnows(j)'
    <3>1. RowsFit(j)'
      BY <1>2, <1>3, <1>4, <1>5, <2>1 DEF JobKnows, RowsFit, Accepted
    <3>2. StatusFits(j)'
      BY <1>2, <1>3, <1>4, <1>5, <2>1 DEF JobKnows, StatusFits, Previewed
    <3>3. Reported(j)'
      BY <1>2, <1>3 DEF Reported
    <3>4. QED
      BY <3>1, <3>2, <3>3 DEF JobKnows
  <2>3. /\ \A i \in Job \ {j} : TableStays(i)
        /\ Previewed(j) => Previewed(j)'
    BY <1>3, <1>5, <2>1 DEF TableStays, Previewed
  <2>4. CASE Done(r)
    <3>1. /\ pc'[r] = IF loc'[r].todo = {} THEN "complete" ELSE "check"
          /\ loc'[r].job = j
          /\ loc'[r].success = loc[r].success /\ loc'[r].failed = loc[r].failed
          /\ OthersStay(r)
      BY <1>2, <2>4, DoneFacts DEF ImportInv
    <3>2. LoopKnows(r)'
      BY <1>1, <1>2, <1>3, <2>1, <2>4, DoneKnows DEF ImportInv
    <3>3. CountersKnow(r)'
      BY <1>3, <1>5, <1>6, <1>7, <2>1, <3>1 DEF CountersKnow, One
    <3>4. RequestKnows(r)'
      BY <1>2, <1>3, <3>1, <3>2, <3>3, InLoopKnows DEF RowPC
    <3>5. QED
      BY <1>2, <1>3, <1>5, <2>2, <2>3, <3>1, <3>4, WorkStep
  <2>5. CASE "fault" \in env /\ Catch(r, loc[r])
    <3>1. /\ pc'[r] = "markFailed" /\ OthersStay(r)
          /\ loc'[r].job = j /\ loc'[r].todo = loc[r].todo
          /\ loc'[r].success = loc[r].success /\ loc'[r].failed = loc[r].failed + 1
      BY <1>2, <2>5 DEF Catch, Goto, OthersStay, ImportInv, TypeOK, RowFrame, ConfirmFrame
    <3>2. Current(r)' = n /\ RowMayBeRefused'
      BY <1>2, <1>3, <2>5, <3>1 DEF Current, RowMayBeRefused
    <3>3. LoopKnows(r)'
      <4>1. \A m \in loc[r].todo \ {n} : Untouched(j, m)'
        BY <1>1, <1>2, <1>5, <1>6, <2>1 DEF LoopKnows, Untouched
      <4>2. \A m \in RowNumber : (row[j][m])' = "PENDING" => m \in loc[r].todo
        BY <1>1, <1>2, <2>1 DEF LoopKnows, RowPC
      <4>3. QED
        BY <1>3, <2>1, <2>5, <3>1, <3>2, <4>1, <4>2 DEF LoopKnows, RowPC
    <3>4. CountersKnow(r)'
      BY <1>3, <1>5, <1>6, <1>7, <2>1, <2>5, <3>1 DEF CountersKnow, One
    <3>5. RequestKnows(r)'
      BY <1>2, <1>3, <3>1, <3>3, <3>4, InLoopKnows DEF RowPC
    <3>6. QED
      BY <1>2, <1>3, <1>5, <2>2, <2>3, <3>1, <3>5, WorkStep
  <2>6. QED
    BY <1>8, <2>4, <2>5 DEF RowMarkSuccess
<1>9. CASE UNCHANGED row /\ "fault" \in env /\ Catch(r, loc[r])
  <2>1. /\ pc'[r] = "markFailed" /\ OthersStay(r)
        /\ loc'[r].job = j /\ loc'[r].todo = loc[r].todo
        /\ loc'[r].success = loc[r].success /\ loc'[r].failed = loc[r].failed + 1
    BY <1>2, <1>9 DEF Catch, Goto, OthersStay, ImportInv, TypeOK, RowFrame, ConfirmFrame
  <2>2. Current(r)' = n /\ RowMayBeRefused' /\ UNCHANGED store
    BY <1>2, <1>3, <1>9, <2>1 DEF Current, RowMayBeRefused, store
  <2>3. LoopKnows(r)'
    <3>1. \A m \in loc[r].todo \ {n} : Untouched(j, m)'
      BY <1>1, <1>2, <1>5, <1>6, <1>9 DEF LoopKnows, Untouched
    <3>2. \A m \in RowNumber : (row[j][m])' = "PENDING" => m \in loc[r].todo
      BY <1>1, <1>2, <1>9 DEF LoopKnows, RowPC
    <3>3. QED
      BY <1>3, <1>4, <1>9, <2>1, <2>2, <3>1, <3>2 DEF LoopKnows, RowPC
  <2>4. CountersKnow(r)'
    <3>1. RowsIn(j, "FAILED")' = RowsIn(j, "FAILED") /\ RowsIn(j, "SUCCESS")' = RowsIn(j, "SUCCESS")
      BY <1>9 DEF RowsIn
    <3>2. QED
      BY <1>3, <1>5, <1>6, <1>7, <1>9, <2>1, <3>1 DEF CountersKnow, One
  <2>5. RequestKnows(r)'
    BY <1>2, <1>3, <2>1, <2>3, <2>4, InLoopKnows DEF RowPC
  <2>6. Apart'
    BY <1>2, <2>1, LoopApart DEF Processing, RowPC
  <2>7. QED
    BY <2>1, <2>2, <2>5, <2>6, QuietStep
<1>10. QED
  BY <1>8, <1>9 DEF RowMarkSuccess

\* The row is marked FAILED, whatever it was marked before.
LEMMA RowMarkFailedKeeps ==
    ASSUME ImportInv, TypeOK', NEW r \in Request, RowMarkFailed(r)
    PROVE  ImportInv'
<1>1. pc[r] = "markFailed" /\ pc[r] \in RowPC
  BY DEF RowMarkFailed, RowPC
<1>2. PICK j \in Job, n \in RowNumber :
             /\ loc[r].job = j /\ Current(r) = n /\ n \in loc[r].todo
             /\ loc[r] \in RowFrame
             /\ status[j] = "PROCESSING"
             /\ KeysWhole /\ JobKnows(j) /\ LoopKnows(r) /\ CountersKnow(r)
             /\ Alone(r, j) /\ Processing(r)
  BY <1>1, LoopFacts
<1>3. UNCHANGED <<env, status, counts, holder>> /\ Mark(r, "FAILED") /\ Done(r)
  BY DEF RowMarkFailed
<1>4. /\ row[j][n] \in {"PENDING", "SUCCESS"}
      /\ "fault" \notin env => row[j][n] = "PENDING" /\ ~Made(j, n)
  BY <1>1, <1>2 DEF LoopKnows, Untouched
<1>5. /\ \A i \in Job, m \in RowNumber : Made(i, m)' <=> Made(i, m)
      /\ KeysWhole'
      /\ MadeRows(j)' = MadeRows(j)
  BY <1>2, <1>3 DEF Made, KeysWhole, MadeRows
<1>6. /\ row'[j][n] = "FAILED"
      /\ \A i \in Job, m \in RowNumber : i # j \/ m # n => row'[i][m] = row[i][m]
      /\ \A i \in Job \ {j} : row'[i] = row[i]
  BY <1>2, <1>3, MarkOne DEF ImportInv
<1>7. /\ Cardinality(RowsIn(j, "FAILED"))' = Cardinality(RowsIn(j, "FAILED")) + 1
      /\ Cardinality(RowsIn(j, "SUCCESS"))' <= Cardinality(RowsIn(j, "SUCCESS"))
      /\ "fault" \notin env =>
           Cardinality(RowsIn(j, "SUCCESS"))' = Cardinality(RowsIn(j, "SUCCESS"))
  BY <1>4, <1>6, MarkCounts
<1>8. /\ pc'[r] = IF loc'[r].todo = {} THEN "complete" ELSE "check"
      /\ loc'[r].job = j
      /\ loc'[r].success = loc[r].success /\ loc'[r].failed = loc[r].failed
      /\ OthersStay(r)
  BY <1>2, <1>3, DoneFacts DEF ImportInv
<1>9. JobKnows(j)'
  <2>1. RowsFit(j)'
    BY <1>2, <1>3, <1>4, <1>5, <1>6 DEF JobKnows, RowsFit, Accepted
  <2>2. StatusFits(j)'
    BY <1>2, <1>3, <1>4, <1>5, <1>6 DEF JobKnows, StatusFits, Previewed
  <2>3. Reported(j)'
    BY <1>2, <1>3 DEF Reported
  <2>4. QED
    BY <2>1, <2>2, <2>3 DEF JobKnows
<1>10. LoopKnows(r)'
  BY <1>1, <1>2, <1>3, <1>6, DoneKnows DEF ImportInv
<1>11. CountersKnow(r)'
  <2>1. /\ Cardinality(RowsIn(j, "FAILED")) \in Nat
        /\ Cardinality(RowsIn(j, "SUCCESS")) \in Nat
        /\ Cardinality(RowsIn(j, "SUCCESS"))' \in Nat
    <3>1. Cardinality(RowsIn(j, "SUCCESS"))' \in Nat
      BY RowSetFinite, FS_CardinalityType DEF RowsIn
    <3>2. QED
      BY <3>1, RowsFinite
  <2>2. loc[r].success \in Nat /\ loc[r].failed \in Nat
    BY <1>2 DEF RowFrame, ConfirmFrame
  <2>3. /\ loc[r].failed = Cardinality(RowsIn(j, "FAILED")) + 1
        /\ Cardinality(RowsIn(j, "SUCCESS")) <= loc[r].success
        /\ loc[r].success <= Cardinality(MadeRows(j))
        /\ "fault" \notin env => loc[r].success = Cardinality(RowsIn(j, "SUCCESS"))
    BY <1>1, <1>2, <2>1 DEF CountersKnow, One
  <2>4. Cardinality(RowsIn(j, "SUCCESS"))' <= loc[r].success
    BY <1>7, <2>1, <2>2, <2>3
  <2>5. QED
    BY <1>3, <1>5, <1>7, <1>8, <2>1, <2>2, <2>3, <2>4 DEF CountersKnow, One
<1>12. RequestKnows(r)'
  BY <1>2, <1>3, <1>8, <1>10, <1>11, InLoopKnows DEF RowPC
<1>13. /\ \A i \in Job \ {j} : TableStays(i)
       /\ Previewed(j) => Previewed(j)'
  BY <1>3, <1>5, <1>6 DEF TableStays, Previewed
<1>14. QED
  BY <1>2, <1>3, <1>5, <1>8, <1>9, <1>12, <1>13, WorkStep

\* The job is closed with the counters of the loop.
LEMMA ConfirmCompleteKeeps ==
    ASSUME ImportInv, TypeOK', NEW r \in Request, ConfirmComplete(r)
    PROVE  ImportInv'
<1>1. PICK j \in Job : loc[r].job = j
  BY JobOf DEF ConfirmComplete, ImportInv
<1>2. /\ pc[r] = "complete" /\ pc'[r] = "idle" /\ OthersStay(r)
      /\ status'[j] = "COMPLETED" /\ counts'[j].success = loc[r].success
      /\ counts'[j].failed = loc[r].failed
      /\ \A i \in Job \ {j} : status'[i] = status[i] /\ counts'[i] = counts[i]
      /\ UNCHANGED <<env, row, holder>>
  BY <1>1 DEF ConfirmComplete, Finish, Goto, OthersStay, ImportInv, TypeOK
<1>3. /\ status[j] = "PROCESSING" /\ JobKnows(j) /\ LoopKnows(r) /\ CountersKnow(r)
      /\ loc[r] \in EndFrame
  BY <1>1, <1>2, FrameTable DEF ImportInv, RequestKnows, ConfirmerKnows, Processing, TypeOK
<1>4. /\ \A i \in Job \ {j} : TableStays(i)
      /\ \A i \in Job, n \in RowNumber : Made(i, n)' <=> Made(i, n)
      /\ KeysWhole'
  BY <1>2 DEF TableStays, Made, ImportInv, KeysWhole
<1>5. JobKnows(j)'
  <2>1. RowsFit(j)'
    BY <1>2, <1>3, <1>4 DEF JobKnows, RowsFit, Accepted
  <2>2. StatusFits(j)'
    BY <1>2, <1>3, <1>4 DEF JobKnows, StatusFits, Previewed
  <2>3. Reported(j)'
    <3>1. \A s : RowsIn(j, s)' = RowsIn(j, s)
      BY <1>2 DEF RowsIn
    <3>2. MadeRows(j)' = MadeRows(j)
      BY <1>4 DEF MadeRows
    <3>3. \A n \in RowNumber : (row[j][n])' # "PENDING"
      BY <1>1, <1>2, <1>3 DEF LoopKnows, EndFrame
    <3>4. /\ Cardinality(RowsIn(j, "FAILED")) \in Nat
          /\ Cardinality(RowsIn(j, "SUCCESS")) \in Nat
      BY RowsFinite
    <3>5. /\ loc[r].failed = Cardinality(RowsIn(j, "FAILED"))
          /\ Cardinality(RowsIn(j, "SUCCESS")) <= loc[r].success
          /\ loc[r].success <= Cardinality(MadeRows(j))
          /\ "fault" \notin env => loc[r].success = Cardinality(RowsIn(j, "SUCCESS"))
      BY <1>1, <1>2, <1>3, <3>4 DEF CountersKnow, One
    <3>6. QED
      BY <1>2, <3>1, <3>2, <3>3, <3>5 DEF Reported
  <2>4. QED
    BY <2>1, <2>2, <2>3 DEF JobKnows
<1>6. RequestKnows(r)' /\ ~Working(r)'
  BY <1>2, EarlyKnows DEF Working
<1>7. Alone(r, j) /\ (Previewed(j) => Previewed(j)')
  BY <1>1, <1>2, WorkerAlone DEF Working, Previewed
<1>8. QED
  BY <1>2, <1>4, <1>5, <1>6, <1>7, WorkStep

(***************************************************************************)
(* The environment keeps the invariant                                     *)
(***************************************************************************)

\* An account made elsewhere takes a free key: no row loses its own.
LEMMA OtherWriterKeeps ==
    ASSUME ImportInv, TypeOK', NEW k \in Key, OtherWriter(k)
    PROVE  ImportInv'
<1>1. /\ holder[k] = Nobody /\ holder'[k] = Other
      /\ \A x \in Key \ {k} : holder'[x] = holder[x]
      /\ UNCHANGED <<env, status, counts, row, pc, loc>>
  BY DEF OtherWriter, ImportInv, TypeOK
<1>2. \A i \in Job, m \in RowNumber, x \in Key : holder'[x] = <<i, m>> <=> holder[x] = <<i, m>>
  <2>1. \A i \in Job, m \in RowNumber : Nobody # <<i, m>> /\ Other # <<i, m>>
    BY DEF Nobody, Other
  <2>2. QED
    BY <1>1, <2>1
<1>3. \A i \in Job, m \in RowNumber : Made(i, m)' <=> Made(i, m)
  BY <1>2, KeysOfRow DEF Made
<1>4. \A i \in Job : TableStays(i)
  BY <1>1, <1>3 DEF TableStays
<1>5. KeysWhole'
  BY <1>2, <1>3 DEF ImportInv, KeysWhole
<1>6. \A j \in Job : JobKnows(j)'
  BY <1>1, <1>4, JobStays DEF ImportInv
<1>7. ASSUME NEW q \in Request PROVE RequestKnows(q)'
  <2>1. RequestKnows(q) /\ TypeOK
    BY DEF ImportInv
  <2>2. pc[q] # "idle" => TableStays(loc[q].job)
    BY <1>4, <2>1, JobOf
  <2>3. QED
    BY <1>1, <1>4, <2>1, <2>2, RequestStays
<1>8. Apart'
  BY <1>1 DEF ImportInv, Apart, Processing
<1>9. QED
  BY <1>5, <1>6, <1>7, <1>8 DEF ImportInv

\* The codes of accounts change: emails stay, and with them what was made.
LEMMA CodeChanges ==
    ASSUME KeysWhole, NEW j \in Job, NEW n \in RowNumber, NEW k \in Key, TypeOK,
           CodeMoved(j, n, k) \/ CodeReleased(j, k)
    PROVE  /\ KeysWhole'
           /\ \A i \in Job, m \in RowNumber : Made(i, m)' <=> Made(i, m)
           /\ UNCHANGED <<env, status, counts, row, pc, loc>>
<1>1. UNCHANGED <<env, status, counts, row, pc, loc>> /\ k \in Register[j]
  BY DEF CodeMoved, CodeReleased
<1>2. \A c \in Key : c \notin Register[j] => holder'[c] = holder[c]
  BY <1>1 DEF CodeMoved, CodeReleased, TypeOK
<1>3. ASSUME NEW i \in Job, NEW m \in RowNumber PROVE Made(i, m)' <=> Made(i, m)
  <2>1. Email[i][m] \in Key /\ Email[i][m] \notin Register[j]
    BY ImportAssumption
  <2>2. QED
    BY <1>2, <2>1 DEF Made
<1>4. ASSUME NEW c \in Key, NEW i \in Job, NEW m \in RowNumber, holder'[c] = <<i, m>>
      PROVE  Made(i, m)
  <2>1. Nobody # <<i, m>>
    BY DEF Nobody
  <2>2. CASE holder[c] = <<i, m>>
    BY <2>2 DEF KeysWhole
  <2>3. CASE holder[c] # <<i, m>>
    <3>1. CodeMoved(j, n, k) /\ <<i, m>> = <<j, n>>
      BY <1>4, <2>1, <2>3 DEF CodeMoved, CodeReleased, TypeOK
    <3>2. QED
      BY <3>1 DEF CodeMoved
  <2>4. QED
    BY <2>2, <2>3
<1>5. KeysWhole'
  BY <1>3, <1>4 DEF KeysWhole
<1>6. QED
  BY <1>1, <1>3, <1>5

\* The update of a student or teacher changes nothing of a job or a request.
LEMMA CodeKeeps ==
    ASSUME ImportInv, TypeOK', NEW j \in Job, NEW n \in RowNumber, NEW k \in Key,
           CodeMoved(j, n, k) \/ CodeReleased(j, k)
    PROVE  ImportInv'
<1>1. /\ KeysWhole'
      /\ \A i \in Job, m \in RowNumber : Made(i, m)' <=> Made(i, m)
      /\ UNCHANGED <<env, status, counts, row, pc, loc>>
  BY CodeChanges DEF ImportInv
<1>2. \A i \in Job : TableStays(i)
  BY <1>1 DEF TableStays
<1>3. \A i \in Job : JobKnows(i)'
  BY <1>1, <1>2, JobStays DEF ImportInv
<1>4. ASSUME NEW q \in Request PROVE RequestKnows(q)'
  <2>1. RequestKnows(q) /\ TypeOK
    BY DEF ImportInv
  <2>2. pc[q] # "idle" => TableStays(loc[q].job)
    BY <1>2, <2>1, JobOf
  <2>3. QED
    BY <1>1, <2>1, <2>2, RequestStays
<1>5. Apart'
  BY <1>1 DEF ImportInv, Apart, Processing
<1>6. QED
  BY <1>1, <1>3, <1>4, <1>5 DEF ImportInv

\* A crash forgets every request; the tables stay.
LEMMA CrashKeeps ==
    ASSUME ImportInv, TypeOK', Crash
    PROVE  ImportInv'
<1>1. UNCHANGED store /\ \A q \in Request : pc'[q] = "idle"
  BY DEF Crash
<1>2. UNCHANGED env /\ \A j \in Job : TableStays(j)
  BY <1>1 DEF store, TableStays, Made
<1>3. KeysWhole'
  BY <1>1 DEF store, ImportInv, KeysWhole, Made
<1>4. \A j \in Job : JobKnows(j)'
  BY <1>2, JobStays DEF ImportInv
<1>5. \A q \in Request : RequestKnows(q)'
  BY <1>1, EarlyKnows
<1>6. Apart'
  BY <1>1 DEF Apart, Processing, RowPC, PreviewPC
<1>7. QED
  BY <1>3, <1>4, <1>5, <1>6 DEF ImportInv

\* A step that changes nothing.
LEMMA StutterKeeps ==
    ASSUME ImportInv, TypeOK', UNCHANGED vars
    PROVE  ImportInv'
<1>1. UNCHANGED env /\ \A j \in Job : TableStays(j)
  BY DEF vars, TableStays, Made
<1>2. KeysWhole' /\ Apart'
  BY DEF vars, ImportInv, KeysWhole, Made, Apart, Processing
<1>3. \A j \in Job : JobKnows(j)'
  BY <1>1, JobStays DEF ImportInv
<1>4. ASSUME NEW q \in Request PROVE RequestKnows(q)'
  <2>1. RequestKnows(q) /\ TypeOK
    BY DEF ImportInv
  <2>2. pc[q] # "idle" => TableStays(loc[q].job)
    BY <1>1, <2>1, JobOf
  <2>3. QED
    BY <1>1, <2>1, <2>2, RequestStays DEF vars
<1>5. QED
  BY <1>2, <1>3, <1>4 DEF ImportInv

(***************************************************************************)
(* The theorems                                                            *)
(***************************************************************************)

\* Before any import there are no rows and nobody holds a key.
LEMMA InitInv == Init => ImportInv
<1> SUFFICES ASSUME Init PROVE ImportInv
  OBVIOUS
<1>1. TypeOK
  BY InitTyped
<1>2. \A i \in Job, m \in RowNumber : ~Made(i, m)
  BY KeysOfRow DEF Init, Made, Nobody
<1>3. KeysWhole
  BY DEF Init, KeysWhole, Nobody
<1>4. \A q \in Request : pc[q] = "idle"
  BY DEF Init
<1>5. Apart
  BY <1>4 DEF Apart, Processing, RowPC, PreviewPC
<1>6. ASSUME NEW j \in Job PROVE JobKnows(j)
  BY <1>2 DEF Init, JobKnows, RowsFit, Accepted, StatusFits, Reported
<1>7. ASSUME NEW q \in Request PROVE RequestKnows(q)
  BY <1>4 DEF RequestKnows, PreviewerKnows, ConfirmerKnows, LoopKnows, CountersKnow,
              Processing, PreviewPC, RowPC
<1>8. QED
  BY <1>1, <1>3, <1>5, <1>6, <1>7 DEF ImportInv

\* Every step keeps the invariant.
LEMMA NextInv == ImportInv /\ [Next]_vars => ImportInv'
<1> SUFFICES ASSUME ImportInv, [Next]_vars PROVE ImportInv'
  OBVIOUS
<1>1. TypeOK'
  BY NextTyped DEF ImportInv
<1>2. ASSUME NEW r \in Request, Step(r) PROVE ImportInv'
  BY <1>1, <1>2, PreviewReadEmailsKeeps, PreviewSaveJobKeeps, PreviewSaveRowsKeeps,
     ConfirmClaimKeeps, ConfirmReadRowsKeeps, RowCheckKeeps, RowCreateKeeps,
     RowMarkSuccessKeeps, RowMarkFailedKeeps, ConfirmCompleteKeeps DEF Step
<1>3. ASSUME NEW r \in Request, Abandon(r) PROVE ImportInv'
  BY <1>1, <1>3, FinishKeeps DEF Abandon
<1>4. ASSUME NEW r \in Request, NEW j \in Job, PreviewReadCodes(r, j) \/ ConfirmRead(r, j)
      PROVE  ImportInv'
  BY <1>1, <1>4, PreviewReadCodesKeeps, ConfirmReadKeeps
<1>5. ASSUME NEW k \in Key, OtherWriter(k) PROVE ImportInv'
  BY <1>1, <1>5, OtherWriterKeeps
<1>6. ASSUME NEW k \in Key, NEW j \in Job,
             CodeReleased(j, k) \/ \E n \in RowNumber : CodeMoved(j, n, k)
      PROVE  ImportInv'
  BY <1>1, <1>6, HasRow, CodeKeeps
<1>7. QED
  BY <1>1, <1>2, <1>3, <1>4, <1>5, <1>6, CrashKeeps, StutterKeeps DEF Next

\* The invariant holds of every reachable state.
LEMMA Invariant == Spec => []ImportInv
BY InitInv, NextInv, PTL DEF Spec

\* A job is processed by at most one request, and only while it is PROCESSING.
THEOREM OneProcessorHolds == Spec => []OneProcessor
<1>1. ImportInv => OneProcessor
  BY DEF ImportInv, RequestKnows, ConfirmerKnows, Apart, OneProcessor
<1>2. QED
  BY <1>1, Invariant, PTL

\* The report of a COMPLETED job is exact while no statement of the import fails,
\* and accounts for every row and every account when some do.
THEOREM ReportCorrectHolds == Spec => []ReportCorrect
<1>1. ImportInv => ReportCorrect
  <2> SUFFICES ASSUME ImportInv PROVE ReportCorrect
    OBVIOUS
  <2>1. ASSUME NEW j \in Job
        PROVE  RowsFit(j) /\ StatusFits(j) /\ Reported(j)
    BY DEF ImportInv, JobKnows
  <2>2. \A j \in Job : counts[j] \in [success: Nat, failed: Nat]
    BY DEF ImportInv, TypeOK
  <2>3. ReportBounded
    <3>1. ASSUME NEW j \in Job, status[j] = "COMPLETED"
          PROVE  /\ RowsIn(j, "PENDING") = {}
                 /\ counts[j].failed = Cardinality(RowsIn(j, "FAILED"))
                 /\ counts[j].success \in Cardinality(RowsIn(j, "SUCCESS"))
                        ..Cardinality({n \in RowNumber : Made(j, n)})
      <4>1. /\ Cardinality(RowsIn(j, "SUCCESS")) \in Nat
            /\ Cardinality(MadeRows(j)) \in Nat
        BY RowsFinite, RowSetFinite, FS_CardinalityType DEF MadeRows
      <4>2. counts[j].success \in Nat
        BY <2>2
      <4>3. /\ Cardinality(RowsIn(j, "SUCCESS")) <= counts[j].success
            /\ counts[j].success <= Cardinality(MadeRows(j))
            /\ counts[j].failed = Cardinality(RowsIn(j, "FAILED"))
            /\ \A n \in RowNumber : row[j][n] # "PENDING"
        BY <2>1, <3>1 DEF Reported
      <4>4. counts[j].success \in Cardinality(RowsIn(j, "SUCCESS"))..Cardinality(MadeRows(j))
        BY <4>1, <4>2, <4>3
      <4>5. RowsIn(j, "PENDING") = {}
        BY <4>3 DEF RowsIn
      <4>6. QED
        BY <4>3, <4>4, <4>5 DEF MadeRows
    <3>2. \A j \in Job : \A n \in RowsIn(j, "SUCCESS") : Made(j, n)
      BY <2>1 DEF RowsFit, RowsIn
    <3>3. QED
      BY <3>1, <3>2 DEF ReportBounded
  <2>4. ReportExact
    <3> SUFFICES ASSUME "fault" \notin env, NEW j \in Job, status[j] = "COMPLETED"
                 PROVE  /\ counts[j] = [success |-> Cardinality(RowsIn(j, "SUCCESS")),
                                        failed  |-> Cardinality(RowsIn(j, "FAILED"))]
                        /\ RowsIn(j, "PENDING") = {}
                        /\ RowsIn(j, "SUCCESS") = {n \in RowNumber : Made(j, n)}
      BY DEF ReportExact
    <3>1. /\ counts[j].success = Cardinality(RowsIn(j, "SUCCESS"))
          /\ counts[j].failed = Cardinality(RowsIn(j, "FAILED"))
          /\ \A n \in RowNumber : row[j][n] # "PENDING"
      BY <2>1 DEF Reported
    <3>2. counts[j] = [success |-> Cardinality(RowsIn(j, "SUCCESS")),
                       failed  |-> Cardinality(RowsIn(j, "FAILED"))]
      BY <2>2, <3>1
    <3>3. \A n \in RowNumber : row[j][n] = "SUCCESS" <=> Made(j, n)
      <4>1. \A n \in RowNumber : row[j][n] \in {"SUCCESS", "FAILED"}
        BY <2>1, <3>1 DEF StatusFits, Previewed, ImportInv, TypeOK, RowStatus
      <4>2. QED
        BY <2>1, <4>1 DEF RowsFit
    <3>4. QED
      BY <3>1, <3>2, <3>3 DEF RowsIn
  <2>5. QED
    BY <2>3, <2>4 DEF ReportCorrect
<1>2. QED
  BY <1>1, Invariant, PTL

(***************************************************************************)
(* The rows of one file do not fail each other                             *)
(***************************************************************************)

\* Nothing but its own check or its own transaction sends a row to the catch
\* block, and when nothing else refuses rows, only because a key is taken.
LEMMA OnlyKeysRefuse ==
    ASSUME ImportInv, [Next]_vars, NEW r \in Request, pc[r] \in {"check", "create"},
           pc'[r] = "markFailed", ~RowMayBeRefused
    PROVE  ~KeysFree(loc[r].job, Current(r))
<1>1. TypeOK
  BY DEF ImportInv
<1>2. Step(r) \/ Abandon(r) \/ \E j \in Job : PreviewReadCodes(r, j) \/ ConfirmRead(r, j)
  <2>1. ASSUME NEW q \in Request, q # r, NEW p, NEW f, Goto(q, p, f) PROVE FALSE
    BY <1>1, <2>1 DEF Goto, TypeOK
  <2>2. ASSUME NEW q \in Request,
               Step(q) \/ Abandon(q)
                 \/ \E j \in Job : PreviewReadCodes(q, j) \/ ConfirmRead(q, j)
        PROVE  \E p, f : Goto(q, p, f)
    BY <2>2, Zenon DEF Step, Abandon, PreviewReadCodes, PreviewReadEmails, PreviewSaveJob,
       PreviewSaveRows, ConfirmRead, ConfirmClaim, ConfirmReadRows, RowCheck, RowCreate,
       RowMarkSuccess, RowMarkFailed, ConfirmComplete, Finish, Done, Continue, Catch
  <2>3. pc' # pc
    OBVIOUS
  <2>4. ~Crash /\ ~UNCHANGED vars
    BY <2>3 DEF Crash, vars
  <2>5. \A k \in Key : /\ ~OtherWriter(k)
                       /\ \A j \in Job : /\ ~CodeReleased(j, k)
                                         /\ \A n \in RowNumber : ~CodeMoved(j, n, k)
    BY <2>3 DEF OtherWriter, CodeReleased, CodeMoved
  <2>6. PICK q \in Request :
          Step(q) \/ Abandon(q) \/ \E j \in Job : PreviewReadCodes(q, j) \/ ConfirmRead(q, j)
    BY <2>4, <2>5 DEF Next
  <2>7. QED
    BY <2>1, <2>2, <2>6
<1>3. pc'[r] # "idle"
  OBVIOUS
<1>4. ~Finish(r)
  BY <1>1, <1>3 DEF Finish, Goto, TypeOK
<1>5. RowCheck(r) \/ RowCreate(r)
  BY <1>2, <1>4 DEF Step, Abandon, PreviewReadCodes, PreviewReadEmails, PreviewSaveJob,
     PreviewSaveRows, ConfirmRead, ConfirmClaim, ConfirmReadRows, RowMarkSuccess,
     RowMarkFailed, ConfirmComplete
<1>6. CASE RowCheck(r)
  <2>1. ~Goto(r, "create", loc[r])
    BY <1>1 DEF Goto, TypeOK
  <2>2. QED
    BY <1>6, <2>1 DEF RowCheck
<1>7. CASE RowCreate(r)
  <2>1. ~Goto(r, "markSuccess", [loc[r] EXCEPT !.success = @ + 1])
    BY <1>1 DEF Goto, TypeOK
  <2>2. "fault" \notin env
    BY DEF RowMayBeRefused
  <2>3. QED
    BY <1>7, <2>1, <2>2 DEF RowCreate
<1>8. QED
  BY <1>5, <1>6, <1>7

\* A row that the preview accepted is refused only because one of its keys is
\* with an account that did not get it from the file, unless something else
\* refuses rows.
THEOREM PreviewKeptHolds == Spec => PreviewKept
<1>1. ASSUME ImportInv, [Next]_vars, NEW r \in Request, pc[r] \in {"check", "create"},
             pc'[r] = "markFailed", ~RowMayBeRefused
      PROVE  \/ TakenElsewhere(Code[loc[r].job][Current(r)], loc[r].job)
             \/ TakenElsewhere(Email[loc[r].job][Current(r)], loc[r].job)
  <2>1. ~KeysFree(loc[r].job, Current(r))
    BY <1>1, OnlyKeysRefuse
  <2>2. pc[r] \in RowPC
    BY <1>1 DEF RowPC
  <2>3. PICK j \in Job, n \in RowNumber :
             /\ loc[r].job = j /\ Current(r) = n /\ n \in loc[r].todo
             /\ loc[r] \in RowFrame
             /\ status[j] = "PROCESSING"
             /\ KeysWhole /\ JobKnows(j) /\ LoopKnows(r) /\ CountersKnow(r)
             /\ Alone(r, j) /\ Processing(r)
    BY <1>1, <2>2, LoopFacts
  <2>4. Untouched(j, n)
    BY <1>1, <2>3 DEF LoopKnows
  <2>5. QED
    BY <1>1, <2>1, <2>3, <2>4, TakenByAnother DEF ImportInv, JobKnows
<1>2. ImportInv /\ [Next]_vars =>
        [\A r \in Request :
           pc[r] \in {"check", "create"} /\ pc'[r] = "markFailed" /\ ~RowMayBeRefused
             => LET j == loc[r].job
                    n == Current(r)
                IN  TakenElsewhere(Code[j][n], j) \/ TakenElsewhere(Email[j][n], j)]_vars
  BY <1>1
<1>3. QED
  BY <1>2, Invariant, PTL DEF Spec, PreviewKept

(***************************************************************************)
(* The import implements the ledger                                        *)
(***************************************************************************)

\* What the ledger sees of a step that changes neither a row nor an account nor
\* the phase of a job: nothing.
LEMMA LedgerStutters ==
    ASSUME UNCHANGED env, UNCHANGED row,
           \A i \in Job : Phase(i)' = Phase(i),
           \A i \in Job, m \in RowNumber : Made(i, m)' <=> Made(i, m)
    PROVE  UNCHANGED Ledger!ledger
<1>1. Accounts' = Accounts
  BY DEF Accounts
<1>2. [j \in Job |-> Phase(j)]' = [j \in Job |-> Phase(j)]
  OBVIOUS
<1>3. QED
  BY <1>1, <1>2 DEF Ledger!ledger

\* Saving the rows of a preview opens the job.
LEMMA OpenMaps ==
    ASSUME ImportInv, NEW r \in Request, PreviewSaveRows(r)
    PROVE  Ledger!LedgerNext
<1>1. PICK j \in Job : loc[r].job = j
  BY JobOf DEF PreviewSaveRows, ImportInv
<1>2. /\ row' = [row EXCEPT ![j] =
                   [n \in RowNumber |-> IF n \in loc[r].valid THEN "PENDING" ELSE "FAILED"]]
      /\ UNCHANGED <<env, counts, status, holder>>
  BY <1>1 DEF PreviewSaveRows
<1>3. status[j] = "PREVIEW" /\ \A n \in RowNumber : row[j][n] = "NONE"
  BY <1>1 DEF ImportInv, RequestKnows, PreviewerKnows, PreviewPC, PreviewSaveRows
<1>4. Phase(j) = "NONE"
  BY <1>3, HasRow DEF Phase, Previewed
<1>5. /\ \A n \in RowNumber : row'[j][n] # "NONE"
      /\ \A i \in Job \ {j} : row'[i] = row[i]
  BY <1>2 DEF ImportInv, TypeOK
<1>6. Phase(j)' = "OPEN"
  BY <1>2, <1>3, <1>5 DEF Phase, Previewed
<1>7. \A i \in Job \ {j} : Phase(i)' = Phase(i)
  BY <1>2, <1>5 DEF Phase, Previewed
<1>8. [i \in Job |-> Phase(i)]' = [[i \in Job |-> Phase(i)] EXCEPT ![j] = "OPEN"]
  BY <1>6, <1>7
<1>9. Accounts' = Accounts
  BY <1>2 DEF Accounts, Made
<1>10. Ledger!Open(j)
  <2>1. \E accepted \in SUBSET RowNumber :
          row' = [row EXCEPT ![j] =
                    [n \in RowNumber |-> IF n \in accepted THEN "PENDING" ELSE "FAILED"]]
    <3>1. [n \in RowNumber |-> IF n \in loc[r].valid THEN "PENDING" ELSE "FAILED"]
          = [n \in RowNumber |-> IF n \in loc[r].valid \cap RowNumber
                                 THEN "PENDING" ELSE "FAILED"]
      OBVIOUS
    <3>2. QED
      BY <1>2, <3>1
  <2>2. QED
    BY <1>2, <1>4, <1>8, <1>9, <2>1 DEF Ledger!Open, Ledger!RowNumber, RowNumber
<1>11. QED
  BY <1>10 DEF Ledger!LedgerNext

\* The phase of a job follows its status and whether it has rows.
LEMMA PhaseStays ==
    ASSUME NEW i \in Job, status'[i] = status[i], Previewed(i)' <=> Previewed(i)
    PROVE  Phase(i)' = Phase(i)
BY DEF Phase

\* Saving the job of a preview opens nothing yet: it has no rows.
LEMMA SaveJobMaps ==
    ASSUME ImportInv, NEW r \in Request, PreviewSaveJob(r)
    PROVE  UNCHANGED Ledger!ledger
<1>1. PICK j \in Job : loc[r].job = j
  BY JobOf DEF PreviewSaveJob, ImportInv
<1>2. /\ \A i \in Job \ {j} : status'[i] = status[i]
      /\ UNCHANGED <<env, counts, row, holder>>
  BY <1>1 DEF PreviewSaveJob, ImportInv, TypeOK
<1>3. \A n \in RowNumber : row[j][n] = "NONE"
  BY <1>1 DEF ImportInv, RequestKnows, PreviewerKnows, PreviewPC, PreviewSaveJob
<1>4. ~Previewed(j) /\ \A i \in Job : Previewed(i)' <=> Previewed(i)
  BY <1>2, <1>3, HasRow DEF Previewed
<1>5. Phase(j)' = Phase(j)
  BY <1>4 DEF Phase
<1>6. \A i \in Job : Phase(i)' = Phase(i)
  BY <1>2, <1>4, <1>5, PhaseStays
<1>7. QED
  BY <1>2, <1>6, LedgerStutters DEF Made

\* The conditional UPDATE claims the job, or nothing happens.
LEMMA ClaimMaps ==
    ASSUME ImportInv, NEW r \in Request, ConfirmClaim(r)
    PROVE  Ledger!LedgerNext \/ UNCHANGED Ledger!ledger
<1>1. PICK j \in Job : loc[r].job = j
  BY JobOf DEF ConfirmClaim, ImportInv
<1>2. UNCHANGED <<env, counts, row, holder>>
  BY DEF ConfirmClaim
<1>3. \A i \in Job : Previewed(i)' <=> Previewed(i)
  BY <1>2 DEF Previewed
<1>4. CASE UNCHANGED status
  BY <1>2, <1>3, <1>4, PhaseStays, LedgerStutters DEF Made
<1>5. CASE Claims(j) /\ status' = [status EXCEPT ![j] = "PROCESSING"]
  <2>1. /\ status[j] = "PREVIEW" /\ status'[j] = "PROCESSING"
        /\ \A i \in Job \ {j} : status'[i] = status[i]
    BY <1>5 DEF Claims, Claimable, ImportInv, TypeOK
  <2>2. Previewed(j)
    BY <1>1 DEF ImportInv, RequestKnows, ConfirmerKnows, ConfirmClaim
  <2>3. Phase(j) = "OPEN" /\ Phase(j)' = "CLAIMED"
    BY <1>3, <2>1, <2>2 DEF Phase
  <2>4. [i \in Job |-> Phase(i)]' = [[i \in Job |-> Phase(i)] EXCEPT ![j] = "CLAIMED"]
    BY <1>3, <2>1, <2>3, PhaseStays
  <2>5. Accounts' = Accounts
    BY <1>2 DEF Accounts, Made
  <2>6. Ledger!Claim(j)
    BY <1>2, <2>3, <2>4, <2>5 DEF Ledger!Claim
  <2>7. QED
    BY <2>6 DEF Ledger!LedgerNext
<1>6. QED
  BY <1>1, <1>4, <1>5 DEF ConfirmClaim

\* The transaction of a row makes one account of a row that is PENDING.
LEMMA CreateMaps ==
    ASSUME ImportInv, NEW r \in Request, RowCreate(r)
    PROVE  Ledger!LedgerNext \/ UNCHANGED Ledger!ledger
<1>1. pc[r] = "create" /\ pc[r] \in RowPC
  BY DEF RowCreate, RowPC
<1>2. PICK j \in Job, n \in RowNumber :
             /\ loc[r].job = j /\ Current(r) = n /\ n \in loc[r].todo
             /\ loc[r] \in RowFrame
             /\ status[j] = "PROCESSING"
             /\ KeysWhole /\ JobKnows(j) /\ LoopKnows(r) /\ CountersKnow(r)
             /\ Alone(r, j) /\ Processing(r)
  BY <1>1, LoopFacts
<1>3. UNCHANGED <<env, status, counts, row>>
  BY DEF RowCreate
<1>4. \A i \in Job : Phase(i)' = Phase(i)
  BY <1>3 DEF Phase, Previewed
<1>5. CASE UNCHANGED holder
  BY <1>3, <1>4, <1>5, LedgerStutters DEF Made
<1>6. CASE /\ KeysFree(j, n)
           /\ holder' = [holder EXCEPT ![Code[j][n]] = <<j, n>>, ![Email[j][n]] = <<j, n>>]
  <2>1. /\ Made(j, n)' /\ ~Made(j, n)
        /\ \A i \in Job, m \in RowNumber : i # j \/ m # n => (Made(i, m)' <=> Made(i, m))
    BY <1>2, <1>6, CreateMakes DEF ImportInv
  <2>2. Accounts' = Accounts \cup {<<j, n>>} /\ <<j, n>> \notin Accounts
    BY <2>1 DEF Accounts
  <2>3. Phase(j) = "CLAIMED" /\ row[j][n] = "PENDING"
    BY <1>1, <1>2 DEF Phase, JobKnows, StatusFits, LoopKnows, Untouched
  <2>4. Ledger!Make(j, n)
    BY <1>3, <1>4, <2>2, <2>3 DEF Ledger!Make
  <2>5. QED
    BY <2>4 DEF Ledger!LedgerNext, Ledger!RowNumber, RowNumber
<1>7. QED
  BY <1>2, <1>5, <1>6 DEF RowCreate

\* A verdict on a row of a job that is being processed.
LEMMA VerdictMaps ==
    ASSUME TypeOK, NEW j \in Job, NEW n \in RowNumber, NEW s \in {"SUCCESS", "FAILED"},
           status[j] = "PROCESSING", StatusFits(j), UNCHANGED <<env, status, holder>>,
           row' = [row EXCEPT ![j][n] = s],
           \/ row[j][n] = "PENDING"
           \/ "fault" \in env /\ row[j][n] = "SUCCESS",
           s = "SUCCESS" => Made(j, n),
           s = "FAILED" => ~Made(j, n) \/ "fault" \in env
    PROVE  Ledger!LedgerNext
<1>1. Previewed(j) /\ Phase(j) = "CLAIMED"
  BY DEF StatusFits, Phase
<1>2. /\ \A i \in Job \ {j} : row'[i] = row[i]
      /\ \A m \in RowNumber : row'[j][m] = IF m = n THEN s ELSE row[j][m]
  BY DEF TypeOK
<1>3. \A i \in Job : Previewed(i)' <=> Previewed(i)
  BY <1>1, <1>2 DEF Previewed
<1>4. [i \in Job |-> Phase(i)]' = [i \in Job |-> Phase(i)]
  BY <1>3, PhaseStays
<1>5. Accounts' = Accounts /\ (Made(j, n) <=> <<j, n>> \in Accounts)
  BY DEF Accounts, Made
<1>6. Ledger!Decide(j, n)
  BY <1>1, <1>4, <1>5 DEF Ledger!Decide
<1>7. QED
  BY <1>6 DEF Ledger!LedgerNext, Ledger!RowNumber, RowNumber

\* Marking a row is a verdict on it, and at most once unless statements fail.
LEMMA MarkMaps ==
    ASSUME ImportInv, NEW r \in Request, RowMarkSuccess(r) \/ RowMarkFailed(r)
    PROVE  Ledger!LedgerNext \/ UNCHANGED Ledger!ledger
<1>1. pc[r] \in RowPC
  BY DEF RowMarkSuccess, RowMarkFailed, RowPC
<1>2. PICK j \in Job, n \in RowNumber :
             /\ loc[r].job = j /\ Current(r) = n /\ n \in loc[r].todo
             /\ loc[r] \in RowFrame
             /\ status[j] = "PROCESSING"
             /\ KeysWhole /\ JobKnows(j) /\ LoopKnows(r) /\ CountersKnow(r)
             /\ Alone(r, j) /\ Processing(r)
  BY <1>1, LoopFacts
<1>3. UNCHANGED <<env, status, counts, holder>>
  BY DEF RowMarkSuccess, RowMarkFailed
<1>4. TypeOK /\ StatusFits(j)
  BY <1>2 DEF ImportInv, JobKnows
<1>5. CASE RowMarkSuccess(r) /\ Mark(r, "SUCCESS")
  <2>1. row[j][n] = "PENDING" /\ Made(j, n) /\ row' = [row EXCEPT ![j][n] = "SUCCESS"]
    BY <1>2, <1>5 DEF RowMarkSuccess, LoopKnows, Mark
  <2>2. QED
    BY <1>2, <1>3, <1>4, <2>1, VerdictMaps
<1>6. CASE RowMarkFailed(r)
  <2>1. /\ row' = [row EXCEPT ![j][n] = "FAILED"]
        /\ row[j][n] \in {"PENDING", "SUCCESS"}
        /\ "fault" \notin env => row[j][n] = "PENDING" /\ ~Made(j, n)
    BY <1>2, <1>6 DEF RowMarkFailed, LoopKnows, Untouched, Mark
  <2>2. QED
    BY <1>2, <1>3, <1>4, <2>1, VerdictMaps
<1>7. CASE UNCHANGED row
  BY <1>3, <1>7, LedgerStutters DEF Phase, Previewed, Made
<1>8. QED
  BY <1>5, <1>6, <1>7 DEF RowMarkSuccess

\* The last UPDATE closes a job whose rows are all decided.
LEMMA CompleteMaps ==
    ASSUME ImportInv, NEW r \in Request, ConfirmComplete(r)
    PROVE  Ledger!LedgerNext
<1>1. PICK j \in Job : loc[r].job = j
  BY JobOf DEF ConfirmComplete, ImportInv
<1>2. /\ status'[j] = "COMPLETED" /\ \A i \in Job \ {j} : status'[i] = status[i]
      /\ UNCHANGED <<env, row, holder>>
  BY <1>1 DEF ConfirmComplete, ImportInv, TypeOK
<1>3. /\ status[j] = "PROCESSING" /\ StatusFits(j) /\ LoopKnows(r) /\ loc[r] \in EndFrame
      /\ pc[r] = "complete"
  BY <1>1, FrameTable DEF ConfirmComplete, ImportInv, JobKnows, RequestKnows, ConfirmerKnows,
     Processing, TypeOK
<1>4. \A n \in RowNumber : row[j][n] # "PENDING"
  BY <1>1, <1>3 DEF LoopKnows, EndFrame
<1>5. \A i \in Job : Previewed(i)' <=> Previewed(i)
  BY <1>2 DEF Previewed
<1>6. Phase(j) = "CLAIMED" /\ Phase(j)' = "CLOSED"
  BY <1>2, <1>3, <1>5 DEF StatusFits, Phase
<1>7. [i \in Job |-> Phase(i)]' = [[i \in Job |-> Phase(i)] EXCEPT ![j] = "CLOSED"]
  BY <1>2, <1>5, <1>6, PhaseStays
<1>8. Accounts' = Accounts
  BY <1>2 DEF Accounts, Made
<1>9. Ledger!Close(j)
  BY <1>2, <1>4, <1>6, <1>7, <1>8 DEF Ledger!Close, Ledger!RowNumber, RowNumber
<1>10. QED
  BY <1>9 DEF Ledger!LedgerNext

\* An account made elsewhere is none of the ledger's.
LEMMA OtherWriterMaps ==
    ASSUME ImportInv, NEW k \in Key, OtherWriter(k)
    PROVE  UNCHANGED Ledger!ledger
<1>1. /\ UNCHANGED <<env, status, counts, row>>
      /\ holder[k] = Nobody /\ holder'[k] = Other
      /\ \A x \in Key \ {k} : holder'[x] = holder[x]
  BY DEF OtherWriter, ImportInv, TypeOK
<1>2. \A i \in Job, m \in RowNumber, x \in Key : holder'[x] = <<i, m>> <=> holder[x] = <<i, m>>
  <2>1. \A i \in Job, m \in RowNumber : Nobody # <<i, m>> /\ Other # <<i, m>>
    BY DEF Nobody, Other
  <2>2. QED
    BY <1>1, <2>1
<1>3. QED
  BY <1>1, <1>2, KeysOfRow, LedgerStutters DEF Made, Phase, Previewed

\* A code that an account is given is none of the ledger's.
LEMMA CodeMaps ==
    ASSUME ImportInv, NEW j \in Job, NEW n \in RowNumber, NEW k \in Key,
           CodeMoved(j, n, k) \/ CodeReleased(j, k)
    PROVE  UNCHANGED Ledger!ledger
BY CodeChanges, LedgerStutters DEF ImportInv, Phase, Previewed

\* A step that writes no table is none of the ledger's.
LEMMA StoreMaps ==
    ASSUME UNCHANGED store
    PROVE  UNCHANGED Ledger!ledger
BY LedgerStutters DEF store, Made, Phase, Previewed

\* The initial state of the import is one of the ledger.
LEMMA InitMaps == Init => Ledger!LedgerInit
<1> SUFFICES ASSUME Init PROVE Ledger!LedgerInit
  OBVIOUS
<1>1. \A j \in Job : Phase(j) = "NONE"
  BY HasRow DEF Init, Phase, Previewed
<1>2. Accounts = {}
  BY KeysOfRow DEF Init, Accounts, Made, Nobody
<1>3. QED
  BY <1>1, <1>2 DEF Init, Ledger!LedgerInit, Ledger!RowNumber, RowNumber

\* Every step of the import is a step of the ledger or none.
LEMMA NextMaps == ImportInv /\ [Next]_vars => [Ledger!LedgerNext]_(Ledger!ledger)
<1> SUFFICES ASSUME ImportInv, [Next]_vars
             PROVE  Ledger!LedgerNext \/ UNCHANGED Ledger!ledger
  OBVIOUS
<1>1. ASSUME NEW r \in Request, Step(r)
      PROVE  Ledger!LedgerNext \/ UNCHANGED Ledger!ledger
  <2>1. PreviewReadEmails(r) \/ ConfirmReadRows(r) \/ RowCheck(r) => UNCHANGED store
    BY DEF PreviewReadEmails, ConfirmReadRows, RowCheck
  <2>2. QED
    BY <1>1, <2>1, StoreMaps, SaveJobMaps, OpenMaps, ClaimMaps, CreateMaps, MarkMaps,
       CompleteMaps DEF Step
<1>2. ASSUME NEW r \in Request,
             Abandon(r) \/ \E j \in Job : PreviewReadCodes(r, j) \/ ConfirmRead(r, j)
      PROVE  UNCHANGED Ledger!ledger
  BY <1>2, StoreMaps DEF Abandon, PreviewReadCodes, ConfirmRead
<1>3. ASSUME NEW k \in Key, OtherWriter(k)
      PROVE  UNCHANGED Ledger!ledger
  BY <1>3, OtherWriterMaps
<1>7. ASSUME NEW k \in Key, NEW j \in Job,
             CodeReleased(j, k) \/ \E n \in RowNumber : CodeMoved(j, n, k)
      PROVE  UNCHANGED Ledger!ledger
  BY <1>7, HasRow, CodeMaps
<1>4. CASE Crash
  BY <1>4, StoreMaps DEF Crash
<1>5. CASE UNCHANGED vars
  BY <1>5, StoreMaps DEF vars, store
<1>6. QED
  BY <1>1, <1>2, <1>3, <1>4, <1>5, <1>7 DEF Next

\* The import, whatever overlaps and wherever it crashes, is a run of the ledger.
THEOREM ImplementsLedger == Spec => KeepsLedger
BY InitMaps, NextMaps, Invariant, PTL DEF Spec, KeepsLedger, Ledger!LedgerSpec

=============================================================================
