----------------------------- MODULE ImportJob -----------------------------
(***************************************************************************)
(* ImportsService: the preview and confirmation of an Excel import of      *)
(* students or teachers, with StudentImportExecutor and                    *)
(* TeacherImportExecutor, which turn a row into an account.                *)
(*                                                                         *)
(* A row is what it can collide on: the student or teacher code, unique in *)
(* the organization, and the email, unique among all users.  No endpoint   *)
(* deletes users, students or teachers or changes an email, so an email    *)
(* once taken stays taken; but the code of an account can be changed.      *)
(***************************************************************************)
EXTENDS Integers, FiniteSetsExt

CONSTANTS
    Request,        \* slots for requests in flight at the same time
    Job,
    N,              \* rows of a file
    Key,            \* codes and emails
    Code, Email,    \* of each row of each job's file
    Teachers,       \* the jobs that import teachers
    Register,       \* of each job: the codes of its kind and organization
    Envs            \* what the environment may do: a set of alternatives

Event == {"writer", "refusal", "crash", "fault"}
RowNumber == 1..N

ASSUME ImportAssumption ==
    /\ N \in Nat \ {0}
    /\ Code \in [Job -> [RowNumber -> Key]]
    /\ Email \in [Job -> [RowNumber -> Key]]
    /\ Register \in [Job -> SUBSET Key]
    /\ \A j \in Job, n \in RowNumber :
         /\ Code[j][n] \in Register[j]
         /\ \A i \in Job : Email[j][n] \notin Register[i]
    /\ Teachers \subseteq Job
    /\ Envs \subseteq SUBSET Event

VARIABLES
    env,            \* the alternative chosen for this behaviour
    status,         \* import_jobs.status, or "NONE"
    counts,         \* import_jobs.successRows and failedRows
    row,            \* import_job_rows.status, or "NONE"
    holder,         \* who took a key
    pc,             \* where each request is suspended
    loc             \* the local variables of its handler

vars == <<env, status, counts, row, holder, pc, loc>>

----------------------------------------------------------------------------
JobStatus == {"PREVIEW", "PROCESSING", "COMPLETED"}
RowStatus == {"PENDING", "SUCCESS", "FAILED"}
\* Who took a key: nobody, an account not imported here, or a row.
Nobody == <<>>
Other == <<"OTHER">>
Holder == {Nobody, Other} \cup (Job \X RowNumber)

NoFrame == [idle |-> TRUE]
PreviewFrame == [job: Job, valid: SUBSET RowNumber]
ClaimFrame == [job: Job]
ConfirmFrame == [job: Job, todo: SUBSET RowNumber, success: Nat, failed: Nat]
RowFrame == {f \in ConfirmFrame : f.todo # {}}
EndFrame == {f \in ConfirmFrame : f.todo = {}}

PreviewPC == {"emails", "saveJob", "saveRows"}
RowPC == {"check", "create", "markSuccess", "markFailed"}
PC == {"idle", "claim", "readRows", "complete"} \cup PreviewPC \cup RowPC

FrameOf(p) ==
    CASE p = "idle"                  -> {NoFrame}
      [] p \in PreviewPC             -> PreviewFrame
      [] p \in {"claim", "readRows"} -> ClaimFrame
      [] p \in RowPC                 -> RowFrame
      [] p = "complete"              -> EndFrame

Init ==
    /\ env \in Envs
    /\ status = [j \in Job |-> "NONE"]
    /\ counts = [j \in Job |-> [success |-> 0, failed |-> 0]]
    /\ row = [j \in Job |-> [n \in RowNumber |-> "NONE"]]
    /\ holder = [k \in Key |-> Nobody]
    /\ pc = [r \in Request |-> "idle"]
    /\ loc = [r \in Request |-> NoFrame]

Goto(r, p, f) ==
    /\ pc' = [pc EXCEPT ![r] = p]
    /\ loc' = [loc EXCEPT ![r] = f]

Finish(r) == Goto(r, "idle", NoFrame)

store == <<env, status, counts, row, holder>>

----------------------------------------------------------------------------
(* Preview *)

\* A student file keeps the first of the rows that share a key.
RepeatsInStudentFile(j, n) ==
    \E m \in RowNumber : m < n /\ (Code[j][m] = Code[j][n] \/ Email[j][m] = Email[j][n])

\* A teacher file rejects them all: the earlier row is marked too.
RepeatsInTeacherFile(j, n) ==
    \E m \in RowNumber \ {n} : Code[j][m] = Code[j][n] \/ Email[j][m] = Email[j][n]

\* (mutant) Emails are not compared.
Repeats_CodesOnly(j, n) ==
    \E m \in RowNumber \ {n} :
      /\ Code[j][m] = Code[j][n]
      /\ j \in Teachers \/ m < n

Repeats(j, n) ==
    \/ j \in Teachers /\ RepeatsInTeacherFile(j, n)
    \/ j \notin Teachers /\ RepeatsInStudentFile(j, n)

\* The rows with a cell that is empty, too long or malformed: any.
CellErrors == IF "refusal" \in env THEN SUBSET RowNumber ELSE {{}}

\* The rows with a branch that does not exist or is inactive: any.
BranchErrors == IF "refusal" \in env THEN SUBSET RowNumber ELSE {{}}

\* validateRows, and the codes in use that addBusinessErrors reads.
PreviewReadCodes(r, j) ==
    /\ pc[r] = "idle"
    /\ status[j] = "NONE"
    /\ \A q \in Request : pc[q] \in PreviewPC => loc[q].job # j
    /\ \E errors \in CellErrors :
         Goto(r, "emails",
              [job |-> j, valid |-> {n \in RowNumber \ errors :
                                       ~Repeats(j, n) /\ holder[Code[j][n]] = Nobody}])
    /\ UNCHANGED store

\* addBusinessErrors: the emails in use, and the branches.
PreviewReadEmails(r) ==
    /\ pc[r] = "emails"
    /\ LET f == loc[r] IN
         \E errors \in BranchErrors :
           Goto(r, "saveJob",
                [f EXCEPT !.valid = {n \in @ \ errors : holder[Email[f.job][n]] = Nobody}])
    /\ UNCHANGED store

\* (mutant) The job is created in a status no endpoint knows.
PreviewSaveJob_Confirmed(r) ==
    /\ pc[r] = "saveJob"
    /\ status' = [status EXCEPT ![loc[r].job] = "CONFIRMED"]
    /\ Goto(r, "saveRows", loc[r])
    /\ UNCHANGED <<env, counts, row, holder>>

\* persistPreview: the job is committed before its rows.
PreviewSaveJob(r) ==
    /\ pc[r] = "saveJob"
    /\ status' = [status EXCEPT ![loc[r].job] = "PREVIEW"]
    /\ Goto(r, "saveRows", loc[r])
    /\ UNCHANGED <<env, counts, row, holder>>

\* persistPreview: save(rows) is one transaction.
PreviewSaveRows(r) ==
    /\ pc[r] = "saveRows"
    /\ row' = [row EXCEPT ![loc[r].job] =
                 [n \in RowNumber |-> IF n \in loc[r].valid THEN "PENDING" ELSE "FAILED"]]
    /\ Finish(r)
    /\ UNCHANGED <<env, status, counts, holder>>

----------------------------------------------------------------------------
(* Confirmation *)

\* A client knows the id of a job whose preview was answered.
Previewed(j) == \A n \in RowNumber : row[j][n] # "NONE"

\* (mutant) A job under way may be confirmed again.
Claimable_Unfinished(s) == s \in {"PREVIEW", "PROCESSING"}

Claimable(s) == s = "PREVIEW"

\* confirm: findOne, and claimImportJob's look at the status it returned.
ConfirmRead(r, j) ==
    /\ pc[r] = "idle"
    /\ Previewed(j)
    /\ Claimable(status[j])
    /\ Goto(r, "claim", [job |-> j])
    /\ UNCHANGED store

\* (mutant) The UPDATE has no status in its WHERE clause.
Claims_ById(j) == TRUE

\* The rows the conditional UPDATE of claimImportJob affects.
Claims(j) == Claimable(status[j])

ConfirmClaim(r) ==
    /\ pc[r] = "claim"
    /\ LET j == loc[r].job IN
         \/ /\ Claims(j)
            /\ status' = [status EXCEPT ![j] = "PROCESSING"]
            /\ Goto(r, "readRows", loc[r])
         \/ ~Claims(j) /\ Finish(r) /\ UNCHANGED status
    /\ UNCHANGED <<env, counts, row, holder>>

\* The loop over the PENDING rows: on to the next row or out of it.
Continue(r, f) == Goto(r, IF f.todo = {} THEN "complete" ELSE "check", f)

RowsIn(j, s) == {n \in RowNumber : row[j][n] = s}

ToImport(j) == RowsIn(j, "PENDING")

\* confirm: the rows; those the preview rejected count as failed.
ConfirmReadRows(r) ==
    /\ pc[r] = "readRows"
    /\ LET j == loc[r].job IN
         Continue(r, [job |-> j, todo |-> ToImport(j), success |-> 0,
                      failed |-> Cardinality(RowsIn(j, "FAILED"))])
    /\ UNCHANGED store

\* Rows are processed in the order of their numbers.
Current(r) == Min(loc[r].todo)

\* (mutant) The catch block does not count.
Catch_NoCount(r, f) == Goto(r, "markFailed", f)

\* The catch block: whatever was counted before, the row counts as failed.
Catch(r, f) == Goto(r, "markFailed", [f EXCEPT !.failed = @ + 1])

KeysFree(j, n) == holder[Code[j][n]] = Nobody /\ holder[Email[j][n]] = Nobody

\* The reasons to refuse a row that are not its keys, and failed statements.
RowMayBeRefused == env \cap {"refusal", "fault"} # {}

\* execute: validateRowDb.  It looks for the code and then for the email; as
\* an email that is free then was free before, both are read at once.
RowCheck(r) ==
    /\ pc[r] = "check"
    /\ LET f == loc[r] IN
         \/ KeysFree(f.job, Current(r)) /\ Goto(r, "create", f)
         \/ ~KeysFree(f.job, Current(r)) /\ Catch(r, f)
         \/ RowMayBeRefused /\ Catch(r, f)
    /\ UNCHANGED store

\* execute: the transaction that inserts the user, the membership and the
\* student or teacher.  The unique constraints make it take both keys or
\* neither; when the connection is lost the COMMIT may have succeeded.
RowCreate(r) ==
    /\ pc[r] = "create"
    /\ LET f == loc[r]
           j == f.job
           n == Current(r)
           create == holder' = [holder EXCEPT ![Code[j][n]] = <<j, n>>,
                                              ![Email[j][n]] = <<j, n>>]
       IN \/ /\ KeysFree(j, n)
             /\ create
             /\ \/ Goto(r, "markSuccess", [f EXCEPT !.success = @ + 1])
                \/ "fault" \in env /\ Catch(r, f)
          \/ /\ ~KeysFree(j, n) \/ RowMayBeRefused
             /\ Catch(r, f)
             /\ UNCHANGED holder
    /\ UNCHANGED <<env, status, counts, row>>

Mark(r, s) == row' = [row EXCEPT ![loc[r].job][Current(r)] = s]

Done(r) == Continue(r, [loc[r] EXCEPT !.todo = @ \ {Current(r)}])

\* The row's UPDATE is inside the try block: when it fails, applied or not,
\* the row is marked FAILED next.
RowMarkSuccess(r) ==
    /\ pc[r] = "markSuccess"
    /\ \/ Mark(r, "SUCCESS") /\ Done(r)
       \/ /\ "fault" \in env
          /\ Mark(r, "SUCCESS") \/ UNCHANGED row
          /\ Catch(r, loc[r])
    /\ UNCHANGED <<env, status, counts, holder>>

\* The UPDATE of the catch block: when it fails the request fails (Abandon).
RowMarkFailed(r) ==
    /\ pc[r] = "markFailed"
    /\ Mark(r, "FAILED")
    /\ Done(r)
    /\ UNCHANGED <<env, status, counts, holder>>

\* (mutant) The last UPDATE leaves the status out.
ConfirmComplete_CountsOnly(r) ==
    /\ pc[r] = "complete"
    /\ counts' = [counts EXCEPT ![loc[r].job] =
                    [success |-> loc[r].success, failed |-> loc[r].failed]]
    /\ Finish(r)
    /\ UNCHANGED <<env, status, row, holder>>

ConfirmComplete(r) ==
    /\ pc[r] = "complete"
    /\ LET f == loc[r] IN
         /\ status' = [status EXCEPT ![f.job] = "COMPLETED"]
         /\ counts' = [counts EXCEPT ![f.job] =
                         [success |-> f.success, failed |-> f.failed]]
    /\ Finish(r)
    /\ UNCHANGED <<env, row, holder>>

----------------------------------------------------------------------------
(* The environment *)

\* Another endpoint creates an account with key k, or gives an account not
\* imported here code k.
OtherWriter(k) ==
    /\ "writer" \in env
    /\ holder[k] = Nobody
    /\ holder' = [holder EXCEPT ![k] = Other]
    /\ UNCHANGED <<env, status, counts, row, pc, loc>>

Made(j, n) == holder[Email[j][n]] = <<j, n>>

\* StudentsService.update, TeachersService.update: the account of a row gets
\* code k ...
CodeMoved(j, n, k) ==
    /\ "writer" \in env
    /\ Made(j, n)
    /\ k \in Register[j]
    /\ holder[k] = Nobody
    /\ holder' = [c \in Key |->
                    IF c = k THEN <<j, n>>
                    ELSE IF c \in Register[j] /\ holder[c] = <<j, n>> THEN Nobody
                    ELSE holder[c]]
    /\ UNCHANGED <<env, status, counts, row, pc, loc>>

\* ... or the account with code k, whoever's it is, gets one that no file has.
CodeReleased(j, k) ==
    /\ "writer" \in env
    /\ k \in Register[j]
    /\ holder' = [holder EXCEPT ![k] = Nobody]
    /\ UNCHANGED <<env, status, counts, row, pc, loc>>

\* A statement outside the try block fails, before or after it took effect:
\* the latter is this action after the statement's own.
Abandon(r) ==
    /\ "fault" \in env
    /\ pc[r] \notin {"idle", "create", "markSuccess"}
    /\ Finish(r)
    /\ UNCHANGED store

\* The process dies; nothing resumes its requests when it is back.
Crash ==
    /\ "crash" \in env
    /\ \E r \in Request : pc[r] # "idle"
    /\ pc' = [r \in Request |-> "idle"]
    /\ loc' = [r \in Request |-> NoFrame]
    /\ UNCHANGED store

Step(r) ==
    \/ PreviewReadEmails(r) \/ PreviewSaveJob(r) \/ PreviewSaveRows(r)
    \/ ConfirmClaim(r) \/ ConfirmReadRows(r)
    \/ RowCheck(r) \/ RowCreate(r) \/ RowMarkSuccess(r) \/ RowMarkFailed(r)
    \/ ConfirmComplete(r)

Next ==
    \/ \E r \in Request :
         \/ Step(r) \/ Abandon(r)
         \/ \E j \in Job : PreviewReadCodes(r, j) \/ ConfirmRead(r, j)
    \/ \E k \in Key :
         \/ OtherWriter(k)
         \/ \E j \in Job :
              \/ CodeReleased(j, k)
              \/ \E n \in RowNumber : CodeMoved(j, n, k)
    \/ Crash

Spec == Init /\ [][Next]_vars

\* A request that has been accepted is served: its statements return.
FairSpec == Spec /\ \A r \in Request : WF_vars(Step(r))

----------------------------------------------------------------------------
(* Type invariant *)

\* Every variable has the type of its column or local.
TypeOK ==
    /\ env \in Envs
    /\ status \in [Job -> JobStatus \cup {"NONE"}]
    /\ counts \in [Job -> [success: Nat, failed: Nat]]
    /\ row \in [Job -> [RowNumber -> RowStatus \cup {"NONE"}]]
    /\ holder \in [Key -> Holder]
    /\ pc \in [Request -> PC]
    /\ DOMAIN loc = Request
    /\ \A r \in Request : loc[r] \in FrameOf(pc[r])

----------------------------------------------------------------------------
(* Properties *)

Processing(r) == pc[r] \in RowPC \cup {"readRows", "complete"}

\* At most one request processes a job, only while it is PROCESSING: the
\* conditional UPDATE of claimImportJob decides between overlapping
\* confirmations whose reads both saw PREVIEW.
OneProcessor ==
    \A r \in Request : Processing(r) =>
      /\ status[loc[r].job] = "PROCESSING"
      /\ \A q \in Request \ {r} : Processing(q) => loc[q].job # loc[r].job

\* While no statement fails, the counts of a COMPLETED job are those of the
\* rows marked SUCCESS and FAILED, no row is left PENDING, and a row is marked
\* SUCCESS just when its account was created.
ReportExact ==
    "fault" \notin env =>
      \A j \in Job : status[j] = "COMPLETED" =>
        /\ counts[j] = [success |-> Cardinality(RowsIn(j, "SUCCESS")),
                        failed  |-> Cardinality(RowsIn(j, "FAILED"))]
        /\ RowsIn(j, "PENDING") = {}
        /\ RowsIn(j, "SUCCESS") = {n \in RowNumber : Made(j, n)}

\* When statements fail the report still accounts for every row: a row
\* reported SUCCESS has its account, the failed count is exact, and the
\* success count exceeds the rows marked SUCCESS at most by the rows marked
\* FAILED although their account was created.
ReportBounded ==
    /\ \A j \in Job : \A n \in RowsIn(j, "SUCCESS") : Made(j, n)
    /\ \A j \in Job : status[j] = "COMPLETED" =>
         /\ RowsIn(j, "PENDING") = {}
         /\ counts[j].failed = Cardinality(RowsIn(j, "FAILED"))
         /\ counts[j].success \in Cardinality(RowsIn(j, "SUCCESS"))
                ..Cardinality({n \in RowNumber : Made(j, n)})

\* The report of a COMPLETED job is exact while no statement of confirm fails,
\* and accounts for every row and account when some do.
ReportCorrect == ReportExact /\ ReportBounded

\* Key k is held, and not by an account that was made from a row with k.
TakenElsewhere(k, j) ==
    /\ holder[k] # Nobody
    /\ \A n \in RowNumber : holder[k] = <<j, n>> => k \notin {Code[j][n], Email[j][n]}

\* The rows of one file do not fail each other: unless something else refuses
\* it, a row that the preview accepted is refused only because one of its keys
\* is, at that moment, with an account that did not get it from the file: an
\* account from elsewhere, or one that has been given the code since.
PreviewKept ==
    [][\A r \in Request :
         pc[r] \in {"check", "create"} /\ pc'[r] = "markFailed" /\ ~RowMayBeRefused
           => LET j == loc[r].job
                  n == Current(r)
              IN  TakenElsewhere(Code[j][n], j) \/ TakenElsewhere(Email[j][n], j)]_vars

\* While the process lives and its statements succeed, a confirmation that
\* was claimed completes.
ClaimedCompletes ==
    \A j \in Job :
      status[j] = "PROCESSING" /\ env \cap {"crash", "fault"} = {}
        ~> status[j] = "COMPLETED"

\* A job is open in the ledger once its rows are saved.
Phase(j) ==
    CASE ~Previewed(j) -> "NONE"
      [] Previewed(j) /\ status[j] = "PREVIEW" -> "OPEN"
      [] Previewed(j) /\ status[j] = "PROCESSING" -> "CLAIMED"
      [] OTHER -> "CLOSED"

Accounts == {x \in Job \X RowNumber : Made(x[1], x[2])}

\* The import implements the ledger, whatever overlaps and wherever it
\* crashes: the database is reliable when no statement fails.
Ledger == INSTANCE ImportLedger WITH
    reliable <- "fault" \notin env,
    phase <- [j \in Job |-> Phase(j)],
    outcome <- row,
    made <- Accounts

KeepsLedger == Ledger!LedgerSpec

=============================================================================
