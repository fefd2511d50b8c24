---------------------------- MODULE ImportLedger ----------------------------
(***************************************************************************)
(* What a bulk import promises.  A job is opened with the rows that its    *)
(* preview accepted, claimed once, every accepted row is decided once --   *)
(* made, or failed without leaving anything behind -- and the job closes   *)
(* when every row is decided.  Only when the database is not reliable may  *)
(* a failed row have left its account behind.                              *)
(***************************************************************************)
EXTENDS Integers

CONSTANTS Job, N        \* a job has the rows 1..N

VARIABLES
    reliable,   \* whether every answer of the database reaches the program
    phase,      \* "NONE", "OPEN", "CLAIMED" or "CLOSED"
    outcome,    \* of each row: "NONE", "PENDING", "SUCCESS" or "FAILED"
    made        \* the rows whose account exists

ledger == <<reliable, phase, outcome, made>>

RowNumber == 1..N

LedgerInit ==
    /\ reliable \in BOOLEAN
    /\ phase = [j \in Job |-> "NONE"]
    /\ outcome = [j \in Job |-> [n \in RowNumber |-> "NONE"]]
    /\ made = {}

Open(j) ==
    /\ phase[j] = "NONE"
    /\ phase' = [phase EXCEPT ![j] = "OPEN"]
    /\ \E accepted \in SUBSET RowNumber :
         outcome' = [outcome EXCEPT ![j] =
           [n \in RowNumber |-> IF n \in accepted THEN "PENDING" ELSE "FAILED"]]
    /\ UNCHANGED <<reliable, made>>

Claim(j) ==
    /\ phase[j] = "OPEN"
    /\ phase' = [phase EXCEPT ![j] = "CLAIMED"]
    /\ UNCHANGED <<reliable, outcome, made>>

Make(j, n) ==
    /\ phase[j] = "CLAIMED"
    /\ outcome[j][n] = "PENDING"
    /\ <<j, n>> \notin made
    /\ made' = made \cup {<<j, n>>}
    /\ UNCHANGED <<reliable, phase, outcome>>

\* The verdict on a row says whether it was made.  After a lost answer a row
\* may be declared FAILED although it was made, a SUCCESS taken back as well.
Decide(j, n) ==
    /\ phase[j] = "CLAIMED"
    /\ outcome[j][n] = "PENDING" \/ (~reliable /\ outcome[j][n] = "SUCCESS")
    /\ \E verdict \in {"SUCCESS", "FAILED"} :
         /\ verdict = "SUCCESS" => <<j, n>> \in made
         /\ verdict = "FAILED" => <<j, n>> \notin made \/ ~reliable
         /\ outcome' = [outcome EXCEPT ![j][n] = verdict]
    /\ UNCHANGED <<reliable, phase, made>>

Close(j) ==
    /\ phase[j] = "CLAIMED"
    /\ \A n \in RowNumber : outcome[j][n] # "PENDING"
    /\ phase' = [phase EXCEPT ![j] = "CLOSED"]
    /\ UNCHANGED <<reliable, outcome, made>>

LedgerNext ==
    \E j \in Job :
      \/ Open(j) \/ Claim(j) \/ Close(j)
      \/ \E n \in RowNumber : Make(j, n) \/ Decide(j, n)

LedgerSpec == LedgerInit /\ [][LedgerNext]_ledger

=============================================================================
