-------------------------- MODULE OneTimePasswords --------------------------
(***************************************************************************)
(* AuthService: registration by one-time password and password reset.      *)
(***************************************************************************)
EXTENDS AuthStore

(* sendRegistrationOtp, forgotPassword *)

RegistrationRead(r, e) ==
    /\ Called(r, "register")
    /\ ~Exists(e)
    /\ Goto(r, "otpUpdate", [email |-> e, purpose |-> "registration"])
    /\ UNCHANGED tables

ForgotRead(r, e) ==
    /\ Called(r, "forgot")
    /\ Active(e)
    /\ Goto(r, "otpUpdate", [email |-> e, purpose |-> "password_reset"])
    /\ UNCHANGED tables

\* (mutant) Only passwords for the same purpose are invalidated.
OtpUpdate_SamePurpose(r) ==
    /\ pc[r] = "otpUpdate"
    /\ Goto(r, "otpInsert", [email |-> loc[r].email, purpose |-> loc[r].purpose,
         old |-> {o.id : o \in {x \in LiveOtps(loc[r].email) :
                                   x.purpose = loc[r].purpose}}])
    /\ UNCHANGED tables

\* First statement of the transaction: it marks the rows committed by now,
\* whatever their purpose, and nobody sees the marks before the commit.
OtpUpdate(r) ==
    /\ pc[r] = "otpUpdate"
    /\ Goto(r, "otpInsert", [email |-> loc[r].email, purpose |-> loc[r].purpose,
                             old |-> {o.id : o \in LiveOtps(loc[r].email)}])
    /\ UNCHANGED tables

\* The INSERT and the commit; the mail that follows changes nothing.
OtpInsert(r) ==
    /\ pc[r] = "otpInsert"
    /\ \E id \in FreshOtp :
         otps' = Used(loc[r].old) \cup
           {[id |-> id, email |-> loc[r].email, purpose |-> loc[r].purpose, live |-> TRUE]}
    /\ Finish(r)
    /\ UNCHANGED <<calls, account, resets, sessions>>

----------------------------------------------------------------------------
(* verifyRegistrationOtp *)

\* The live rows are read and the one that matches is kept.
RegistrationMatch(r, o) ==
    /\ Called(r, "verifyRegistration")
    /\ o.live /\ o.purpose = "registration"
    /\ Goto(r, "regExists", [email |-> o.email, otp |-> o.id])
    /\ UNCHANGED tables

RegistrationExists(r) ==
    /\ pc[r] = "regExists"
    /\ IF Exists(loc[r].email) THEN Finish(r) ELSE Goto(r, "regCreate", loc[r])
    /\ UNCHANGED tables

\* The transaction, then issueTokensForOrganization.
RegistrationCreate(r) ==
    /\ pc[r] = "regCreate"
    /\ LET e == loc[r].email IN
         IF Exists(e)
         THEN Finish(r) /\ UNCHANGED <<calls, account, otps>>
         ELSE /\ OpenAccount(e, 1)
              /\ otps' = Used({loc[r].otp})
              /\ \E o \in account'[e].orgs :
                   Goto(r, "save", [email |-> e, org |-> o, past |-> SignedIn(1)])
    /\ UNCHANGED <<calls, resets, sessions>>

----------------------------------------------------------------------------
(* verifyOtp *)

ResetMatch(r, o) ==
    /\ Called(r, "verifyOtp")
    /\ o.live /\ o.purpose = "password_reset"
    /\ Goto(r, "sign", [email |-> o.email, otp |-> o.id])
    /\ UNCHANGED tables

\* findByEmail, and a reset token for that account: the one-time password
\* stays usable.
ResetSign(r) ==
    /\ pc[r] = "sign"
    /\ resets' = resets \cup {loc[r]}
    /\ Finish(r)
    /\ UNCHANGED <<calls, account, otps, sessions>>

----------------------------------------------------------------------------
(* resetPassword *)

\* The token is verified by itself, its one-time password is not looked at.
ResetStart(r, t) ==
    /\ Called(r, "reset")
    /\ Goto(r, "reset", t)
    /\ UNCHANGED tables

\* (mutant) The refresh tokens are left alone.
ResetRevoke_None(r) ==
    /\ pc[r] = "reset"
    /\ Goto(r, "resetCommit", [email |-> loc[r].email, otp |-> loc[r].otp, old |-> {}])
    /\ UNCHANGED tables

\* The three UPDATEs.  The first one waits for another reset of the account to
\* end; the last one reaches the refresh tokens that are committed by now.
ResetRevoke(r) ==
    /\ pc[r] = "reset"
    /\ \A q \in Request :
         pc[q] = "resetCommit" => loc[q].email # loc[r].email
    /\ Goto(r, "resetCommit",
            [email |-> loc[r].email, otp |-> loc[r].otp,
             old |-> {s.id : s \in Unrevoked(loc[r].email)}])
    /\ UNCHANGED tables

ResetCommit(r) ==
    /\ pc[r] = "resetCommit"
    /\ LET f == loc[r] IN
         /\ account[f.email].password < MaxPassword
         /\ account' = [account EXCEPT ![f.email].password = @ + 1]
         /\ otps' = Used({f.otp})
         /\ sessions' = Revoked(f.old)
    /\ Finish(r)
    /\ UNCHANGED <<calls, resets>>

=============================================================================
