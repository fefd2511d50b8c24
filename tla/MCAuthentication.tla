-------------------------- MODULE MCAuthentication --------------------------
(***************************************************************************)
(* Instances of Authentication for TLC.                                    *)
(***************************************************************************)
EXTENDS Authentication, TLC

CONSTANT HeldOtp   \* the one-time password a reset token was given for

ASSUME MCAuthAssumption == HeldOtp \in OtpId

AccountOf(active, password, orgs) ==
    [active |-> active, password |-> password, orgs |-> orgs]

\* One-time passwords of a user who may have registered, and the
\* sessions of a user, with a password or of Google only, who holds a reset token.
MCStarts ==
    {[calls |-> {"register", "verifyRegistration", "forgot", "verifyOtp", "google"},
      account |-> [e \in Email |-> a], resets |-> {}] :
       a \in {NoAccount, AccountOf(TRUE, 1, Org)}}
    \cup
    {[calls |-> {"login", "reset", "refresh", "logout", "administer"},
      account |-> [e \in Email |-> a], resets |-> [email: Email, otp: {HeldOtp}]] :
       a \in {AccountOf(TRUE, 0, Org), AccountOf(TRUE, 1, Org)}}

MCChanges == {AccountOf(FALSE, 1, Org), AccountOf(TRUE, 1, {})}

Symmetry ==
    Permutations(Request) \cup Permutations(OtpId \ {HeldOtp}) \cup Permutations(SessionId)

=============================================================================
