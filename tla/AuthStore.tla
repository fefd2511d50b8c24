----------------------------- MODULE AuthStore ------------------------------
(***************************************************************************)
(* What the authentication endpoints share: accounts, one-time passwords,  *)
(* refresh tokens, and the frame of a handler that is suspended at an      *)
(* await.  Expiry is a state of a row and not a date: nothing compares two *)
(* dates, only "now" with one of them.                                     *)
(***************************************************************************)
EXTENDS Integers, FiniteSets

CONSTANTS
    Request,        \* slots for requests in flight at the same time
    Email,          \* accounts are found by email and by nothing else
    Org,            \* organizations
    OtpId,          \* identities of one-time passwords; their number is a bound
    SessionId,      \* identities of refresh tokens; their number is a bound
    MaxPassword,    \* bound: password resets of one account
    NoAccount, NoOrg

VARIABLES
    calls,          \* the endpoints clients call, chosen once
    account,        \* the user of each email, with its active memberships
    otps,           \* verification_tokens
    resets,         \* password reset tokens (JWT) that have not expired
    sessions,       \* refresh_tokens
    pc,             \* where each request is suspended
    loc,            \* the local variables of its handler
    met             \* history: requests that overlap a reset of their account

vars == <<calls, account, otps, resets, sessions, pc, loc, met>>
tables == <<calls, account, otps, resets, sessions>>

----------------------------------------------------------------------------
Endpoint == {"register", "verifyRegistration", "login", "google", "forgot",
             "verifyOtp", "reset", "refresh", "logout", "administer"}

Purpose == {"registration", "password_reset"}
Password == 0 .. MaxPassword

\* Passwords are numbered in the order they were set; 0 is none, the account
\* of a Google user.
AccountRow == [active: BOOLEAN, password: Password, orgs: SUBSET Org]

\* live: neither used nor expired.
OtpRow == [id: OtpId, email: Email, purpose: Purpose, live: BOOLEAN]

\* History of a session, which a refresh hands down in two ways.  The token
\* presented hands down password: the account's when the user proved who they
\* were.  The row that is revoked hands down place: the same of the session in
\* whose place it stands; and overlapped: a request that stored it, or one it
\* stands in place of, overlapped a reset.  borrowed: at a refresh on the way
\* here the row was not that of the token.
Past == [password: Password, place: Password, borrowed: BOOLEAN, overlapped: BOOLEAN]

SessionRow == [id: SessionId, email: Email, org: Org, past: Past,
               state: {"live", "expired", "revoked"}]

ResetToken == [email: Email, otp: OtpId]

ASSUME AuthAssumption ==
    /\ IsFiniteSet(Request) /\ IsFiniteSet(SessionId)
    /\ MaxPassword \in Nat \ {0}
    /\ NoOrg \notin Org
    /\ NoAccount \notin AccountRow

NoFrame == [idle |-> TRUE]
IssueFrame == [email: Email, org: Org, past: Past]

FrameOf(p) ==
    CASE p = "idle"        -> {NoFrame}
      [] p = "otpUpdate"   -> [email: Email, purpose: Purpose]
      [] p = "otpInsert"   -> [email: Email, purpose: Purpose, old: SUBSET OtpId]
      [] p \in {"regExists", "regCreate", "sign", "reset"} -> ResetToken
      [] p = "resetCommit" -> [email: Email, otp: OtpId, old: SUBSET SessionId]
      [] p = "memberships" -> [email: Email, password: Password, org: Org \cup {NoOrg}]
      [] p \in {"googleCreate", "googleLink", "googleFind"} -> [email: Email]
      [] p = "rotate"      -> [row: SessionRow, matches: BOOLEAN, past: Past]
      [] p \in {"findUser", "save"} -> IssueFrame
      [] p = "logout"      -> [email: Email, id: SessionId]

PC == {"idle", "otpUpdate", "otpInsert", "regExists", "regCreate", "sign",
       "reset", "resetCommit", "memberships", "googleCreate", "googleLink",
       "googleFind", "rotate", "findUser", "save", "logout"}

\* The account a suspended request works for.
EmailOf(p, f) ==
    IF p = "rotate" THEN f.row.email ELSE f.email

\* r goes on at p with locals f.  History: of the requests in flight, those
\* that saw an uncommitted reset of their account by somebody else.
Goto(r, p, f) ==
    /\ pc' = [pc EXCEPT ![r] = p]
    /\ loc' = [loc EXCEPT ![r] = f]
    /\ met' = {q \in Request :
                 /\ pc'[q] # "idle"
                 /\ \/ q \in met
                    \/ \E x \in Request \ {q} :
                         /\ pc'[x] = "resetCommit"
                         /\ loc'[x].email = EmailOf(pc'[q], loc'[q])}

Finish(r) == Goto(r, "idle", NoFrame)

Called(r, endpoint) == pc[r] = "idle" /\ endpoint \in calls

Exists(e) == account[e] # NoAccount
Active(e) == Exists(e) /\ account[e].active

\* The past of a session that is opened by signing in.
SignedIn(password) ==
    [password |-> password, place |-> password, borrowed |-> FALSE, overlapped |-> FALSE]

LiveOtps(e) == {o \in otps : o.email = e /\ o.live}
LiveSessions(e) == {s \in sessions : s.email = e /\ s.state = "live"}
Unrevoked(e) == {s \in sessions : s.email = e /\ s.state # "revoked"}

Used(ids) == {[o EXCEPT !.live = @ /\ o.id \notin ids] : o \in otps}

Revoked(ids) ==
    {IF s.id \in ids THEN [s EXCEPT !.state = "revoked"] ELSE s : s \in sessions}

FreshOtp == OtpId \ {o.id : o \in otps}
FreshSession == SessionId \ {s.id : s \in sessions}

\* The transaction that makes a user, an organization of its own and the
\* OWNER membership in it: all or, when the email is taken by then, nothing.
OpenAccount(e, password) ==
    \E o \in Org :
      /\ \A x \in Email : Exists(x) => o \notin account[x].orgs
      /\ account' = [account EXCEPT
                       ![e] = [active |-> TRUE, password |-> password, orgs |-> {o}]]

\* From outside of these endpoints: accounts are made, suspended and readmitted,
\* join and leave organizations.
Accounts == [Email -> AccountRow \cup {NoAccount}]

Administer(e, row) ==
    /\ "administer" \in calls
    /\ Exists(e)
    /\ row \in AccountRow
    /\ row.password = account[e].password
    /\ account' = [account EXCEPT ![e] = row]
    /\ UNCHANGED <<calls, otps, resets, sessions, pc, loc, met>>

ExpireOtp(o) ==
    /\ o.live
    /\ otps' = Used({o.id})
    /\ UNCHANGED <<calls, account, resets, sessions, pc, loc, met>>

ExpireReset(t) ==
    /\ resets' = resets \ {t}
    /\ UNCHANGED <<calls, account, otps, sessions, pc, loc, met>>

ExpireSession(s) ==
    /\ s.state = "live"
    /\ sessions' = (sessions \ {s}) \cup {[s EXCEPT !.state = "expired"]}
    /\ UNCHANGED <<calls, account, otps, resets, pc, loc, met>>

\* A request stops at an await: a lost connection, a failing statement, the
\* end of the process.  A transaction that is open is rolled back.
Abandon(r) ==
    /\ pc[r] # "idle"
    /\ Finish(r)
    /\ UNCHANGED tables

=============================================================================
