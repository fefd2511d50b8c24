------------------------ MODULE AuthenticationProofs ------------------------
(***************************************************************************)
(* Theorems about Authentication for every number of requests, accounts    *)
(* and tokens.                                                             *)
(***************************************************************************)
EXTENDS Authentication, FiniteSetTheorems, TLAPS

(***************************************************************************)
(* Frames and rows                                                         *)
(***************************************************************************)

\* The frame of each program counter.
LEMMA FrameTable ==
    /\ FrameOf("idle") = {NoFrame}
    /\ FrameOf("otpUpdate") = [email: Email, purpose: Purpose]
    /\ FrameOf("otpInsert") = [email: Email, purpose: Purpose, old: SUBSET OtpId]
    /\ FrameOf("regExists") = ResetToken /\ FrameOf("regCreate") = ResetToken
    /\ FrameOf("sign") = ResetToken /\ FrameOf("reset") = ResetToken
    /\ FrameOf("resetCommit") = [email: Email, otp: OtpId, old: SUBSET SessionId]
    /\ FrameOf("memberships") = [email: Email, password: Password, org: Org \cup {NoOrg}]
    /\ FrameOf("googleCreate") = [email: Email] /\ FrameOf("googleLink") = [email: Email]
    /\ FrameOf("googleFind") = [email: Email]
    /\ FrameOf("rotate") = [row: SessionRow, matches: BOOLEAN, past: Past]
    /\ FrameOf("findUser") = IssueFrame /\ FrameOf("save") = IssueFrame
    /\ FrameOf("logout") = [email: Email, id: SessionId]
BY DEF FrameOf

\* A request that is not idle works for an account.
LEMMA FrameEmail ==
    ASSUME NEW p \in PC \ {"idle"}, NEW f \in FrameOf(p)
    PROVE  EmailOf(p, f) \in Email
<1>1. \/ p = "rotate" /\ f \in [row: SessionRow, matches: BOOLEAN, past: Past]
      \/ /\ p # "rotate"
         /\ \/ f \in [email: Email, purpose: Purpose]
            \/ f \in [email: Email, purpose: Purpose, old: SUBSET OtpId]
            \/ f \in ResetToken
            \/ f \in [email: Email, otp: OtpId, old: SUBSET SessionId]
            \/ f \in [email: Email, password: Password, org: Org \cup {NoOrg}]
            \/ f \in [email: Email]
            \/ f \in IssueFrame
            \/ f \in [email: Email, id: SessionId]
  BY FrameTable DEF PC
<1> HIDE DEF PC
<1>2. \/ p = "rotate" /\ f.row.email \in Email
      \/ p # "rotate" /\ f.email \in Email
  BY <1>1 DEF ResetToken, IssueFrame, SessionRow
<1>3. QED
  BY <1>2 DEF EmailOf

\* The user of an email, when there is one, is a row.
LEMMA AccountTyped ==
    ASSUME TypeOK, NEW e \in Email, Exists(e)
    PROVE  account[e] \in AccountRow
BY DEF TypeOK, Accounts, Exists

\* The history of overlaps holds every request that overlaps a reset of its
\* account.
Meeting ==
    \A q, x \in Request :
      /\ pc[q] # "idle" /\ q # x /\ pc[x] = "resetCommit"
      /\ loc[x].email = EmailOf(pc[q], loc[q])
      => q \in met

\* Going to the next await changes the frame of one request, forgets no
\* overlap of those that are not done and records the new ones.
LEMMA GotoTyped ==
    ASSUME TypeOK, NEW r \in Request, NEW p \in PC, NEW f \in FrameOf(p), Goto(r, p, f)
    PROVE  /\ pc' \in [Request -> PC] /\ DOMAIN loc' = Request
           /\ \A q \in Request : loc'[q] \in FrameOf(pc'[q])
           /\ pc'[r] = p /\ loc'[r] = f
           /\ \A q \in Request \ {r} : pc'[q] = pc[q] /\ loc'[q] = loc[q]
           /\ met' \in SUBSET {q \in Request : pc'[q] # "idle"}
           /\ \A q \in Request : q \in met /\ pc'[q] # "idle" => q \in met'
           /\ Meeting'
<1>1. /\ pc' \in [Request -> PC] /\ DOMAIN loc' = Request
      /\ pc'[r] = p /\ loc'[r] = f
      /\ \A q \in Request \ {r} : pc'[q] = pc[q] /\ loc'[q] = loc[q]
  BY DEF Goto, TypeOK
<1>2. \A q \in Request : loc'[q] \in FrameOf(pc'[q])
  BY <1>1 DEF TypeOK
<1>3. met' = {q \in Request :
                 /\ pc'[q] # "idle"
                 /\ \/ q \in met
                    \/ \E x \in Request \ {q} :
                         /\ pc'[x] = "resetCommit"
                         /\ loc'[x].email = EmailOf(pc'[q], loc'[q])}
  BY DEF Goto
<1>4. Meeting'
  BY <1>3 DEF Meeting, EmailOf
<1>5. QED
  BY <1>1, <1>2, <1>3, <1>4

\* Marking one-time passwords keeps the rows: each old one has one new one,
\* which is the same when it is still live.
LEMMA UsedRows ==
    ASSUME TypeOK, NEW ids
    PROVE  /\ Used(ids) \subseteq OtpRow
           /\ \A x, y \in Used(ids) : x.id = y.id => x = y
           /\ \A x \in Used(ids) :
                \E o \in otps : /\ o.id = x.id /\ o.email = x.email /\ o.purpose = x.purpose
                                /\ x.live => x = o /\ o.id \notin ids
<1> DEFINE mark(o) == [o EXCEPT !.live = @ /\ o.id \notin ids]
<1>1. ASSUME NEW o \in otps
      PROVE  /\ mark(o) \in OtpRow
             /\ mark(o).id = o.id /\ mark(o).email = o.email /\ mark(o).purpose = o.purpose
             /\ mark(o).live => mark(o) = o /\ o.id \notin ids
  <2>1. o \in OtpRow /\ o.live \in BOOLEAN
    BY DEF TypeOK, OtpRow
  <2>2. mark(o).live <=> o.live /\ o.id \notin ids
    BY <2>1 DEF OtpRow
  <2>3. mark(o) \in OtpRow /\ mark(o).id = o.id /\ mark(o).email = o.email
          /\ mark(o).purpose = o.purpose
    BY <2>1 DEF OtpRow
  <2>4. ASSUME mark(o).live PROVE mark(o) = o /\ o.id \notin ids
    <3>1. o.live = TRUE /\ o.id \notin ids
      BY <2>1, <2>2, <2>4
    <3>2. QED
      BY <2>1, <3>1 DEF OtpRow
  <2>5. QED
    BY <2>3, <2>4
<1>2. Used(ids) = {mark(o) : o \in otps}
  BY DEF Used
<1> HIDE DEF mark
<1>3. QED
  BY <1>1, <1>2 DEF TypeOK

\* Revoking sessions keeps the rows: each old one has one new one, which is
\* the same when it is still live.
LEMMA RevokedRows ==
    ASSUME TypeOK, NEW ids
    PROVE  /\ Revoked(ids) \subseteq SessionRow
           /\ \A x, y \in Revoked(ids) : x.id = y.id => x = y
           /\ \A x \in Revoked(ids) :
                \E s \in sessions : s.id = x.id /\ s.email = x.email
           /\ \A x \in Revoked(ids) : x.state = "live" => x \in sessions /\ x.id \notin ids
           /\ \A s \in sessions :
                \E x \in Revoked(ids) : /\ s.id = x.id /\ s.email = x.email
                                        /\ s.id \notin ids => x = s
<1> DEFINE mark(s) == IF s.id \in ids THEN [s EXCEPT !.state = "revoked"] ELSE s
<1>1. ASSUME NEW s \in sessions
      PROVE  /\ mark(s) \in SessionRow
             /\ mark(s).id = s.id /\ mark(s).email = s.email
             /\ s.id \notin ids => mark(s) = s
             /\ mark(s).state = "live" => mark(s) = s /\ s.id \notin ids
  <2>1. s \in SessionRow
    BY DEF TypeOK
  <2>2. CASE s.id \in ids
    BY <2>1, <2>2 DEF SessionRow
  <2>3. CASE s.id \notin ids
    BY <2>1, <2>3
  <2>4. QED
    BY <2>2, <2>3
<1>2. Revoked(ids) = {mark(s) : s \in sessions}
  BY DEF Revoked
<1> HIDE DEF mark
<1>3. QED
  BY <1>1, <1>2 DEF TypeOK

(***************************************************************************)
(* What requests and rows know                                             *)
(***************************************************************************)

\* A request that has found the account it works for.
Found == {"sign", "reset", "resetCommit", "memberships", "googleLink", "googleFind",
          "rotate", "findUser", "save", "logout"}

\* The password with which a user proved who they were is current, unless
\* request r overlaps a reset of the account.
Proven(r, e, password, A, M) == password = A[e].password \/ r \in M

\* A session that stands in the place of its token's row at every refresh is of
\* the proof of that row.
Whole(past) == past.borrowed \/ past.password = past.place

\* The past of a session that request r is about to store in the place of
\* another is sound.
Carried(r, e, past, A, M) ==
    Whole(past) /\ (Proven(r, e, past.place, A, M) \/ past.overlapped)

\* What request r, suspended at p with locals f, knows of accounts A, sessions
\* S and the requests M that overlap a reset.
Knows(r, p, f, A, S, M) ==
    /\ p \in Found => A[EmailOf(p, f)] # NoAccount
    /\ p \in {"otpUpdate", "otpInsert"} /\ f.purpose = "password_reset" =>
         A[f.email] # NoAccount
    /\ p = "resetCommit" =>
         /\ \A s \in S : s.state = "live" /\ s.email = f.email => s.id \in f.old \/ s.past.overlapped
         /\ \A id \in f.old : \E s \in S : s.id = id /\ s.email = f.email
    /\ p = "logout" => \E s \in S : s.id = f.id /\ s.email = f.email
    /\ p = "memberships" => Proven(r, f.email, f.password, A, M)
    /\ p = "rotate" =>
         /\ f.matches /\ f.row.state = "live"
         /\ \E s \in S : s.id = f.row.id /\ s.email = f.row.email
         /\ Carried(r, f.row.email, f.past, A, M)
    /\ p \in {"findUser", "save"} => Carried(r, f.email, f.past, A, M)

\* Passwords to reset an account, reset tokens and sessions O, T and S are of
\* accounts A, and the live sessions stand in the place of sessions of the
\* current password unless they overlapped a reset.
RowsSound(A, O, T, S) ==
    /\ \A o \in O : o.purpose = "password_reset" => A[o.email] # NoAccount
    /\ \A t \in T : A[t.email] # NoAccount
    /\ \A s \in S : /\ A[s.email] # NoAccount
                    /\ s.state = "live" =>
                         /\ Whole(s.past)
                         /\ s.past.place = A[s.email].password \/ s.past.overlapped

AuthInv ==
    /\ TypeOK
    /\ Meeting
    /\ RowsSound(account, otps, resets, sessions)
    /\ \A r \in Request : Knows(r, pc[r], loc[r], account, sessions, met)

\* The rows stay sound as long as accounts stay, with their passwords, and new
\* ones are of accounts.
LEMMA RowsStay ==
    ASSUME NEW A, NEW B, NEW O, NEW P, NEW T, NEW U, NEW S, NEW R,
           RowsSound(A, O, T, S),
           \A o \in P : \E x \in O : x.email = o.email /\ x.purpose = o.purpose,
           \A t \in U : t \in T,
           \A s \in R : \E x \in S : x.email = s.email,
           \A s \in R : s.state = "live" => s \in S,
           \A o \in O : A[o.email] # NoAccount => B[o.email] # NoAccount,
           \A t \in T : A[t.email] # NoAccount => B[t.email] # NoAccount,
           \A s \in S : A[s.email] # NoAccount =>
              B[s.email] # NoAccount /\ A[s.email].password = B[s.email].password
    PROVE  RowsSound(B, P, U, R)
BY DEF RowsSound

\* A request keeps knowing what it knows when its account stays, with its
\* password or with a record of the overlap, no session disappears, and the
\* sessions a reset has not seen overlap it.
LEMMA KnowsStays ==
    ASSUME NEW r, NEW p \in PC, NEW f, NEW A, NEW B, NEW S, NEW R, NEW M, NEW N,
           Knows(r, p, f, A, S, M),
           r \in M => r \in N,
           p \in Found /\ A[EmailOf(p, f)] # NoAccount =>
              /\ B[EmailOf(p, f)] # NoAccount
              /\ A[EmailOf(p, f)].password = B[EmailOf(p, f)].password \/ r \in N,
           p \in {"otpUpdate", "otpInsert"} /\ A[f.email] # NoAccount =>
              B[f.email] # NoAccount,
           \A s \in S : \E x \in R : x.id = s.id /\ x.email = s.email,
           \A s \in R : s.state = "live" =>
              s \in S \/ (p = "resetCommit" /\ f.email = s.email => s.past.overlapped)
    PROVE  Knows(r, p, f, B, R, N)
<1>1. p \in Found => B[EmailOf(p, f)] # NoAccount
  BY DEF Knows
<1>2. p \in {"otpUpdate", "otpInsert"} /\ f.purpose = "password_reset" =>
        B[f.email] # NoAccount
  BY DEF Knows
<1>3. p = "resetCommit" =>
        /\ \A s \in R : s.state = "live" /\ s.email = f.email => s.id \in f.old \/ s.past.overlapped
        /\ \A id \in f.old : \E s \in R : s.id = id /\ s.email = f.email
  BY DEF Knows
<1>9. p = "logout" => \E s \in R : s.id = f.id /\ s.email = f.email
  BY DEF Knows
<1>4. \A password : p \in Found /\ Proven(r, EmailOf(p, f), password, A, M) =>
                       Proven(r, EmailOf(p, f), password, B, N)
  BY DEF Knows, Proven
<1>5. p = "memberships" => Proven(r, f.email, f.password, B, N)
  BY <1>4 DEF Knows, Found, EmailOf
<1>6. p = "rotate" =>
        /\ f.matches /\ f.row.state = "live"
        /\ \E s \in R : s.id = f.row.id /\ s.email = f.row.email
        /\ Carried(r, f.row.email, f.past, B, N)
  BY <1>4 DEF Knows, Found, EmailOf, Carried
<1>7. p \in {"findUser", "save"} => Carried(r, f.email, f.past, B, N)
  BY <1>4 DEF Knows, Found, EmailOf, Carried
<1>8. QED
  BY <1>1, <1>2, <1>3, <1>5, <1>6, <1>7, <1>9 DEF Knows

\* A request that is done knows nothing.
LEMMA DoneKnows ==
    \A r, f, A, S, M : Knows(r, "idle", f, A, S, M)
BY DEF Knows, Found

\* A step of request r that goes on at p keeps the invariant when its rows are
\* typed and sound, r knows what it has to, and the others' accounts and
\* sessions are as they were, or r's reset of them is recorded.
LEMMA StepKeeps ==
    ASSUME AuthInv, NEW r \in Request, NEW p \in PC, NEW f \in FrameOf(p), Goto(r, p, f),
           calls' \subseteq Endpoint, account' \in Accounts,
           otps' \subseteq OtpRow, \A x, y \in otps' : x.id = y.id => x = y,
           resets' \subseteq ResetToken,
           sessions' \subseteq SessionRow, \A x, y \in sessions' : x.id = y.id => x = y,
           RowsSound(account', otps', resets', sessions'),
           Knows(r, p, f, account', sessions', met),
           \A q \in Request \ {r} :
              pc[q] # "idle" /\ account[EmailOf(pc[q], loc[q])] # NoAccount =>
                /\ account'[EmailOf(pc[q], loc[q])] # NoAccount
                /\ \/ account[EmailOf(pc[q], loc[q])].password
                        = account'[EmailOf(pc[q], loc[q])].password
                   \/ q \in met,
           \A s \in sessions : \E x \in sessions' : x.id = s.id /\ x.email = s.email,
           \A s \in sessions' : s.state = "live" =>
              \/ s \in sessions
              \/ \A q \in Request \ {r} :
                   pc[q] = "resetCommit" /\ loc[q].email = s.email => s.past.overlapped
    PROVE  AuthInv'
<1>1. /\ TypeOK /\ Meeting
      /\ \A q \in Request : Knows(q, pc[q], loc[q], account, sessions, met)
  BY DEF AuthInv
<1>2. /\ pc' \in [Request -> PC] /\ DOMAIN loc' = Request
      /\ \A q \in Request : loc'[q] \in FrameOf(pc'[q])
      /\ pc'[r] = p /\ loc'[r] = f
      /\ \A q \in Request \ {r} : pc'[q] = pc[q] /\ loc'[q] = loc[q]
      /\ met' \in SUBSET {q \in Request : pc'[q] # "idle"}
      /\ \A q \in Request : q \in met /\ pc'[q] # "idle" => q \in met'
      /\ Meeting'
  BY <1>1, GotoTyped
<1>3. TypeOK'
  BY <1>2 DEF TypeOK
<1>4. Knows(r, p, f, account', sessions', met')
  <2>1. CASE p = "idle"
    BY <2>1, DoneKnows
  <2>2. CASE p # "idle"
    <3>1. r \in met => r \in met'
      BY <1>2, <2>2
    <3>2. \A s \in sessions' : \E x \in sessions' : x.id = s.id /\ x.email = s.email
      OBVIOUS
    <3>3. p \in Found => account'[EmailOf(p, f)] # NoAccount
      BY DEF Knows
    <3>4. QED
      BY <3>1, <3>2, <3>3, KnowsStays
  <2>3. QED
    BY <2>1, <2>2
<1>5. ASSUME NEW q \in Request \ {r}
      PROVE  Knows(q, pc[q], loc[q], account', sessions', met')
  <2> DEFINE e == EmailOf(pc[q], loc[q])
  <2>1. CASE pc[q] = "idle"
    BY <2>1, DoneKnows
  <2>2. CASE pc[q] # "idle"
    <3>1. q \in met => q \in met'
      BY <1>2, <2>2
    <3>2. pc[q] \in PC /\ Knows(q, pc[q], loc[q], account, sessions, met)
      BY <1>1 DEF TypeOK
    <3>3. pc[q] \in {"otpUpdate", "otpInsert"} => EmailOf(pc[q], loc[q]) = loc[q].email
      BY DEF EmailOf
    <3>4. account[e] # NoAccount =>
            account'[e] # NoAccount /\ (account[e].password = account'[e].password \/ q \in met')
      BY <2>2, <3>1
    <3>5. pc[q] \in {"otpUpdate", "otpInsert"} /\ account[loc[q].email] # NoAccount =>
            account'[loc[q].email] # NoAccount
      BY <3>3, <3>4
    <3>6. \A s \in sessions' : s.state = "live" =>
            s \in sessions \/ (pc[q] = "resetCommit" /\ loc[q].email = s.email => s.past.overlapped)
      OBVIOUS
    <3>7. QED
      BY <3>1, <3>2, <3>4, <3>5, <3>6, KnowsStays
  <2>3. QED
    BY <2>1, <2>2
<1>6. \A q \in Request : Knows(q, pc'[q], loc'[q], account', sessions', met')
  BY <1>2, <1>4, <1>5
<1>7. QED
  BY <1>2, <1>3, <1>6 DEF AuthInv

\* A step that only goes on.
LEMMA AwaitKeeps ==
    ASSUME AuthInv, NEW r \in Request, NEW p \in PC, NEW f \in FrameOf(p), Goto(r, p, f),
           UNCHANGED tables, Knows(r, p, f, account, sessions, met)
    PROVE  AuthInv'
<1>1. /\ calls' = calls /\ account' = account /\ otps' = otps /\ resets' = resets
      /\ sessions' = sessions
  BY DEF tables
<1>2. /\ TypeOK /\ RowsSound(account, otps, resets, sessions)
  BY DEF AuthInv
<1>3. /\ calls \subseteq Endpoint /\ account \in Accounts
      /\ otps \subseteq OtpRow /\ \A x, y \in otps : x.id = y.id => x = y
      /\ resets \subseteq ResetToken
      /\ sessions \subseteq SessionRow /\ \A x, y \in sessions : x.id = y.id => x = y
  BY <1>2 DEF TypeOK
<1>4. QED
  BY <1>1, <1>2, <1>3, StepKeeps

\* A step that only ends the request.
LEMMA FinishKeeps ==
    ASSUME AuthInv, NEW r \in Request, Finish(r), UNCHANGED tables
    PROVE  AuthInv'
<1>1. "idle" \in PC /\ NoFrame \in FrameOf("idle") /\ Goto(r, "idle", NoFrame)
  BY FrameTable DEF PC, Finish
<1>2. QED
  BY <1>1, AwaitKeeps, DoneKnows

\* The transaction that makes a user leaves the other accounts alone.
LEMMA OpenTyped ==
    ASSUME TypeOK, NEW e \in Email, NEW password \in Password, ~Exists(e),
           OpenAccount(e, password)
    PROVE  /\ account' \in Accounts
           /\ account'[e] \in AccountRow /\ account'[e].password = password
           /\ account'[e] # NoAccount
           /\ \A x \in Email : account[x] # NoAccount => account'[x] = account[x]
<1>1. PICK o \in Org :
        account' = [account EXCEPT
                      ![e] = [active |-> TRUE, password |-> password, orgs |-> {o}]]
  BY DEF OpenAccount
<1>2. [active |-> TRUE, password |-> password, orgs |-> {o}] \in AccountRow
  BY DEF AccountRow
<1>3. account \in [Email -> AccountRow \cup {NoAccount}]
  BY DEF TypeOK, Accounts
<1>4. account'[e] = [active |-> TRUE, password |-> password, orgs |-> {o}]
  BY <1>1, <1>3
<1>5. account'[e] \in AccountRow /\ account'[e].password = password
  BY <1>2, <1>4
<1>6. account'[e] # NoAccount
  BY <1>5, AuthAssumption
<1>7. account' \in Accounts /\ \A x \in Email : x # e => account'[x] = account[x]
  BY <1>1, <1>2, <1>3 DEF Accounts
<1>8. QED
  BY <1>5, <1>6, <1>7 DEF Exists

\* A session that is opened by signing in is of one proof.
LEMMA SignedInSound ==
    ASSUME NEW password \in Password
    PROVE  /\ SignedIn(password) \in Past /\ Whole(SignedIn(password))
           /\ SignedIn(password).place = password
BY DEF SignedIn, Past, Whole

\* The past that a refresh with a token gets for a row is that of the row, and
\* of one proof when the row is the token's.
LEMMA RefreshedSound ==
    ASSUME TypeOK, NEW token \in sessions, NEW s \in sessions, Whole(s.past)
    PROVE  /\ Refreshed(token, s) \in Past /\ Whole(Refreshed(token, s))
           /\ Refreshed(token, s).place = s.past.place
           /\ Refreshed(token, s).overlapped = s.past.overlapped
<1> DEFINE new == Refreshed(token, s)
<1>1. s.past \in Past /\ token.past \in Past
  BY DEF TypeOK, SessionRow
<1>2. /\ new \in Past /\ new.place = s.past.place /\ new.overlapped = s.past.overlapped
      /\ new.password = token.past.password
      /\ new.borrowed = (s.past.borrowed \/ token.past.borrowed \/ token.id # s.id)
  BY <1>1 DEF Refreshed, Past
<1>3. Whole(new)
  <2>1. CASE token.id = s.id
    <3>1. token = s
      BY <2>1 DEF TypeOK
    <3>2. QED
      BY <1>2, <3>1 DEF Whole
  <2>2. CASE token.id # s.id
    BY <1>2, <2>2 DEF Whole
  <2>3. QED
    BY <2>1, <2>2
<1>4. QED
  BY <1>2, <1>3

(***************************************************************************)
(* Each step keeps the invariant                                           *)
(***************************************************************************)

\* The endpoints of one-time passwords begin with the rows they read.
LEMMA OtpCallsKeep ==
    ASSUME AuthInv, NEW r \in Request, OtpCalls(r)
    PROVE  AuthInv'
<1>1. TypeOK /\ RowsSound(account, otps, resets, sessions)
  BY DEF AuthInv
<1>2. ASSUME NEW e \in Email, RegistrationRead(r, e) PROVE AuthInv'
  <2> DEFINE f == [email |-> e, purpose |-> "registration"]
  <2>1. "otpUpdate" \in PC /\ f \in FrameOf("otpUpdate")
    BY FrameTable DEF PC, Purpose
  <2>2. Knows(r, "otpUpdate", f, account, sessions, met)
    BY DEF Knows, Found
  <2>3. Goto(r, "otpUpdate", f) /\ UNCHANGED tables
    BY <1>2 DEF RegistrationRead
  <2> HIDE DEF f
  <2>4. QED
    BY <2>1, <2>2, <2>3, AwaitKeeps
<1>3. ASSUME NEW e \in Email, ForgotRead(r, e) PROVE AuthInv'
  <2> DEFINE f == [email |-> e, purpose |-> "password_reset"]
  <2>1. "otpUpdate" \in PC /\ f \in FrameOf("otpUpdate")
    BY FrameTable DEF PC, Purpose
  <2>2. Knows(r, "otpUpdate", f, account, sessions, met)
    BY <1>3 DEF Knows, Found, ForgotRead, Active, Exists
  <2>3. Goto(r, "otpUpdate", f) /\ UNCHANGED tables
    BY <1>3 DEF ForgotRead
  <2> HIDE DEF f
  <2>4. QED
    BY <2>1, <2>2, <2>3, AwaitKeeps
<1>4. ASSUME NEW o \in otps, RegistrationMatch(r, o) PROVE AuthInv'
  <2> DEFINE f == [email |-> o.email, otp |-> o.id]
  <2>1. o \in OtpRow
    BY <1>1 DEF TypeOK
  <2>2. f \in ResetToken
    BY <2>1 DEF OtpRow, ResetToken
  <2>3. Goto(r, "regExists", f) /\ UNCHANGED tables
    BY <1>4 DEF RegistrationMatch
  <2> HIDE DEF f
  <2>4. "regExists" \in PC /\ f \in FrameOf("regExists")
    BY <2>2, FrameTable DEF PC
  <2>5. Knows(r, "regExists", f, account, sessions, met)
    BY DEF Knows, Found
  <2>6. QED
    BY <2>3, <2>4, <2>5, AwaitKeeps
<1>5. ASSUME NEW o \in otps, ResetMatch(r, o) PROVE AuthInv'
  <2> DEFINE f == [email |-> o.email, otp |-> o.id]
  <2>1. o \in OtpRow
    BY <1>1 DEF TypeOK
  <2>2. f \in ResetToken /\ EmailOf("sign", f) = o.email
    BY <2>1 DEF OtpRow, ResetToken, EmailOf
  <2>3. Goto(r, "sign", f) /\ UNCHANGED tables /\ o.purpose = "password_reset"
    BY <1>5 DEF ResetMatch
  <2> HIDE DEF f
  <2>4. "sign" \in PC /\ f \in FrameOf("sign")
    BY <2>2, FrameTable DEF PC
  <2>5. account[EmailOf("sign", f)] # NoAccount
    BY <1>1, <2>2, <2>3 DEF RowsSound
  <2>6. Knows(r, "sign", f, account, sessions, met)
    BY <2>5 DEF Knows, Found
  <2>7. QED
    BY <2>3, <2>4, <2>6, AwaitKeeps
<1>6. ASSUME NEW t \in resets, ResetStart(r, t) PROVE AuthInv'
  <2>1. t \in ResetToken /\ account[t.email] # NoAccount
    BY <1>1 DEF TypeOK, RowsSound
  <2>2. "reset" \in PC /\ t \in FrameOf("reset")
    BY <2>1, FrameTable DEF PC
  <2>3. Knows(r, "reset", t, account, sessions, met)
    BY <2>1 DEF Knows, Found, EmailOf
  <2>4. Goto(r, "reset", t) /\ UNCHANGED tables
    BY <1>6 DEF ResetStart
  <2>5. QED
    BY <2>2, <2>3, <2>4, AwaitKeeps
<1>7. QED
  BY <1>2, <1>3, <1>4, <1>5, <1>6 DEF OtpCalls

\* So do those of sessions.
LEMMA SessionCallsKeep ==
    ASSUME AuthInv, NEW r \in Request, SessionCalls(r)
    PROVE  AuthInv'
<1>1. TypeOK /\ RowsSound(account, otps, resets, sessions)
  BY DEF AuthInv
<1>2. ASSUME NEW e \in Email, GoogleRead(r, e) PROVE AuthInv'
  <2> DEFINE f == [email |-> e]
             p == IF Exists(e) THEN "googleLink" ELSE "googleCreate"
  <2>1. p \in PC /\ f \in FrameOf(p)
    BY FrameTable DEF PC
  <2>2. Knows(r, p, f, account, sessions, met)
    BY DEF Knows, Found, EmailOf, Exists
  <2>3. Goto(r, p, f) /\ UNCHANGED tables
    BY <1>2 DEF GoogleRead
  <2> HIDE DEF f, p
  <2>4. QED
    BY <2>1, <2>2, <2>3, AwaitKeeps
<1>3. ASSUME NEW e \in Email, NEW org \in Org \cup {NoOrg}, LoginRead(r, e, org)
      PROVE  AuthInv'
  <2> DEFINE f == [email |-> e, password |-> account[e].password, org |-> org]
  <2>1. Exists(e) /\ account[e] \in AccountRow
    BY <1>1, <1>3, AccountTyped DEF LoginRead, Active
  <2>2. account[e].password \in Password
    BY <2>1 DEF AccountRow
  <2>3. "memberships" \in PC /\ f \in FrameOf("memberships")
    BY <2>2, FrameTable DEF PC
  <2>4. Knows(r, "memberships", f, account, sessions, met)
    BY <2>1 DEF Knows, Found, EmailOf, Exists, Proven
  <2>5. Goto(r, "memberships", f) /\ UNCHANGED tables
    BY <1>3 DEF LoginRead
  <2> HIDE DEF f
  <2>6. QED
    BY <2>3, <2>4, <2>5, AwaitKeeps
<1>4. ASSUME NEW token \in sessions, NEW s \in sessions, RefreshRead(r, token, s)
      PROVE  AuthInv'
  <2> DEFINE f == [row |-> s, matches |-> Matches(token, s), past |-> Refreshed(token, s)]
  <2>1. /\ s \in SessionRow /\ s.email = token.email /\ s.state = "live"
        /\ account[s.email] # NoAccount /\ Whole(s.past)
        /\ s.past.place = account[s.email].password \/ s.past.overlapped
    BY <1>1, <1>4 DEF RefreshRead, TypeOK, RowsSound, LiveSessions
  <2>2. Matches(token, s)
    BY <2>1 DEF Matches
  <2>8. /\ Refreshed(token, s) \in Past /\ Whole(Refreshed(token, s))
        /\ Refreshed(token, s).place = s.past.place
        /\ Refreshed(token, s).overlapped = s.past.overlapped
    BY <1>1, <2>1, RefreshedSound
  <2>3. /\ f \in [row: SessionRow, matches: BOOLEAN, past: Past] /\ f.row = s /\ f.matches
        /\ f.past = Refreshed(token, s)
    BY <2>1, <2>2, <2>8 DEF Matches
  <2>4. Goto(r, "rotate", f) /\ UNCHANGED tables
    BY <1>4 DEF RefreshRead
  <2> HIDE DEF f
  <2>5. "rotate" \in PC /\ f \in FrameOf("rotate")
    BY <2>3, FrameTable DEF PC
  <2>6. Knows(r, "rotate", f, account, sessions, met)
    BY <2>1, <2>3, <2>8 DEF Knows, Found, EmailOf, Proven, Carried
  <2>7. QED
    BY <2>4, <2>5, <2>6, AwaitKeeps
<1>5. ASSUME NEW token \in sessions, NEW s \in sessions, LogoutRead(r, token, s)
      PROVE  AuthInv'
  <2> DEFINE f == [email |-> s.email, id |-> s.id]
  <2>1. s \in SessionRow /\ account[s.email] # NoAccount
    BY <1>1 DEF TypeOK, RowsSound
  <2>2. f \in [email: Email, id: SessionId] /\ f.id = s.id /\ f.email = s.email
    BY <2>1 DEF SessionRow
  <2>3. "logout" \in PC /\ f \in FrameOf("logout")
    BY <2>2, FrameTable DEF PC
  <2>4. Knows(r, "logout", f, account, sessions, met)
    BY <2>1, <2>2 DEF Knows, Found, EmailOf
  <2>5. Goto(r, "logout", f) /\ UNCHANGED tables
    BY <1>5 DEF LogoutRead
  <2> HIDE DEF f
  <2>6. QED
    BY <2>3, <2>4, <2>5, AwaitKeeps
<1>6. QED
  BY <1>2, <1>3, <1>4, <1>5 DEF SessionCalls

\* Writing a one-time password.
LEMMA OtpStepsKeep ==
    ASSUME AuthInv, NEW r \in Request, OtpUpdate(r) \/ OtpInsert(r)
    PROVE  AuthInv'
<1>1. /\ TypeOK /\ RowsSound(account, otps, resets, sessions)
      /\ Knows(r, pc[r], loc[r], account, sessions, met)
      /\ loc[r] \in FrameOf(pc[r])
  BY DEF AuthInv, TypeOK
<1>2. CASE OtpUpdate(r)
  <2> DEFINE f == [email |-> loc[r].email, purpose |-> loc[r].purpose,
                   old |-> {o.id : o \in LiveOtps(loc[r].email)}]
  <2>1. pc[r] = "otpUpdate" /\ Goto(r, "otpInsert", f) /\ UNCHANGED tables
    BY <1>2 DEF OtpUpdate
  <2>2. loc[r] \in [email: Email, purpose: Purpose]
    BY <1>1, <2>1, FrameTable
  <2>3. {o.id : o \in LiveOtps(loc[r].email)} \subseteq OtpId
    BY <1>1 DEF LiveOtps, TypeOK, OtpRow
  <2>4. /\ f \in [email: Email, purpose: Purpose, old: SUBSET OtpId]
        /\ f.email = loc[r].email /\ f.purpose = loc[r].purpose
    BY <2>2, <2>3
  <2> HIDE DEF f
  <2>5. "otpInsert" \in PC /\ f \in FrameOf("otpInsert")
    BY <2>4, FrameTable DEF PC
  <2>6. Knows(r, "otpInsert", f, account, sessions, met)
    BY <1>1, <2>1, <2>4 DEF Knows, Found
  <2>7. QED
    BY <2>1, <2>5, <2>6, AwaitKeeps
<1>3. CASE OtpInsert(r)
  <2>1. PICK id \in FreshOtp :
          otps' = Used(loc[r].old) \cup
            {[id |-> id, email |-> loc[r].email, purpose |-> loc[r].purpose, live |-> TRUE]}
    BY <1>3 DEF OtpInsert
  <2>2. pc[r] = "otpInsert" /\ Finish(r) /\ UNCHANGED <<calls, account, resets, sessions>>
    BY <1>3 DEF OtpInsert
  <2> DEFINE new == [id |-> id, email |-> loc[r].email, purpose |-> loc[r].purpose, live |-> TRUE]
  <2>3. loc[r] \in [email: Email, purpose: Purpose, old: SUBSET OtpId]
    BY <1>1, <2>2, FrameTable
  <2>4. id \in OtpId /\ \A o \in otps : o.id # id
    BY DEF FreshOtp
  <2>5. /\ new \in OtpRow /\ new.id = id /\ new.email = loc[r].email
        /\ new.purpose = loc[r].purpose
    BY <2>3, <2>4 DEF OtpRow
  <2> HIDE DEF new
  <2>6. otps' = Used(loc[r].old) \cup {new}
    BY <2>1 DEF new
  <2>7. /\ otps' \subseteq OtpRow /\ \A x, y \in otps' : x.id = y.id => x = y
    BY <1>1, <2>4, <2>5, <2>6, UsedRows
  <2>8. \A o \in otps' : o.purpose = "password_reset" => account[o.email] # NoAccount
    <3>1. new.purpose = "password_reset" => account[new.email] # NoAccount
      BY <1>1, <2>2, <2>5 DEF Knows
    <3>2. \A o \in Used(loc[r].old) :
            o.purpose = "password_reset" => account[o.email] # NoAccount
      BY <1>1, UsedRows DEF RowsSound
    <3>3. QED
      BY <2>6, <3>1, <3>2
  <2>9. RowsSound(account, otps', resets, sessions)
    BY <1>1, <2>8 DEF RowsSound
  <2>10. "idle" \in PC /\ NoFrame \in FrameOf("idle") /\ Goto(r, "idle", NoFrame)
    BY <2>2, FrameTable DEF PC, Finish
  <2>11. Knows(r, "idle", NoFrame, account, sessions, met)
    BY DoneKnows
  <2>12. /\ calls \subseteq Endpoint /\ account \in Accounts /\ resets \subseteq ResetToken
         /\ sessions \subseteq SessionRow /\ \A x, y \in sessions : x.id = y.id => x = y
    BY <1>1 DEF TypeOK
  <2>13. /\ calls' = calls /\ account' = account /\ resets' = resets /\ sessions' = sessions
    BY <2>2
  <2>14. QED
    BY <2>7, <2>9, <2>10, <2>11, <2>12, <2>13, StepKeeps
<1>4. QED
  BY <1>2, <1>3

\* Making the account of a registration.
LEMMA RegistrationKeeps ==
    ASSUME AuthInv, NEW r \in Request, RegistrationExists(r) \/ RegistrationCreate(r)
    PROVE  AuthInv'
<1>1. /\ TypeOK /\ RowsSound(account, otps, resets, sessions)
      /\ loc[r] \in FrameOf(pc[r])
  BY DEF AuthInv, TypeOK
<1>2. CASE RegistrationExists(r)
  <2>1. pc[r] = "regExists" /\ UNCHANGED tables
    BY <1>2 DEF RegistrationExists
  <2>2. CASE Finish(r)
    BY <2>1, <2>2, FinishKeeps
  <2>3. CASE Goto(r, "regCreate", loc[r])
    <3>1. "regCreate" \in PC /\ loc[r] \in FrameOf("regCreate")
      BY <1>1, <2>1, FrameTable DEF PC
    <3>2. Knows(r, "regCreate", loc[r], account, sessions, met)
      BY DEF Knows, Found
    <3>3. QED
      BY <2>1, <2>3, <3>1, <3>2, AwaitKeeps
  <2>4. QED
    BY <1>2, <2>2, <2>3 DEF RegistrationExists
<1>3. CASE RegistrationCreate(r)
  <2> DEFINE e == loc[r].email
  <2>1. pc[r] = "regCreate" /\ UNCHANGED <<calls, resets, sessions>>
    BY <1>3 DEF RegistrationCreate
  <2>2. loc[r] \in ResetToken
    BY <1>1, <2>1, FrameTable
  <2>3. e \in Email
    BY <2>2 DEF ResetToken
  <2>4. CASE Exists(e)
    <3>1. Finish(r) /\ UNCHANGED tables
      BY <1>3, <2>1, <2>4 DEF RegistrationCreate, tables
    <3>2. QED
      BY <3>1, FinishKeeps
  <2>5. CASE ~Exists(e)
    <3>1. OpenAccount(e, 1) /\ otps' = Used({loc[r].otp})
      BY <1>3, <2>5 DEF RegistrationCreate
    <3>2. 1 \in Password /\ 0 \in Password
      BY AuthAssumption DEF Password
    <3>3. /\ account' \in Accounts
          /\ account'[e] \in AccountRow /\ account'[e].password = 1
          /\ account'[e] # NoAccount
          /\ \A x \in Email : account[x] # NoAccount => account'[x] = account[x]
      BY <1>1, <2>3, <2>5, <3>1, <3>2, OpenTyped
    <3>4. PICK o \in account'[e].orgs :
            Goto(r, "save", [email |-> e, org |-> o, past |-> SignedIn(1)])
      BY <1>3, <2>5 DEF RegistrationCreate
    <3> DEFINE f == [email |-> e, org |-> o, past |-> SignedIn(1)]
    <3>5. o \in Org
      BY <3>3 DEF AccountRow
    <3>6. f \in IssueFrame /\ f.email = e /\ f.past = SignedIn(1)
      BY <2>3, <3>2, <3>5, SignedInSound DEF IssueFrame
    <3>7. Goto(r, "save", f)
      BY <3>4
    <3> HIDE DEF f
    <3>8. "save" \in PC /\ f \in FrameOf("save")
      BY <3>6, FrameTable DEF PC
    <3>9. Knows(r, "save", f, account', sessions, met)
      BY <3>2, <3>3, <3>6, SignedInSound DEF Knows, Found, EmailOf, Proven, Carried
    <3>10. /\ otps' \subseteq OtpRow /\ \A x, y \in otps' : x.id = y.id => x = y
           /\ \A x \in otps' : \E y \in otps : y.email = x.email /\ y.purpose = x.purpose
      BY <1>1, <3>1, UsedRows
    <3>11. /\ \A y \in otps : y.email \in Email
           /\ \A t \in resets : t.email \in Email
           /\ \A s \in sessions : s.email \in Email
      BY <1>1 DEF TypeOK, OtpRow, ResetToken, SessionRow
    <3>12. RowsSound(account', otps', resets, sessions)
      BY <1>1, <3>3, <3>10, <3>11, RowsStay
    <3>13. ASSUME NEW q \in Request \ {r}, pc[q] # "idle",
                  account[EmailOf(pc[q], loc[q])] # NoAccount
           PROVE  account'[EmailOf(pc[q], loc[q])] = account[EmailOf(pc[q], loc[q])]
      <4>1. pc[q] \in PC \ {"idle"} /\ loc[q] \in FrameOf(pc[q])
        BY <1>1, <3>13 DEF TypeOK
      <4>2. EmailOf(pc[q], loc[q]) \in Email
        BY <4>1, FrameEmail
      <4>3. QED
        BY <3>3, <3>13, <4>2
    <3>14. /\ calls \subseteq Endpoint /\ resets \subseteq ResetToken
           /\ sessions \subseteq SessionRow /\ \A x, y \in sessions : x.id = y.id => x = y
      BY <1>1 DEF TypeOK
    <3>15. calls' = calls /\ resets' = resets /\ sessions' = sessions
      BY <2>1
    <3>16. QED
      BY <3>3, <3>7, <3>8, <3>9, <3>10, <3>12, <3>13, <3>14, <3>15, StepKeeps
  <2>6. QED
    BY <2>4, <2>5
<1>4. QED
  BY <1>2, <1>3

\* Resetting a password.
LEMMA ResetStepsKeep ==
    ASSUME AuthInv, NEW r \in Request, ResetSign(r) \/ ResetRevoke(r)
    PROVE  AuthInv'
<1>1. /\ TypeOK /\ RowsSound(account, otps, resets, sessions)
      /\ Knows(r, pc[r], loc[r], account, sessions, met)
      /\ loc[r] \in FrameOf(pc[r])
  BY DEF AuthInv, TypeOK
<1>2. CASE ResetSign(r)
  <2>1. /\ pc[r] = "sign" /\ resets' = resets \cup {loc[r]} /\ Finish(r)
        /\ calls' = calls /\ account' = account /\ otps' = otps /\ sessions' = sessions
    BY <1>2 DEF ResetSign
  <2>2. loc[r] \in ResetToken
    BY <1>1, <2>1, FrameTable
  <2>3. account[loc[r].email] # NoAccount
    BY <1>1, <2>1 DEF Knows, Found, EmailOf
  <2>4. RowsSound(account, otps, resets', sessions)
    BY <1>1, <2>1, <2>3 DEF RowsSound
  <2>5. "idle" \in PC /\ NoFrame \in FrameOf("idle") /\ Goto(r, "idle", NoFrame)
    BY <2>1, FrameTable DEF PC, Finish
  <2>6. Knows(r, "idle", NoFrame, account, sessions, met)
    BY DoneKnows
  <2>7. /\ calls \subseteq Endpoint /\ account \in Accounts /\ resets' \subseteq ResetToken
        /\ otps \subseteq OtpRow /\ \A x, y \in otps : x.id = y.id => x = y
        /\ sessions \subseteq SessionRow /\ \A x, y \in sessions : x.id = y.id => x = y
    BY <1>1, <2>1, <2>2 DEF TypeOK
  <2>8. QED
    BY <2>1, <2>4, <2>5, <2>6, <2>7, StepKeeps
<1>3. CASE ResetRevoke(r)
  <2> DEFINE f == [email |-> loc[r].email, otp |-> loc[r].otp,
                   old |-> {s.id : s \in Unrevoked(loc[r].email)}]
  <2>1. pc[r] = "reset" /\ Goto(r, "resetCommit", f) /\ UNCHANGED tables
    BY <1>3 DEF ResetRevoke
  <2>2. loc[r] \in ResetToken
    BY <1>1, <2>1, FrameTable
  <2>3. {s.id : s \in Unrevoked(loc[r].email)} \subseteq SessionId
    BY <1>1 DEF Unrevoked, TypeOK, SessionRow
  <2>4. /\ f \in [email: Email, otp: OtpId, old: SUBSET SessionId]
        /\ f.email = loc[r].email
        /\ f.old = {s.id : s \in Unrevoked(loc[r].email)}
    BY <2>2, <2>3 DEF ResetToken
  <2> HIDE DEF f
  <2>5. "resetCommit" \in PC /\ f \in FrameOf("resetCommit")
    BY <2>4, FrameTable DEF PC
  <2>6. /\ \A s \in sessions : s.state = "live" /\ s.email = f.email => s.id \in f.old
        /\ \A id \in f.old : \E s \in sessions : s.id = id /\ s.email = f.email
    BY <2>4 DEF Unrevoked
  <2>7. account[EmailOf("resetCommit", f)] # NoAccount
    BY <1>1, <2>1, <2>4 DEF Knows, Found, EmailOf
  <2>8. Knows(r, "resetCommit", f, account, sessions, met)
    BY <2>6, <2>7 DEF Knows
  <2>9. QED
    BY <2>1, <2>5, <2>8, AwaitKeeps
<1>4. QED
  BY <1>2, <1>3

\* The commit of a reset: the sessions it has not revoked, and the requests
\* that work for the account, are recorded as overlapping it.
LEMMA ResetCommitKeeps ==
    ASSUME AuthInv, NEW r \in Request, ResetCommit(r)
    PROVE  AuthInv'
<1> DEFINE e == loc[r].email
<1>1. /\ TypeOK /\ Meeting /\ RowsSound(account, otps, resets, sessions)
      /\ Knows(r, pc[r], loc[r], account, sessions, met)
      /\ loc[r] \in FrameOf(pc[r])
  BY DEF AuthInv, TypeOK
<1>2. /\ pc[r] = "resetCommit" /\ account[e].password < MaxPassword
      /\ account' = [account EXCEPT ![e].password = @ + 1]
      /\ otps' = Used({loc[r].otp}) /\ sessions' = Revoked(loc[r].old)
      /\ Finish(r) /\ calls' = calls /\ resets' = resets
  BY DEF ResetCommit
<1>3. loc[r] \in [email: Email, otp: OtpId, old: SUBSET SessionId]
  BY <1>1, <1>2, FrameTable
<1>4. e \in Email /\ account[e] # NoAccount
  BY <1>1, <1>2, <1>3 DEF Knows, Found, EmailOf
<1>5. account[e] \in AccountRow
  BY <1>1, <1>4, AccountTyped DEF Exists
<1>6. /\ account' \in Accounts /\ account'[e] # NoAccount
      /\ \A x \in Email \ {e} : account'[x] = account[x]
  <2>1. account[e].password \in Password /\ MaxPassword \in Nat
    BY <1>5, AuthAssumption DEF AccountRow
  <2>2. account[e].password + 1 \in Password
    BY <1>2, <2>1 DEF Password
  <2> DEFINE row == [account[e] EXCEPT !.password = @ + 1]
  <2>3. row \in AccountRow
    BY <1>5, <2>2 DEF AccountRow
  <2>4. account \in [Email -> AccountRow \cup {NoAccount}]
    BY <1>1 DEF TypeOK, Accounts
  <2>5. account' = [account EXCEPT ![e] = row]
    BY <1>2
  <2> HIDE DEF row
  <2>6. account'[e] = row /\ account' \in [Email -> AccountRow \cup {NoAccount}]
    BY <1>4, <2>3, <2>4, <2>5
  <2>7. row # NoAccount
    BY <2>3, AuthAssumption
  <2>8. \A x \in Email \ {e} : account'[x] = account[x]
    BY <2>4, <2>5
  <2>9. QED
    BY <2>6, <2>7, <2>8 DEF Accounts
<1>7. /\ otps' \subseteq OtpRow /\ \A x, y \in otps' : x.id = y.id => x = y
      /\ \A x \in otps' : \E y \in otps : y.email = x.email /\ y.purpose = x.purpose
  <2>1. TypeOK /\ otps' = Used({loc[r].otp})
    BY <1>1, <1>2
  <2>2. \A ids : /\ Used(ids) \subseteq OtpRow
                 /\ \A x, y \in Used(ids) : x.id = y.id => x = y
                 /\ \A x \in Used(ids) : \E y \in otps :
                      y.email = x.email /\ y.purpose = x.purpose
    BY <2>1, UsedRows
  <2>3. QED
    BY <2>1, <2>2
<1>8. /\ sessions' \subseteq SessionRow /\ \A x, y \in sessions' : x.id = y.id => x = y
      /\ \A x \in sessions' : \E s \in sessions : s.email = x.email
      /\ \A x \in sessions' : x.state = "live" => x \in sessions /\ x.id \notin loc[r].old
      /\ \A s \in sessions : \E x \in sessions' : x.id = s.id /\ x.email = s.email
  BY <1>1, <1>2, RevokedRows
<1>9. \A x \in Email : account[x] # NoAccount => account'[x] # NoAccount
  BY <1>6
<1>10. /\ \A o \in otps : o.email \in Email
       /\ \A t \in resets : t.email \in Email
       /\ \A s \in sessions : s.email \in Email
  BY <1>1 DEF TypeOK, OtpRow, ResetToken, SessionRow
<1>11. RowsSound(account', otps', resets', sessions')
  <2>1. \A o \in otps' : o.purpose = "password_reset" => account'[o.email] # NoAccount
    BY <1>1, <1>7, <1>9, <1>10 DEF RowsSound
  <2>2. \A t \in resets' : account'[t.email] # NoAccount
    BY <1>1, <1>2, <1>9, <1>10 DEF RowsSound
  <2>3. \A s \in sessions' : account'[s.email] # NoAccount
    BY <1>1, <1>8, <1>9, <1>10 DEF RowsSound
  <2>4. ASSUME NEW s \in sessions', s.state = "live"
        PROVE  /\ Whole(s.past)
               /\ s.past.place = account'[s.email].password \/ s.past.overlapped
    <3>1. s \in sessions /\ s.id \notin loc[r].old
      BY <1>8, <2>4
    <3>2. CASE s.email = e
      BY <1>1, <1>2, <2>4, <3>1, <3>2 DEF Knows, RowsSound
    <3>3. CASE s.email # e
      BY <1>1, <1>6, <1>10, <2>4, <3>1, <3>3 DEF RowsSound
    <3>4. QED
      BY <3>2, <3>3
  <2>5. QED
    BY <2>1, <2>2, <2>3, <2>4 DEF RowsSound
<1>12. ASSUME NEW q \in Request \ {r}, pc[q] # "idle",
              account[EmailOf(pc[q], loc[q])] # NoAccount
       PROVE  /\ account'[EmailOf(pc[q], loc[q])] # NoAccount
              /\ \/ account[EmailOf(pc[q], loc[q])].password
                      = account'[EmailOf(pc[q], loc[q])].password
                 \/ q \in met
  <2>1. pc[q] \in PC \ {"idle"} /\ loc[q] \in FrameOf(pc[q])
    BY <1>1, <1>12 DEF TypeOK
  <2>2. EmailOf(pc[q], loc[q]) \in Email
    BY <2>1, FrameEmail
  <2>3. EmailOf(pc[q], loc[q]) = e => q \in met
    BY <1>1, <1>2, <1>12 DEF Meeting
  <2>4. QED
    BY <1>6, <1>12, <2>2, <2>3
<1>13. "idle" \in PC /\ NoFrame \in FrameOf("idle") /\ Goto(r, "idle", NoFrame)
  BY <1>2, FrameTable DEF PC, Finish
<1>14. Knows(r, "idle", NoFrame, account', sessions', met)
  BY DoneKnows
<1>15. calls' \subseteq Endpoint /\ resets' \subseteq ResetToken
  BY <1>1, <1>2 DEF TypeOK
<1>16. QED
  BY <1>6, <1>7, <1>8, <1>11, <1>12, <1>13, <1>14, <1>15, StepKeeps

\* Logging in: with the memberships of the account a session is about to be
\* stored.
LEMMA LoginStepsKeep ==
    ASSUME AuthInv, NEW r \in Request,
           Memberships(r) \/ GoogleCreate(r) \/ GoogleLink(r) \/ GoogleFind(r)
    PROVE  AuthInv'
<1> DEFINE e == loc[r].email
<1>1. /\ TypeOK /\ RowsSound(account, otps, resets, sessions)
      /\ Knows(r, pc[r], loc[r], account, sessions, met)
      /\ loc[r] \in FrameOf(pc[r])
  BY DEF AuthInv, TypeOK
<1>2. CASE Memberships(r)
  <2>1. pc[r] = "memberships" /\ UNCHANGED tables
    BY <1>2 DEF Memberships
  <2>2. loc[r] \in [email: Email, password: Password, org: Org \cup {NoOrg}]
    BY <1>1, <2>1, FrameTable
  <2>3. /\ account[e] # NoAccount
        /\ Proven(r, e, loc[r].password, account, met)
    BY <1>1, <2>1 DEF Knows, Found, EmailOf
  <2>4. account[e] \in AccountRow
    BY <1>1, <2>2, <2>3, AccountTyped DEF Exists
  <2>5. \/ Finish(r)
        \/ \E o \in account[e].orgs :
             Goto(r, "save", [email |-> e, org |-> o, past |-> SignedIn(loc[r].password)])
    BY <1>2 DEF Memberships
  <2>6. CASE Finish(r)
    BY <2>1, <2>6, FinishKeeps
  <2>7. ASSUME NEW o \in account[e].orgs,
               Goto(r, "save", [email |-> e, org |-> o, past |-> SignedIn(loc[r].password)])
        PROVE  AuthInv'
    <3> DEFINE f == [email |-> e, org |-> o, past |-> SignedIn(loc[r].password)]
    <3>1. o \in Org
      BY <2>4 DEF AccountRow
    <3>2. f \in IssueFrame /\ f.email = e /\ f.past = SignedIn(loc[r].password)
      BY <2>2, <3>1, SignedInSound DEF IssueFrame
    <3>3. Goto(r, "save", f)
      BY <2>7
    <3> HIDE DEF f
    <3>4. "save" \in PC /\ f \in FrameOf("save")
      BY <3>2, FrameTable DEF PC
    <3>5. Knows(r, "save", f, account, sessions, met)
      BY <2>2, <2>3, <3>2, SignedInSound DEF Knows, Found, EmailOf, Carried
    <3>6. QED
      BY <2>1, <3>3, <3>4, <3>5, AwaitKeeps
  <2>8. QED
    BY <2>5, <2>6, <2>7
<1>3. CASE GoogleCreate(r)
  <2>1. /\ pc[r] = "googleCreate" /\ calls' = calls /\ otps' = otps /\ resets' = resets
        /\ sessions' = sessions
    BY <1>3 DEF GoogleCreate
  <2>2. loc[r] \in [email: Email]
    BY <1>1, <2>1, FrameTable
  <2>3. e \in Email
    BY <2>2
  <2>4. CASE Exists(e)
    <3>1. Finish(r) /\ UNCHANGED tables
      BY <1>3, <2>1, <2>4 DEF GoogleCreate, tables
    <3>2. QED
      BY <3>1, FinishKeeps
  <2>5. CASE ~Exists(e)
    <3> DEFINE f == [email |-> e, password |-> 0, org |-> NoOrg]
    <3>1. OpenAccount(e, 0) /\ Goto(r, "memberships", f)
      BY <1>3, <2>5 DEF GoogleCreate
    <3>2. 0 \in Password
      BY AuthAssumption DEF Password
    <3>3. /\ account' \in Accounts
          /\ account'[e] \in AccountRow /\ account'[e].password = 0
          /\ account'[e] # NoAccount
          /\ \A x \in Email : account[x] # NoAccount => account'[x] = account[x]
      BY <1>1, <2>3, <2>5, <3>1, <3>2, OpenTyped
    <3>4. /\ f \in [email: Email, password: Password, org: Org \cup {NoOrg}]
          /\ f.email = e /\ f.password = 0
      BY <2>3, <3>2
    <3> HIDE DEF f
    <3>5. "memberships" \in PC /\ f \in FrameOf("memberships")
      BY <3>4, FrameTable DEF PC
    <3>6. Knows(r, "memberships", f, account', sessions, met)
      BY <3>3, <3>4 DEF Knows, Found, EmailOf, Proven
    <3>7. /\ \A y \in otps : y.email \in Email
          /\ \A t \in resets : t.email \in Email
          /\ \A s \in sessions : s.email \in Email
      BY <1>1 DEF TypeOK, OtpRow, ResetToken, SessionRow
    <3>8. RowsSound(account', otps, resets, sessions)
      BY <1>1, <3>3, <3>7 DEF RowsSound
    <3>9. ASSUME NEW q \in Request \ {r}, pc[q] # "idle",
                 account[EmailOf(pc[q], loc[q])] # NoAccount
          PROVE  account'[EmailOf(pc[q], loc[q])] = account[EmailOf(pc[q], loc[q])]
      <4>1. pc[q] \in PC \ {"idle"} /\ loc[q] \in FrameOf(pc[q])
        BY <1>1, <3>9 DEF TypeOK
      <4>2. EmailOf(pc[q], loc[q]) \in Email
        BY <4>1, FrameEmail
      <4>3. QED
        BY <3>3, <3>9, <4>2
    <3>10. /\ calls \subseteq Endpoint /\ resets \subseteq ResetToken
           /\ otps \subseteq OtpRow /\ \A x, y \in otps : x.id = y.id => x = y
           /\ sessions \subseteq SessionRow /\ \A x, y \in sessions : x.id = y.id => x = y
      BY <1>1 DEF TypeOK
    <3>11. QED
      BY <2>1, <3>1, <3>3, <3>5, <3>6, <3>8, <3>9, <3>10, StepKeeps
  <2>6. QED
    BY <2>4, <2>5
<1>4. CASE GoogleLink(r)
  <2>1. pc[r] = "googleLink" /\ Goto(r, "googleFind", loc[r]) /\ UNCHANGED tables
    BY <1>4 DEF GoogleLink
  <2>2. "googleFind" \in PC /\ loc[r] \in FrameOf("googleFind")
    BY <1>1, <2>1, FrameTable DEF PC
  <2>3. Knows(r, "googleFind", loc[r], account, sessions, met)
    BY <1>1, <2>1 DEF Knows, Found, EmailOf
  <2>4. QED
    BY <2>1, <2>2, <2>3, AwaitKeeps
<1>5. CASE GoogleFind(r)
  <2> DEFINE f == [email |-> e, password |-> account[e].password, org |-> NoOrg]
  <2>1. pc[r] = "googleFind" /\ UNCHANGED tables
    BY <1>5 DEF GoogleFind
  <2>2. CASE Finish(r)
    BY <2>1, <2>2, FinishKeeps
  <2>3. CASE Exists(e) /\ Goto(r, "memberships", f)
    <3>1. loc[r] \in [email: Email]
      BY <1>1, <2>1, FrameTable
    <3>2. account[e] \in AccountRow
      BY <1>1, <2>3, <3>1, AccountTyped
    <3>3. account[e].password \in Password
      BY <3>2 DEF AccountRow
    <3>4. /\ f \in [email: Email, password: Password, org: Org \cup {NoOrg}]
          /\ f.email = e /\ f.password = account[e].password
      BY <3>1, <3>3
    <3> HIDE DEF f
    <3>5. "memberships" \in PC /\ f \in FrameOf("memberships")
      BY <3>4, FrameTable DEF PC
    <3>6. Knows(r, "memberships", f, account, sessions, met)
      BY <2>3, <3>4 DEF Knows, Found, EmailOf, Exists, Proven
    <3>7. QED
      BY <2>1, <2>3, <3>5, <3>6, AwaitKeeps
  <2>4. QED
    BY <1>5, <2>2, <2>3 DEF GoogleFind, Active
<1>6. QED
  BY <1>2, <1>3, <1>4, <1>5

\* Storing a session.  A reset that has not committed and has not seen it is
\* recorded as overlapping the request.
LEMMA SaveKeeps ==
    ASSUME AuthInv, NEW r \in Request, SaveRefreshToken(r)
    PROVE  AuthInv'
<1> DEFINE e == loc[r].email
<1>1. /\ TypeOK /\ Meeting /\ RowsSound(account, otps, resets, sessions)
      /\ Knows(r, pc[r], loc[r], account, sessions, met)
      /\ loc[r] \in FrameOf(pc[r])
  BY DEF AuthInv, TypeOK
<1>2. /\ pc[r] = "save" /\ Finish(r)
      /\ calls' = calls /\ account' = account /\ otps' = otps /\ resets' = resets
  BY DEF SaveRefreshToken
<1>3. PICK id \in FreshSession :
        sessions' = sessions \cup
          {[id |-> id, email |-> e, org |-> loc[r].org,
            past |-> [loc[r].past EXCEPT !.overlapped = @ \/ r \in met], state |-> "live"]}
  BY DEF SaveRefreshToken
<1> DEFINE past == [loc[r].past EXCEPT !.overlapped = @ \/ r \in met]
           new == [id |-> id, email |-> e, org |-> loc[r].org, past |-> past,
                   state |-> "live"]
<1>4. loc[r] \in IssueFrame
  BY <1>1, <1>2, FrameTable
<1>5. id \in SessionId /\ \A s \in sessions : s.id # id
  BY DEF FreshSession
<1>6. e \in Email /\ loc[r].org \in Org /\ loc[r].past \in Past
  BY <1>4 DEF IssueFrame
<1>20. /\ past \in Past /\ past.place = loc[r].past.place
       /\ past.password = loc[r].past.password /\ past.borrowed = loc[r].past.borrowed
       /\ past.overlapped = (loc[r].past.overlapped \/ r \in met)
  BY <1>6 DEF Past
<1> HIDE DEF past
<1>7. new \in SessionRow
  BY <1>5, <1>6, <1>20 DEF SessionRow
<1>8. new.id = id /\ new.email = e /\ new.past = past
  OBVIOUS
<1>9. sessions' = sessions \cup {new}
  BY <1>3 DEF past
<1> HIDE DEF new
<1>10. /\ account[e] # NoAccount /\ Whole(loc[r].past)
       /\ Proven(r, e, loc[r].past.place, account, met) \/ loc[r].past.overlapped
  BY <1>1, <1>2 DEF Knows, Found, EmailOf, Carried
<1>11. /\ Whole(new.past)
       /\ new.past.place = account[new.email].password \/ new.past.overlapped
  BY <1>6, <1>8, <1>10, <1>20 DEF Proven, Whole
<1>12. RowsSound(account, otps, resets, sessions')
  BY <1>1, <1>8, <1>9, <1>10, <1>11 DEF RowsSound
<1>13. ASSUME NEW q \in Request \ {r}, pc[q] = "resetCommit", loc[q].email = new.email
       PROVE  new.past.overlapped
  <2>1. r \in met
    BY <1>1, <1>2, <1>8, <1>13 DEF Meeting, EmailOf
  <2>2. QED
    BY <1>8, <1>20, <2>1
<1>14. /\ sessions' \subseteq SessionRow /\ \A x, y \in sessions' : x.id = y.id => x = y
  BY <1>1, <1>5, <1>7, <1>8, <1>9 DEF TypeOK
<1>15. /\ calls \subseteq Endpoint /\ account \in Accounts /\ resets \subseteq ResetToken
       /\ otps \subseteq OtpRow /\ \A x, y \in otps : x.id = y.id => x = y
  BY <1>1 DEF TypeOK
<1>16. "idle" \in PC /\ NoFrame \in FrameOf("idle") /\ Goto(r, "idle", NoFrame)
  BY <1>2, FrameTable DEF PC, Finish
<1>17. Knows(r, "idle", NoFrame, account, sessions', met)
  BY DoneKnows
<1>18. /\ \A s \in sessions : \E x \in sessions' : x.id = s.id /\ x.email = s.email
       /\ \A s \in sessions' : s.state = "live" =>
            \/ s \in sessions
            \/ \A q \in Request \ {r} :
                 pc[q] = "resetCommit" /\ loc[q].email = s.email => s.past.overlapped
  BY <1>9, <1>13
<1>19. QED
  BY <1>2, <1>12, <1>14, <1>15, <1>16, <1>17, <1>18, StepKeeps

\* Sessions that are revoked, and nothing else.
LEMMA RevokeKeeps ==
    ASSUME AuthInv, NEW r \in Request, NEW p \in PC, NEW f \in FrameOf(p), Goto(r, p, f),
           NEW ids, sessions' = Revoked(ids),
           UNCHANGED <<calls, account, otps, resets>>,
           p \notin {"rotate", "resetCommit", "logout"},
           Knows(r, p, f, account, sessions, met)
    PROVE  AuthInv'
<1>1. /\ TypeOK /\ RowsSound(account, otps, resets, sessions)
  BY DEF AuthInv
<1>2. /\ sessions' \subseteq SessionRow /\ \A x, y \in sessions' : x.id = y.id => x = y
      /\ \A x \in sessions' : \E s \in sessions : s.email = x.email
      /\ \A x \in sessions' : x.state = "live" => x \in sessions
      /\ \A s \in sessions : \E x \in sessions' : x.id = s.id /\ x.email = s.email
  BY <1>1, RevokedRows
<1>3. calls' = calls /\ account' = account /\ otps' = otps /\ resets' = resets
  OBVIOUS
<1>4. RowsSound(account, otps, resets, sessions')
  BY <1>1, <1>2 DEF RowsSound
<1>5. Knows(r, p, f, account, sessions', met)
  BY DEF Knows
<1>6. /\ calls \subseteq Endpoint /\ account \in Accounts /\ resets \subseteq ResetToken
      /\ otps \subseteq OtpRow /\ \A x, y \in otps : x.id = y.id => x = y
  BY <1>1 DEF TypeOK
<1>7. QED
  BY <1>2, <1>3, <1>4, <1>5, <1>6, StepKeeps

\* Refreshing and logging out.
LEMMA RefreshStepsKeep ==
    ASSUME AuthInv, NEW r \in Request,
           RefreshRevoke(r) \/ RefreshFindUser(r) \/ LogoutRevoke(r)
    PROVE  AuthInv'
<1>1. /\ TypeOK /\ RowsSound(account, otps, resets, sessions)
      /\ Knows(r, pc[r], loc[r], account, sessions, met)
      /\ loc[r] \in FrameOf(pc[r])
  BY DEF AuthInv, TypeOK
<1>2. CASE RefreshRevoke(r)
  <2> DEFINE s == loc[r].row
             f == [email |-> s.email, org |-> s.org, past |-> loc[r].past]
  <2>1. pc[r] = "rotate" /\ UNCHANGED <<calls, account, otps, resets>>
    BY <1>2 DEF RefreshRevoke
  <2>2. loc[r] \in [row: SessionRow, matches: BOOLEAN, past: Past]
    BY <1>1, <2>1, FrameTable
  <2>3. /\ loc[r].matches /\ account[s.email] # NoAccount
        /\ Carried(r, s.email, loc[r].past, account, met)
    BY <1>1, <2>1 DEF Knows, Found, EmailOf
  <2>4. sessions' = Revoked({s.id}) /\ Goto(r, "findUser", f)
    BY <1>2, <2>3 DEF RefreshRevoke
  <2>5. s \in SessionRow /\ loc[r].past \in Past
    BY <2>2
  <2>6. f \in IssueFrame /\ f.email = s.email /\ f.past = loc[r].past
    BY <2>5 DEF IssueFrame, SessionRow
  <2> HIDE DEF f
  <2>7. "findUser" \in PC /\ f \in FrameOf("findUser")
    BY <2>6, FrameTable DEF PC
  <2>8. Knows(r, "findUser", f, account, sessions, met)
    BY <2>3, <2>6 DEF Knows, Found, EmailOf
  <2>9. QED
    BY <2>1, <2>4, <2>7, <2>8, RevokeKeeps
<1>3. CASE RefreshFindUser(r)
  <2>1. pc[r] = "findUser" /\ UNCHANGED tables
    BY <1>3 DEF RefreshFindUser
  <2>2. CASE Finish(r)
    BY <2>1, <2>2, FinishKeeps
  <2>3. CASE Goto(r, "save", loc[r])
    <3>1. "save" \in PC /\ loc[r] \in FrameOf("save")
      BY <1>1, <2>1, FrameTable DEF PC
    <3>2. Knows(r, "save", loc[r], account, sessions, met)
      BY <1>1, <2>1 DEF Knows, Found, EmailOf
    <3>3. QED
      BY <2>1, <2>3, <3>1, <3>2, AwaitKeeps
  <2>4. QED
    BY <1>3, <2>2, <2>3 DEF RefreshFindUser
<1>4. CASE LogoutRevoke(r)
  <2>1. /\ sessions' = Revoked({loc[r].id}) /\ UNCHANGED <<calls, account, otps, resets>>
    BY <1>4 DEF LogoutRevoke
  <2>2. "idle" \in PC /\ NoFrame \in FrameOf("idle") /\ Goto(r, "idle", NoFrame)
    BY <1>4, FrameTable DEF PC, Finish, LogoutRevoke
  <2>3. Knows(r, "idle", NoFrame, account, sessions, met)
    BY DoneKnows
  <2>4. QED
    BY <2>1, <2>2, <2>3, RevokeKeeps
<1>5. QED
  BY <1>2, <1>3, <1>4

\* What happens outside of these endpoints: no request moves.
LEMMA OutsideKeeps ==
    ASSUME AuthInv, UNCHANGED <<calls, pc, loc, met>>,
           account' \in Accounts,
           otps' \subseteq OtpRow, \A x, y \in otps' : x.id = y.id => x = y,
           resets' \subseteq resets,
           sessions' \subseteq SessionRow, \A x, y \in sessions' : x.id = y.id => x = y,
           \A e \in Email : account[e] # NoAccount =>
              account'[e] # NoAccount /\ account'[e].password = account[e].password,
           \A o \in otps' : \E x \in otps : x.email = o.email /\ x.purpose = o.purpose,
           \A s \in sessions' : \E x \in sessions : x.email = s.email,
           \A s \in sessions' : s.state = "live" => s \in sessions,
           \A s \in sessions : \E x \in sessions' : x.id = s.id /\ x.email = s.email
    PROVE  AuthInv'
<1>1. /\ TypeOK /\ Meeting /\ RowsSound(account, otps, resets, sessions)
      /\ \A r \in Request : Knows(r, pc[r], loc[r], account, sessions, met)
  BY DEF AuthInv
<1>2. TypeOK' /\ Meeting'
  BY <1>1 DEF TypeOK, Meeting
<1>3. /\ \A y \in otps : y.email \in Email
      /\ \A t \in resets : t.email \in Email
      /\ \A s \in sessions : s.email \in Email
  BY <1>1 DEF TypeOK, OtpRow, ResetToken, SessionRow
<1>4. \A t \in resets' : t \in resets
  OBVIOUS
<1>5. RowsSound(account', otps', resets', sessions')
  BY <1>1, <1>3, <1>4, RowsStay
<1>6. ASSUME NEW r \in Request
      PROVE  Knows(r, pc[r], loc[r], account', sessions', met)
  <2>1. CASE pc[r] = "idle"
    BY <2>1, DoneKnows
  <2>2. CASE pc[r] # "idle"
    <3>1. pc[r] \in PC \ {"idle"} /\ loc[r] \in FrameOf(pc[r])
      BY <1>1, <2>2 DEF TypeOK
    <3>2. EmailOf(pc[r], loc[r]) \in Email
      BY <3>1, FrameEmail
    <3>3. pc[r] \in {"otpUpdate", "otpInsert"} => loc[r].email \in Email
      BY <3>2 DEF EmailOf
    <3>4. Knows(r, pc[r], loc[r], account, sessions, met)
      BY <1>1
    <3>5. \A s \in sessions' : s.state = "live" =>
            s \in sessions \/ (pc[r] = "resetCommit" /\ loc[r].email = s.email => s.past.overlapped)
      OBVIOUS
    <3>6. QED
      BY <3>1, <3>2, <3>3, <3>4, <3>5, KnowsStays
  <2>3. QED
    BY <2>1, <2>2
<1>7. QED
  BY <1>2, <1>5, <1>6 DEF AuthInv

\* Administrators and the clock.
LEMMA OutsideStepsKeep ==
    ASSUME AuthInv,
           \/ \E e \in Email, row \in Changes : Administer(e, row)
           \/ \E o \in otps : ExpireOtp(o)
           \/ \E t \in resets : ExpireReset(t)
           \/ \E s \in sessions : ExpireSession(s)
    PROVE  AuthInv'
<1>1. TypeOK
  BY DEF AuthInv
<1>2. /\ account \in Accounts /\ resets \subseteq ResetToken
      /\ otps \subseteq OtpRow /\ \A x, y \in otps : x.id = y.id => x = y
      /\ sessions \subseteq SessionRow /\ \A x, y \in sessions : x.id = y.id => x = y
  BY <1>1 DEF TypeOK
<1>3. ASSUME NEW e \in Email, NEW row \in Changes, Administer(e, row) PROVE AuthInv'
  <2>1. /\ row \in AccountRow /\ row.password = account[e].password
        /\ account' = [account EXCEPT ![e] = row]
        /\ UNCHANGED <<calls, otps, resets, sessions, pc, loc, met>>
    BY <1>3 DEF Administer
  <2>2. row # NoAccount
    BY <2>1, AuthAssumption
  <2>3. /\ account' \in Accounts
        /\ \A x \in Email : account[x] # NoAccount =>
             account'[x] # NoAccount /\ account'[x].password = account[x].password
    BY <1>2, <2>1, <2>2 DEF Accounts
  <2>4. QED
    BY <1>2, <2>1, <2>3, OutsideKeeps
<1>4. ASSUME NEW o \in otps, ExpireOtp(o) PROVE AuthInv'
  <2>1. /\ otps' = Used({o.id})
        /\ UNCHANGED <<calls, account, resets, sessions, pc, loc, met>>
    BY <1>4 DEF ExpireOtp
  <2>2. /\ otps' \subseteq OtpRow /\ \A x, y \in otps' : x.id = y.id => x = y
        /\ \A x \in otps' : \E y \in otps : y.email = x.email /\ y.purpose = x.purpose
    <3>1. \A ids : Used(ids) \subseteq OtpRow
                    /\ (\A x, y \in Used(ids) : x.id = y.id => x = y)
                    /\ \A x \in Used(ids) :
                         \E y \in otps : y.email = x.email /\ y.purpose = x.purpose
      BY <1>1, UsedRows
    <3>2. QED
      BY <2>1, <3>1
  <2>3. QED
    BY <1>2, <2>1, <2>2, OutsideKeeps
<1>5. ASSUME NEW t \in resets, ExpireReset(t) PROVE AuthInv'
  <2>1. /\ resets' = resets \ {t}
        /\ UNCHANGED <<calls, account, otps, sessions, pc, loc, met>>
    BY <1>5 DEF ExpireReset
  <2>2. QED
    BY <1>2, <2>1, OutsideKeeps
<1>6. ASSUME NEW s \in sessions, ExpireSession(s) PROVE AuthInv'
  <2> DEFINE x == [s EXCEPT !.state = "expired"]
  <2>1. /\ sessions' = (sessions \ {s}) \cup {x}
        /\ UNCHANGED <<calls, account, otps, resets, pc, loc, met>>
    BY <1>6 DEF ExpireSession
  <2>2. /\ x \in SessionRow /\ x.id = s.id /\ x.email = s.email /\ x.state # "live"
    BY <1>2 DEF SessionRow
  <2> HIDE DEF x
  <2>3. QED
    BY <1>2, <2>1, <2>2, OutsideKeeps
<1>7. QED
  BY <1>3, <1>4, <1>5, <1>6

\* Every step keeps the invariant.
LEMMA AuthStep ==
    AuthInv /\ [Next]_vars => AuthInv'
<1>1. SUFFICES ASSUME AuthInv, [Next]_vars PROVE AuthInv'
  OBVIOUS
<1>2. ASSUME NEW r \in Request, OtpCalls(r) \/ SessionCalls(r) PROVE AuthInv'
  BY <1>1, <1>2, OtpCallsKeep, SessionCallsKeep
<1>3. ASSUME NEW r \in Request, Step(r) PROVE AuthInv'
  BY <1>1, <1>3, OtpStepsKeep, RegistrationKeeps, ResetStepsKeep, ResetCommitKeeps,
     LoginStepsKeep, SaveKeeps, RefreshStepsKeep DEF Step
<1>4. ASSUME NEW r \in Request, Abandon(r) PROVE AuthInv'
  BY <1>1, <1>4, FinishKeeps DEF Abandon
<1>5. CASE \/ \E e \in Email, row \in Changes : Administer(e, row)
           \/ \E o \in otps : ExpireOtp(o)
           \/ \E t \in resets : ExpireReset(t)
           \/ \E s \in sessions : ExpireSession(s)
  BY <1>1, <1>5, OutsideStepsKeep
<1>6. CASE UNCHANGED vars
  BY <1>1, <1>6 DEF vars, AuthInv, TypeOK, Meeting
<1>7. QED
  BY <1>1, <1>2, <1>3, <1>4, <1>5, <1>6 DEF Next

\* Behaviours start with accounts, and reset tokens of them.
LEMMA AuthInit ==
    Init => AuthInv
<1>1. SUFFICES ASSUME Init PROVE AuthInv
  OBVIOUS
<1>2. PICK s \in Starts : calls = s.calls /\ account = s.account /\ resets = s.resets
  BY <1>1 DEF Init
<1>3. /\ s.calls \subseteq Endpoint /\ s.account \in Accounts /\ s.resets \subseteq ResetToken
      /\ \A t \in s.resets : s.account[t.email] # NoAccount
  BY InitialAssumption
<1>4. /\ otps = {} /\ sessions = {} /\ met = {}
      /\ pc = [r \in Request |-> "idle"] /\ loc = [r \in Request |-> NoFrame]
  BY <1>1 DEF Init
<1>5. TypeOK
  BY <1>2, <1>3, <1>4, FrameTable DEF TypeOK, PC
<1>6. RowsSound(account, otps, resets, sessions)
  BY <1>2, <1>3, <1>4 DEF RowsSound
<1>7. Meeting
  BY <1>4 DEF Meeting
<1>8. \A r \in Request : Knows(r, pc[r], loc[r], account, sessions, met)
  BY <1>4, DoneKnows
<1>9. QED
  BY <1>5, <1>6, <1>7, <1>8 DEF AuthInv

\* Accounts, tokens and the frames of requests are what their types say, and
\* primary keys are unique.
THEOREM TypeCorrect == Spec => []TypeOK
<1>1. AuthInv => TypeOK
  BY DEF AuthInv
<1>2. QED
  BY <1>1, AuthInit, AuthStep, PTL DEF Spec

\* After a reset a live session stands in the place of one opened with the
\* current password, other than those whose request overlapped it, and its user
\* proved who they were with it unless it was refreshed with another's token.
THEOREM ResetEndsSessionsHolds == Spec => []ResetEndsSessions
<1>1. AuthInv => ResetEndsSessions
  BY DEF AuthInv, RowsSound, ResetEndsSessions, LiveSessions, Whole
<1>2. QED
  BY <1>1, AuthInit, AuthStep, PTL DEF Spec

(***************************************************************************)
(* One-time passwords are bounded by the requests that overlap             *)
(***************************************************************************)

\* The requests other than r stay where they are.
Alone(r) == \A q \in Request \ {r} : pc'[q] = pc[q] /\ loc'[q] = loc[q]

\* Going on moves one request, whatever its locals are.
LEMMA GotoMoves ==
    ASSUME TypeOK, NEW r \in Request, NEW p, NEW f, Goto(r, p, f)
    PROVE  pc'[r] = p /\ loc'[r] = f /\ Alone(r)
BY DEF Goto, TypeOK, Alone

\* Among those that end.
LEMMA FinishMoves ==
    ASSUME TypeOK, NEW r \in Request, Finish(r)
    PROVE  pc'[r] = "idle" /\ Alone(r)
BY GotoMoves DEF Finish

\* No endpoint begins with an INSERT of a one-time password, or changes one.
LEMMA CallsMove ==
    ASSUME TypeOK, NEW r \in Request, OtpCalls(r) \/ SessionCalls(r)
    PROVE  /\ Alone(r) /\ pc[r] = "idle" /\ pc'[r] \notin {"otpInsert", "findUser", "save"}
           /\ otps' = otps /\ sessions' = sessions
<1>1. ASSUME OtpCalls(r)
      PROVE  /\ Alone(r) /\ pc[r] = "idle" /\ pc'[r] \notin {"otpInsert", "findUser", "save"}
             /\ otps' = otps /\ sessions' = sessions
  <2>1. ASSUME NEW e \in Email, RegistrationRead(r, e) \/ ForgotRead(r, e)
        PROVE  /\ Alone(r) /\ pc[r] = "idle" /\ pc'[r] \notin {"otpInsert", "findUser", "save"}
               /\ otps' = otps /\ sessions' = sessions
    BY <2>1, GotoMoves DEF RegistrationRead, ForgotRead, Called, tables
  <2>2. ASSUME NEW o \in otps, RegistrationMatch(r, o) \/ ResetMatch(r, o)
        PROVE  /\ Alone(r) /\ pc[r] = "idle" /\ pc'[r] \notin {"otpInsert", "findUser", "save"}
               /\ otps' = otps /\ sessions' = sessions
    BY <2>2, GotoMoves DEF RegistrationMatch, ResetMatch, Called, tables
  <2>3. ASSUME NEW t \in resets, ResetStart(r, t)
        PROVE  /\ Alone(r) /\ pc[r] = "idle" /\ pc'[r] \notin {"otpInsert", "findUser", "save"}
               /\ otps' = otps /\ sessions' = sessions
    BY <2>3, GotoMoves DEF ResetStart, Called, tables
  <2>4. QED
    BY <1>1, <2>1, <2>2, <2>3 DEF OtpCalls
<1>2. ASSUME SessionCalls(r)
      PROVE  /\ Alone(r) /\ pc[r] = "idle" /\ pc'[r] \notin {"otpInsert", "findUser", "save"}
             /\ otps' = otps /\ sessions' = sessions
  <2>1. ASSUME NEW e \in Email, GoogleRead(r, e)
        PROVE  /\ Alone(r) /\ pc[r] = "idle" /\ pc'[r] \notin {"otpInsert", "findUser", "save"}
               /\ otps' = otps /\ sessions' = sessions
    BY <2>1, GotoMoves DEF GoogleRead, Called, tables
  <2>2. ASSUME NEW e \in Email, NEW org \in Org \cup {NoOrg}, LoginRead(r, e, org)
        PROVE  /\ Alone(r) /\ pc[r] = "idle" /\ pc'[r] \notin {"otpInsert", "findUser", "save"}
               /\ otps' = otps /\ sessions' = sessions
    BY <2>2, GotoMoves DEF LoginRead, Called, tables
  <2>3. ASSUME NEW token \in sessions, NEW s \in sessions,
               RefreshRead(r, token, s) \/ LogoutRead(r, token, s)
        PROVE  /\ Alone(r) /\ pc[r] = "idle" /\ pc'[r] \notin {"otpInsert", "findUser", "save"}
               /\ otps' = otps /\ sessions' = sessions
    BY <2>3, GotoMoves DEF RefreshRead, LogoutRead, Called, tables
  <2>4. QED
    BY <1>2, <2>1, <2>2, <2>3 DEF SessionCalls
<1>3. QED
  BY <1>1, <1>2

\* The steps that neither write a one-time password nor end, move or store a
\* session.
Plain(r) ==
    \/ RegistrationExists(r) \/ RegistrationCreate(r)
    \/ ResetSign(r) \/ ResetRevoke(r)
    \/ Memberships(r) \/ GoogleCreate(r) \/ GoogleLink(r) \/ GoogleFind(r)

\* They leave one-time passwords as they are, or used, and sessions alone.
LEMMA PlainMove ==
    ASSUME TypeOK, NEW r \in Request, Plain(r)
    PROVE  /\ Alone(r) /\ pc'[r] # "otpInsert" /\ sessions' = sessions
           /\ pc[r] \notin Carrying
           /\ pc'[r] \in Carrying => pc[r] \in {"memberships", "regCreate"} /\ pc'[r] = "save"
           /\ otps' = otps \/ \E ids : otps' = Used(ids)
<1>1. CASE RegistrationExists(r)
  BY <1>1, GotoMoves, FinishMoves DEF Carrying, RegistrationExists, tables
<1>2. CASE RegistrationCreate(r)
  <2>1. CASE Exists(loc[r].email)
    BY <1>2, <2>1, FinishMoves DEF Carrying, RegistrationCreate
  <2>2. CASE ~Exists(loc[r].email)
    <3>1. /\ pc[r] = "regCreate" /\ sessions' = sessions /\ otps' = Used({loc[r].otp})
      BY <1>2, <2>2 DEF Carrying, RegistrationCreate
    <3>2. \E f : Goto(r, "save", f)
      BY <1>2, <2>2 DEF Carrying, RegistrationCreate
    <3>3. QED
      BY <3>1, <3>2, GotoMoves DEF Carrying
  <2>3. QED
    BY <2>1, <2>2
<1>3. CASE ResetSign(r)
  BY <1>3, FinishMoves DEF Carrying, ResetSign
<1>4. CASE ResetRevoke(r)
  BY <1>4, GotoMoves DEF Carrying, ResetRevoke, tables
<1>5. CASE Memberships(r)
  <2>1. pc[r] = "memberships" /\ UNCHANGED tables
    BY <1>5 DEF Carrying, Memberships
  <2>2. Finish(r) \/ \E f : Goto(r, "save", f)
    BY <1>5 DEF Carrying, Memberships
  <2>3. QED
    BY <2>1, <2>2, GotoMoves, FinishMoves DEF Carrying, tables
<1>6. CASE GoogleCreate(r)
  BY <1>6, GotoMoves, FinishMoves DEF Carrying, GoogleCreate
<1>7. CASE GoogleLink(r)
  BY <1>7, GotoMoves DEF Carrying, GoogleLink, tables
<1>8. CASE GoogleFind(r)
  BY <1>8, GotoMoves, FinishMoves DEF Carrying, GoogleFind, tables
<1>9. QED
  BY <1>1, <1>2, <1>3, <1>4, <1>5, <1>6, <1>7, <1>8 DEF Plain

\* Each of the one-time passwords live is the work of a request of its own,
\* which, when it is writing another, has marked this one: requests P with
\* locals L.
Owners(e, live, P, L) ==
    \E own \in [live -> Request] :
      /\ \A o, x \in live : own[o] = own[x] => o = x
      /\ \A o \in live : P[own[o]] = "otpInsert" /\ L[own[o]].email = e =>
                            o.id \in L[own[o]].old

OwnedInv == \A e \in Email : Owners(e, LiveOtps(e), pc, loc)

\* The owners remain those of the rows that are left, when a request that
\* comes to write another has marked them all.
LEMMA OwnersStay ==
    ASSUME NEW e, NEW live, NEW next, next \subseteq live,
           NEW P, NEW L, NEW Q, NEW M, Owners(e, live, P, L),
           \A q \in Request : Q[q] = "otpInsert" /\ M[q].email = e =>
              \/ P[q] = "otpInsert" /\ L[q].email = e /\ L[q].old = M[q].old
              \/ \A o \in next : o.id \in M[q].old
    PROVE  Owners(e, next, Q, M)
<1>1. PICK own \in [live -> Request] :
        /\ \A o, x \in live : own[o] = own[x] => o = x
        /\ \A o \in live : P[own[o]] = "otpInsert" /\ L[own[o]].email = e =>
                              o.id \in L[own[o]].old
  BY DEF Owners
<1> DEFINE heir == [o \in next |-> own[o]]
<1>2. heir \in [next -> Request] /\ \A o \in next : heir[o] = own[o]
  BY <1>1
<1> HIDE DEF heir
<1>3. \A o, x \in next : heir[o] = heir[x] => o = x
  BY <1>1, <1>2
<1>4. ASSUME NEW o \in next, Q[heir[o]] = "otpInsert", M[heir[o]].email = e
      PROVE  o.id \in M[heir[o]].old
  <2>1. o \in live /\ heir[o] \in Request /\ heir[o] = own[o]
    BY <1>2
  <2>2. QED
    BY <1>1, <1>4, <2>1
<1>5. QED
  BY <1>2, <1>3, <1>4 DEF Owners

\* A row that is new belongs to the request r that wrote it: those left are not
\* its own, of requests P with locals L that become Q with locals M.
LEMMA OwnersGrow ==
    ASSUME NEW e, NEW live, NEW next, NEW r \in Request,
           NEW P, NEW L, NEW Q, NEW M, Owners(e, live, P, L),
           P[r] = "otpInsert", L[r].email = e, Q[r] = "idle",
           NEW kept \in SUBSET live, \A o \in kept : o.id \notin L[r].old,
           \A o \in next \ kept, x \in next \ kept : o = x,
           \A q \in Request \ {r} : Q[q] = P[q] /\ M[q] = L[q]
    PROVE  Owners(e, next, Q, M)
<1>1. PICK own \in [live -> Request] :
        /\ \A o, x \in live : own[o] = own[x] => o = x
        /\ \A o \in live : P[own[o]] = "otpInsert" /\ L[own[o]].email = e =>
                              o.id \in L[own[o]].old
  BY DEF Owners
<1> DEFINE heir == [o \in next |-> IF o \in kept THEN own[o] ELSE r]
<1>2. /\ \A o \in kept : o \in live /\ own[o] \in Request /\ own[o] # r
      /\ \A o, x \in next : o \in kept \/ x \in kept \/ o = x
  BY <1>1
<1>3. /\ heir \in [next -> Request]
      /\ \A o \in next : heir[o] = IF o \in kept THEN own[o] ELSE r
  BY <1>2
<1> HIDE DEF heir
<1>4. \A o, x \in next : heir[o] = heir[x] => o = x
  BY <1>1, <1>2, <1>3
<1>5. ASSUME NEW o \in next, Q[heir[o]] = "otpInsert", M[heir[o]].email = e
      PROVE  o.id \in M[heir[o]].old
  <2>1. o \in kept
    BY <1>3, <1>5
  <2>2. o \in live /\ heir[o] = own[o] /\ heir[o] \in Request \ {r}
    BY <1>2, <1>3, <2>1
  <2>3. QED
    BY <1>1, <1>5, <2>2
<1>6. QED
  BY <1>3, <1>4, <1>5 DEF Owners

\* A row that is live after others were marked is one of those live before.
LEMMA UsedLive ==
    ASSUME TypeOK, NEW ids
    PROVE  \A o \in Used(ids) : o.live => o \in otps /\ o.id \notin ids
<1>1. \A x \in Used(ids) :
        \E o \in otps : /\ o.id = x.id /\ o.email = x.email /\ o.purpose = x.purpose
                        /\ x.live => x = o /\ o.id \notin ids
  BY UsedRows
<1>2. QED
  BY <1>1

\* The owners remain when nothing is written and nobody comes to write.
LEMMA OwnedStays ==
    ASSUME OwnedInv,
           \A q \in Request : pc'[q] = "otpInsert" => pc'[q] = pc[q] /\ loc'[q] = loc[q],
           \A o \in otps' : o.live => o \in otps
    PROVE  OwnedInv'
<1>1. ASSUME NEW e \in Email PROVE Owners(e, LiveOtps(e), pc, loc)'
  <2>1. PICK live : live = LiveOtps(e)
    OBVIOUS
  <2>2. PICK next : next = LiveOtps(e)'
    OBVIOUS
  <2>3. next \subseteq live
    BY <2>1, <2>2 DEF LiveOtps
  <2>4. Owners(e, live, pc, loc)
    BY <2>1 DEF OwnedInv
  <2>5. \A q \in Request : pc'[q] = "otpInsert" /\ loc'[q].email = e =>
          pc[q] = "otpInsert" /\ loc[q].email = e /\ loc[q].old = loc'[q].old
    OBVIOUS
  <2>6. Owners(e, next, pc', loc')
    BY <2>3, <2>4, <2>5, OwnersStay
  <2>7. QED
    BY <2>2, <2>6
<1>2. QED
  BY <1>1 DEF OwnedInv

\* A request that comes to write has marked all the rows.
LEMMA OwnedUpdate ==
    ASSUME TypeOK, OwnedInv, NEW r \in Request, OtpUpdate(r)
    PROVE  OwnedInv'
<1> DEFINE f == [email |-> loc[r].email, purpose |-> loc[r].purpose,
                 old |-> {o.id : o \in LiveOtps(loc[r].email)}]
<1>1. Goto(r, "otpInsert", f) /\ otps' = otps
  BY DEF OtpUpdate, tables
<1>2. f.email = loc[r].email /\ f.old = {o.id : o \in LiveOtps(loc[r].email)}
  OBVIOUS
<1> HIDE DEF f
<1>3. pc'[r] = "otpInsert" /\ loc'[r] = f /\ Alone(r)
  BY <1>1, GotoMoves
<1>4. ASSUME NEW e \in Email PROVE Owners(e, LiveOtps(e), pc, loc)'
  <2>1. PICK live : live = LiveOtps(e)
    OBVIOUS
  <2>2. LiveOtps(e)' = live
    BY <1>1, <2>1 DEF LiveOtps
  <2>3. Owners(e, live, pc, loc)
    BY <2>1 DEF OwnedInv
  <2>4. ASSUME NEW q \in Request, pc'[q] = "otpInsert", loc'[q].email = e
        PROVE  \/ pc[q] = "otpInsert" /\ loc[q].email = e /\ loc[q].old = loc'[q].old
               \/ \A o \in live : o.id \in loc'[q].old
    <3>1. CASE q = r
      BY <1>2, <1>3, <2>1, <2>4, <3>1
    <3>2. CASE q # r
      BY <1>3, <2>4, <3>2 DEF Alone
    <3>3. QED
      BY <3>1, <3>2
  <2>5. Owners(e, live, pc', loc')
    BY <2>3, <2>4, OwnersStay
  <2>6. QED
    BY <2>2, <2>5
<1>5. QED
  BY <1>4 DEF OwnedInv

\* The row that is written takes the place of those its request owned.
LEMMA OwnedInsert ==
    ASSUME TypeOK, OwnedInv, NEW r \in Request, OtpInsert(r)
    PROVE  OwnedInv'
<1>1. PICK id \in FreshOtp :
        otps' = Used(loc[r].old) \cup
          {[id |-> id, email |-> loc[r].email, purpose |-> loc[r].purpose, live |-> TRUE]}
  BY DEF OtpInsert
<1>2. PICK new : new = [id |-> id, email |-> loc[r].email, purpose |-> loc[r].purpose,
                        live |-> TRUE]
  OBVIOUS
<1>3. new.email = loc[r].email /\ otps' = Used(loc[r].old) \cup {new}
  BY <1>1, <1>2
<1>4. pc[r] = "otpInsert" /\ pc'[r] = "idle" /\ Alone(r)
  BY FinishMoves DEF OtpInsert
<1>5. \A o \in otps' : o.live /\ o # new => o \in otps /\ o.id \notin loc[r].old
  BY <1>3, UsedLive
<1>6. ASSUME NEW e \in Email PROVE Owners(e, LiveOtps(e), pc, loc)'
  <2>1. PICK live : live = LiveOtps(e)
    OBVIOUS
  <2>2. PICK next : next = LiveOtps(e)'
    OBVIOUS
  <2>3. next = {o \in otps' : o.email = e /\ o.live}
    BY <2>2 DEF LiveOtps
  <2>4. Owners(e, live, pc, loc)
    BY <2>1 DEF OwnedInv
  <2>5. \A o \in next : o # new => o \in live /\ o.id \notin loc[r].old
    BY <1>5, <2>1, <2>3 DEF LiveOtps
  <2>6. \A q \in Request \ {r} : pc'[q] = pc[q] /\ loc'[q] = loc[q]
    BY <1>4 DEF Alone
  <2>7. CASE loc[r].email = e
    <3>1. PICK kept : kept = next \ {new}
      OBVIOUS
    <3>2. /\ kept \in SUBSET live /\ \A o \in kept : o.id \notin loc[r].old
          /\ \A o \in next \ kept, x \in next \ kept : o = x
      BY <2>5, <3>1
    <3>3. pc[r] = "otpInsert" /\ pc'[r] = "idle"
      BY <1>4
    <3>4. Owners(e, next, pc', loc')
      BY <2>4, <2>6, <2>7, <3>2, <3>3, OwnersGrow
    <3>5. QED
      BY <2>2, <3>4
  <2>8. CASE loc[r].email # e
    <3>1. next \subseteq live
      BY <1>3, <2>3, <2>5, <2>8
    <3>2. \A q \in Request : pc'[q] = "otpInsert" /\ loc'[q].email = e =>
            pc[q] = "otpInsert" /\ loc[q].email = e /\ loc[q].old = loc'[q].old
      BY <1>4, <2>6
    <3>3. Owners(e, next, pc', loc')
      BY <2>4, <3>1, <3>2, OwnersStay
    <3>4. QED
      BY <2>2, <3>3
  <2>9. QED
    BY <2>7, <2>8
<1>7. QED
  BY <1>6 DEF OwnedInv

\* Every step keeps the owners.
LEMMA OwnedStep ==
    TypeOK /\ OwnedInv /\ [Next]_vars => OwnedInv'
<1>1. SUFFICES ASSUME TypeOK, OwnedInv, [Next]_vars PROVE OwnedInv'
  OBVIOUS
<1>2. ASSUME NEW r \in Request, Alone(r), pc'[r] # "otpInsert",
             otps' = otps \/ \E ids : otps' = Used(ids)
      PROVE  OwnedInv'
  <2>1. \A q \in Request : pc'[q] = "otpInsert" => pc'[q] = pc[q] /\ loc'[q] = loc[q]
    BY <1>2 DEF Alone
  <2>2. \A o \in otps' : o.live => o \in otps
    BY <1>1, <1>2, UsedLive
  <2>3. QED
    BY <1>1, <2>1, <2>2, OwnedStays
<1>3. ASSUME NEW r \in Request, OtpCalls(r) \/ SessionCalls(r) PROVE OwnedInv'
  <2>1. Alone(r) /\ pc'[r] # "otpInsert" /\ otps' = otps
    BY <1>1, <1>3, CallsMove
  <2>2. QED
    BY <1>2, <2>1
<1>4. ASSUME NEW r \in Request, Plain(r) PROVE OwnedInv'
  BY <1>1, <1>2, <1>4, PlainMove
<1>5. ASSUME NEW r \in Request, OtpUpdate(r) \/ OtpInsert(r) PROVE OwnedInv'
  BY <1>1, <1>5, OwnedUpdate, OwnedInsert
<1>6. ASSUME NEW r \in Request,
             \/ ResetCommit(r) \/ SaveRefreshToken(r)
             \/ RefreshFindUser(r) \/ LogoutRevoke(r) \/ Abandon(r)
      PROVE  OwnedInv'
  <2>1. CASE ResetCommit(r)
    BY <1>1, <1>2, <2>1, FinishMoves DEF ResetCommit
  <2>2. CASE SaveRefreshToken(r)
    BY <1>1, <1>2, <2>2, FinishMoves DEF SaveRefreshToken
  <2>3. CASE RefreshFindUser(r)
    BY <1>1, <1>2, <2>3, FinishMoves, GotoMoves DEF RefreshFindUser, tables
  <2>4. CASE LogoutRevoke(r)
    BY <1>1, <1>2, <2>4, FinishMoves DEF LogoutRevoke
  <2>5. CASE Abandon(r)
    BY <1>1, <1>2, <2>5, FinishMoves DEF Abandon, tables
  <2>6. QED
    BY <1>6, <2>1, <2>2, <2>3, <2>4, <2>5
<1>7. ASSUME NEW r \in Request, RefreshRevoke(r) PROVE OwnedInv'
  <2>1. otps' = otps /\ (Finish(r) \/ \E f : Goto(r, "findUser", f))
    BY <1>7 DEF RefreshRevoke
  <2>2. QED
    BY <1>1, <1>2, <2>1, FinishMoves, GotoMoves
<1>8. ASSUME UNCHANGED <<pc, loc>>, otps' = otps \/ \E ids : otps' = Used(ids)
      PROVE  OwnedInv'
  <2>1. \A o \in otps' : o.live => o \in otps
    BY <1>1, <1>8, UsedLive
  <2>2. QED
    BY <1>1, <1>8, <2>1, OwnedStays
<1>9. CASE \/ \E e \in Email, row \in Changes : Administer(e, row)
           \/ \E o \in otps : ExpireOtp(o)
           \/ \E t \in resets : ExpireReset(t)
           \/ \E s \in sessions : ExpireSession(s)
           \/ UNCHANGED vars
  BY <1>8, <1>9 DEF Administer, ExpireOtp, ExpireReset, ExpireSession, vars
<1>10. QED
  BY <1>1, <1>3, <1>4, <1>5, <1>6, <1>7, <1>9 DEF Next, Step, Plain

\* There are never more one-time passwords live for an email than requests
\* overlap, however those that write them interleave.
THEOREM LiveOtpBoundedHolds == Spec => []LiveOtpBounded
<1>1. Init => OwnedInv
  <2>1. SUFFICES ASSUME Init, NEW e \in Email PROVE Owners(e, LiveOtps(e), pc, loc)
    BY DEF OwnedInv
  <2>2. LiveOtps(e) = {}
    BY <2>1 DEF Init, LiveOtps
  <2>3. [o \in {} |-> o] \in [{} -> Request]
    OBVIOUS
  <2>4. QED
    BY <2>2, <2>3 DEF Owners
<1>2. OwnedInv => LiveOtpBounded
  <2>1. SUFFICES ASSUME OwnedInv, NEW e \in Email
                 PROVE  Cardinality(LiveOtps(e)) <= Cardinality(Request)
    BY DEF LiveOtpBounded
  <2>2. PICK own \in [LiveOtps(e) -> Request] :
          \A o, x \in LiveOtps(e) : own[o] = own[x] => o = x
    BY <2>1 DEF OwnedInv, Owners
  <2>3. own \in Injection(LiveOtps(e), Request)
    BY <2>2 DEF Injection, IsInjective
  <2>4. QED
    BY <2>3, AuthAssumption, FS_Injection
<1>3. QED
  BY <1>1, <1>2, OwnedStep, TypeCorrect, PTL DEF Spec

(***************************************************************************)
(* A refresh trades one session for one                                    *)
(***************************************************************************)

\* The requests about to store a session of e.
Carriers(e) == {r \in Request : pc[r] \in Carrying /\ loc[r].email = e}

\* Sessions, stored or about to be, are finitely many.
LEMMA TotalFinite ==
    ASSUME TypeOK, NEW e \in Email
    PROVE  /\ IsFiniteSet(LiveSessions(e)) /\ Cardinality(LiveSessions(e)) \in Nat
           /\ IsFiniteSet(Carriers(e)) /\ Cardinality(Carriers(e)) \in Nat
           /\ Total(e) = Cardinality(LiveSessions(e)) + Cardinality(Carriers(e))
<1> DEFINE key == [s \in sessions |-> s.id]
<1>1. /\ \A s \in sessions : s.id \in SessionId
      /\ \A x, y \in sessions : x.id = y.id => x = y
  BY DEF TypeOK, SessionRow
<1>2. key \in Injection(sessions, SessionId)
  BY <1>1 DEF Injection, IsInjective
<1>3. IsFiniteSet(sessions)
  BY <1>2, AuthAssumption, FS_Injection
<1>4. LiveSessions(e) \in SUBSET sessions /\ Carriers(e) \in SUBSET Request
  BY DEF LiveSessions, Carriers
<1>5. IsFiniteSet(LiveSessions(e)) /\ IsFiniteSet(Carriers(e))
  BY <1>3, <1>4, AuthAssumption, FS_Subset
<1>6. Cardinality(LiveSessions(e)) \in Nat /\ Cardinality(Carriers(e)) \in Nat
  BY <1>5, FS_CardinalityType
<1>7. QED
  BY <1>5, <1>6 DEF Total, Carriers

\* Those facts as a formula of one state, which a proof may also use of the next.
TotalsFinite ==
    \A e \in Email :
      /\ IsFiniteSet(LiveSessions(e)) /\ Cardinality(LiveSessions(e)) \in Nat
      /\ IsFiniteSet(Carriers(e)) /\ Cardinality(Carriers(e)) \in Nat
      /\ Total(e) = Cardinality(LiveSessions(e)) + Cardinality(Carriers(e))

\* It holds of every state.
LEMMA TotalsKnown == TypeOK => TotalsFinite
BY TotalFinite DEF TotalsFinite

\* In the state before and the state after a step.
LEMMA TotalsOfStep ==
    ASSUME TypeOK, TypeOK', NEW e \in Email, NEW L, NEW C, NEW M, NEW D,
           L = LiveSessions(e), C = Carriers(e), M = LiveSessions(e)', D = Carriers(e)'
    PROVE  /\ IsFiniteSet(L) /\ IsFiniteSet(C) /\ IsFiniteSet(M) /\ IsFiniteSet(D)
           /\ Cardinality(L) \in Nat /\ Cardinality(C) \in Nat
           /\ Cardinality(M) \in Nat /\ Cardinality(D) \in Nat
           /\ Total(e) = Cardinality(L) + Cardinality(C)
           /\ Total(e)' = Cardinality(M) + Cardinality(D)
<1>1. TotalsFinite /\ TotalsFinite'
  BY TotalsKnown, PTL
<1>2. QED
  BY <1>1 DEF TotalsFinite

\* A request that moves leaves the other carriers.
LEMMA CarriersMove ==
    ASSUME NEW r \in Request, Alone(r), NEW e, NEW C, NEW D,
           C = Carriers(e), D = Carriers(e)'
    PROVE  /\ C \ {r} = D \ {r}
           /\ r \in C <=> pc[r] \in Carrying /\ loc[r].email = e
           /\ r \in D <=> pc'[r] \in Carrying /\ loc'[r].email = e
BY DEF Carriers, Alone

\* Revoking rows of one user leaves the live sessions that are not among them.
LEMMA RevokedLive ==
    ASSUME TypeOK, NEW ids, sessions' = Revoked(ids), NEW e, NEW L, NEW M,
           L = LiveSessions(e), M = LiveSessions(e)'
    PROVE  /\ M = {s \in L : s.id \notin ids}
           /\ \A f : /\ \A id \in ids : \E s \in sessions : s.id = id /\ s.email = f
                     /\ f # e
                     => M = L
<1>1. /\ \A x \in sessions' : x.state = "live" => x \in sessions /\ x.id \notin ids
      /\ \A s \in sessions : s.id \notin ids => s \in sessions'
  <2>1. /\ \A x \in Revoked(ids) : x.state = "live" => x \in sessions /\ x.id \notin ids
        /\ \A s \in sessions :
             \E x \in Revoked(ids) : /\ s.id = x.id /\ s.email = x.email
                                     /\ s.id \notin ids => x = s
    BY RevokedRows
  <2>2. QED
    BY <2>1
<1>2. M = {s \in L : s.id \notin ids}
  BY <1>1 DEF LiveSessions
<1>3. L \subseteq sessions /\ \A s \in L : s.email = e
  BY DEF LiveSessions
<1>4. \A x, y \in sessions : x.id = y.id => x = y
  BY DEF TypeOK
<1>5. ASSUME NEW f, \A id \in ids : \E s \in sessions : s.id = id /\ s.email = f, f # e
      PROVE  M = L
  <2>1. \A s \in L : s.id \notin ids
    BY <1>3, <1>4, <1>5
  <2>2. QED
    BY <1>2, <2>1
<1>6. QED
  BY <1>2, <1>5

\* Revoking one row takes one live session away at most: that row.
LEMMA RevokedOne ==
    ASSUME TypeOK, NEW id, sessions' = Revoked({id}), NEW e, NEW L, NEW M,
           L = LiveSessions(e), M = LiveSessions(e)'
    PROVE  /\ M = L \/ \E x \in L : M = L \ {x}
           /\ \A x \in L : x.id = id => M = L \ {x}
<1>1. M = {s \in L : s.id # id}
  <2>1. M = {s \in L : s.id \notin {id}}
    BY RevokedLive
  <2>2. QED
    BY <2>1
<1>2. \A x, y \in L : x.id = y.id => x = y
  BY DEF TypeOK, LiveSessions
<1>3. \A x \in L : x.id = id => M = L \ {x}
  BY <1>1, <1>2
<1>4. (\A x \in L : x.id # id) => M = L
  BY <1>1
<1>5. QED
  BY <1>3, <1>4

\* What a step may do to the sessions of e.
Trade(e) ==
    \/ Total(e)' = Total(e)
    \/ /\ Total(e)' = Total(e) + 1
       /\ \E r \in Request : Opens(r, e)
    \/ /\ Total(e)' = Total(e) - 1
       /\ \/ \E r \in Request : Ends(r, e)
          \/ \E s \in sessions : s.email = e /\ ExpireSession(s)
    \/ /\ Total(e)' < Total(e)
       /\ \E r \in Request : ResetsIt(r, e)

\* Where no session is revoked and no carrier ends, one is added by a sign-in.
LEMMA PlainTrade ==
    ASSUME TypeOK, TypeOK', NEW e \in Email, sessions' = sessions,
           NEW r \in Request, Alone(r), pc[r] \notin Carrying,
           pc'[r] \in Carrying => pc[r] \in {"memberships", "regCreate"} /\ pc'[r] = "save"
    PROVE  Trade(e)
<1>1. PICK L, C, M, D : /\ L = LiveSessions(e) /\ C = Carriers(e)
                        /\ M = LiveSessions(e)' /\ D = Carriers(e)'
  OBVIOUS
<1>2. /\ IsFiniteSet(C) /\ Cardinality(L) \in Nat /\ Cardinality(C) \in Nat
      /\ Total(e) = Cardinality(L) + Cardinality(C)
      /\ Total(e)' = Cardinality(M) + Cardinality(D)
  BY <1>1, TotalsOfStep
<1>3. M = L
  BY <1>1 DEF LiveSessions
<1>4. /\ C \ {r} = D \ {r} /\ r \notin C
      /\ r \in D => pc'[r] \in Carrying /\ loc'[r].email = e
  BY <1>1, CarriersMove
<1>5. CASE r \in D
  <2>1. D = C \cup {r}
    BY <1>4, <1>5
  <2>2. Cardinality(D) = Cardinality(C) + 1
    BY <1>2, <1>4, <2>1, FS_AddElement
  <2>3. Opens(r, e)
    BY <1>4, <1>5 DEF Opens
  <2>4. Total(e)' = Total(e) + 1
    BY <1>2, <1>3, <2>2
  <2>5. QED
    BY <2>3, <2>4 DEF Trade
<1>6. CASE r \notin D
  <2>1. D = C
    BY <1>4, <1>6
  <2>2. Total(e)' = Total(e)
    BY <1>2, <1>3, <2>1
  <2>3. QED
    BY <2>2 DEF Trade
<1>7. QED
  BY <1>5, <1>6

\* A request that ends before it has stored its session takes it away.
LEMMA EndTrade ==
    ASSUME TypeOK, TypeOK', NEW e \in Email, sessions' = sessions,
           NEW r \in Request, Alone(r), pc[r] \in Carrying, pc'[r] = "idle"
    PROVE  Trade(e)
<1>1. PICK L, C, M, D : /\ L = LiveSessions(e) /\ C = Carriers(e)
                        /\ M = LiveSessions(e)' /\ D = Carriers(e)'
  OBVIOUS
<1>2. /\ IsFiniteSet(C) /\ Cardinality(L) \in Nat /\ Cardinality(C) \in Nat
      /\ Total(e) = Cardinality(L) + Cardinality(C)
      /\ Total(e)' = Cardinality(M) + Cardinality(D)
  BY <1>1, TotalsOfStep
<1>3. M = L
  BY <1>1 DEF LiveSessions
<1>4. C \ {r} = D \ {r} /\ r \notin D /\ (r \in C <=> loc[r].email = e)
  BY <1>1, CarriersMove DEF Carrying
<1>5. D = C \ {r}
  BY <1>4
<1>6. Cardinality(D) = IF r \in C THEN Cardinality(C) - 1 ELSE Cardinality(C)
  BY <1>2, <1>5, FS_RemoveElement
<1>7. CASE r \in C
  <2>1. Ends(r, e)
    BY <1>4, <1>7 DEF Ends
  <2>2. Total(e)' = Total(e) - 1
    BY <1>2, <1>3, <1>6, <1>7
  <2>3. QED
    BY <2>1, <2>2 DEF Trade
<1>8. CASE r \notin C
  <2>1. Total(e)' = Total(e)
    BY <1>2, <1>3, <1>6, <1>8
  <2>2. QED
    BY <2>1 DEF Trade
<1>9. QED
  BY <1>7, <1>8

\* A session about to be stored is stored.
LEMMA SaveTrade ==
    ASSUME TypeOK, TypeOK', NEW e \in Email, NEW r \in Request, SaveRefreshToken(r)
    PROVE  Total(e)' = Total(e)
<1>1. PICK L, C, M, D : /\ L = LiveSessions(e) /\ C = Carriers(e)
                        /\ M = LiveSessions(e)' /\ D = Carriers(e)'
  OBVIOUS
<1>2. /\ IsFiniteSet(L) /\ IsFiniteSet(C)
      /\ Cardinality(L) \in Nat /\ Cardinality(C) \in Nat
      /\ Total(e) = Cardinality(L) + Cardinality(C)
      /\ Total(e)' = Cardinality(M) + Cardinality(D)
  BY <1>1, TotalsOfStep
<1>3. pc[r] = "save" /\ pc'[r] = "idle" /\ Alone(r)
  BY FinishMoves DEF SaveRefreshToken
<1>4. C \ {r} = D \ {r} /\ r \notin D /\ (r \in C <=> loc[r].email = e)
  BY <1>1, <1>3, CarriersMove DEF Carrying
<1>5. D = C \ {r}
  BY <1>4
<1>6. Cardinality(D) = IF r \in C THEN Cardinality(C) - 1 ELSE Cardinality(C)
  BY <1>2, <1>5, FS_RemoveElement
<1>7. PICK id, new :
        /\ id \in FreshSession
        /\ new.id = id /\ new.email = loc[r].email /\ new.state = "live"
        /\ sessions' = sessions \cup {new}
  BY DEF SaveRefreshToken
<1>8. new \notin sessions
  BY <1>7 DEF FreshSession
<1>9. CASE loc[r].email = e
  <2>1. M = L \cup {new} /\ new \notin L
    BY <1>1, <1>7, <1>8, <1>9 DEF LiveSessions
  <2>2. Cardinality(M) = Cardinality(L) + 1
    BY <1>2, <2>1, FS_AddElement
  <2>3. QED
    BY <1>2, <1>4, <1>6, <1>9, <2>2
<1>10. CASE loc[r].email # e
  <2>1. M = L
    BY <1>1, <1>7, <1>10 DEF LiveSessions
  <2>2. QED
    BY <1>2, <1>4, <1>6, <1>10, <2>1
<1>11. QED
  BY <1>9, <1>10

\* Rotation revokes the row it found and stores a session for its user: one
\* for one, unless the row was ended since.
LEMMA RotateTrade ==
    ASSUME AuthInv, TypeOK', NEW e \in Email, NEW r \in Request, RefreshRevoke(r)
    PROVE  Trade(e)
<1> DEFINE s == loc[r].row
<1>1. TypeOK /\ Knows(r, pc[r], loc[r], account, sessions, met) /\ pc[r] = "rotate"
  BY DEF AuthInv, RefreshRevoke
<1>2. /\ loc[r].matches /\ s.state = "live"
      /\ \A id \in {s.id} : \E x \in sessions : x.id = id /\ x.email = s.email
  BY <1>1 DEF Knows
<1>3. /\ sessions' = Revoked({s.id})
      /\ \E f : Goto(r, "findUser", f) /\ f.email = s.email
  BY <1>2 DEF RefreshRevoke
<1>4. pc'[r] = "findUser" /\ loc'[r].email = s.email /\ Alone(r)
  BY <1>1, <1>3, GotoMoves
<1>5. PICK L, C, M, D : /\ L = LiveSessions(e) /\ C = Carriers(e)
                        /\ M = LiveSessions(e)' /\ D = Carriers(e)'
  OBVIOUS
<1>6. /\ IsFiniteSet(L) /\ IsFiniteSet(C) /\ IsFiniteSet(D)
      /\ Cardinality(L) \in Nat /\ Cardinality(C) \in Nat /\ Cardinality(D) \in Nat
      /\ Total(e) = Cardinality(L) + Cardinality(C)
      /\ Total(e)' = Cardinality(M) + Cardinality(D)
  BY <1>1, <1>5, TotalsOfStep
<1>7. C \ {r} = D \ {r} /\ r \notin C /\ (r \in D <=> s.email = e)
  BY <1>1, <1>4, <1>5, CarriersMove DEF Carrying
<1>8. /\ M = L \/ \E x \in L : M = L \ {x}
      /\ \A x \in L : x.id = s.id => M = L \ {x}
  <2>1. PICK id : id = s.id /\ sessions' = Revoked({id})
    BY <1>3
  <2>2. /\ M = L \/ \E x \in L : M = L \ {x}
        /\ \A x \in L : x.id = id => M = L \ {x}
    BY <1>1, <1>5, <2>1, RevokedOne
  <2>3. QED
    BY <2>1, <2>2
<1>9. CASE s.email = e
  <2>1. D = C \cup {r}
    BY <1>7, <1>9
  <2>2. Cardinality(D) = Cardinality(C) + 1
    BY <1>6, <1>7, <2>1, FS_AddElement
  <2>3. Cardinality(M) = Cardinality(L) \/ Cardinality(M) = Cardinality(L) - 1
    BY <1>6, <1>8, FS_RemoveElement
  <2>4. s \in sessions => Cardinality(M) = Cardinality(L) - 1
    <3>1. SUFFICES ASSUME s \in sessions PROVE Cardinality(M) = Cardinality(L) - 1
      OBVIOUS
    <3>2. s \in L
      BY <1>2, <1>5, <1>9, <3>1 DEF LiveSessions
    <3>3. M = L \ {s}
      BY <1>8, <3>2
    <3>4. QED
      BY <1>6, <3>2, <3>3, FS_RemoveElement
  <2>5. Total(e)' = Total(e) \/ (Total(e)' = Total(e) + 1 /\ s \notin sessions)
    BY <1>6, <2>2, <2>3, <2>4
  <2>6. s \notin sessions => Opens(r, e)
    BY <1>1, <1>4, <1>9 DEF Opens
  <2>7. QED
    BY <2>5, <2>6 DEF Trade
<1>10. CASE s.email # e
  <2>1. M = L
    BY <1>1, <1>2, <1>3, <1>5, <1>10, RevokedLive
  <2>2. D = C
    BY <1>7, <1>10
  <2>3. Total(e)' = Total(e)
    BY <1>6, <2>1, <2>2
  <2>4. QED
    BY <2>3 DEF Trade
<1>11. QED
  BY <1>9, <1>10

\* A logout revokes one row of its user.
LEMMA LogoutTrade ==
    ASSUME AuthInv, TypeOK', NEW e \in Email, NEW r \in Request, LogoutRevoke(r)
    PROVE  Trade(e)
<1>1. TypeOK /\ Knows(r, pc[r], loc[r], account, sessions, met) /\ pc[r] = "logout"
  BY DEF AuthInv, LogoutRevoke
<1>2. sessions' = Revoked({loc[r].id}) /\ pc'[r] = "idle" /\ Alone(r)
  BY <1>1, FinishMoves DEF LogoutRevoke
<1>3. \A id \in {loc[r].id} : \E x \in sessions : x.id = id /\ x.email = loc[r].email
  BY <1>1 DEF Knows
<1>4. PICK L, C, M, D : /\ L = LiveSessions(e) /\ C = Carriers(e)
                        /\ M = LiveSessions(e)' /\ D = Carriers(e)'
  OBVIOUS
<1>5. /\ IsFiniteSet(L) /\ Cardinality(L) \in Nat /\ Cardinality(C) \in Nat
      /\ Total(e) = Cardinality(L) + Cardinality(C)
      /\ Total(e)' = Cardinality(M) + Cardinality(D)
  BY <1>1, <1>4, TotalsOfStep
<1>6. C \ {r} = D \ {r} /\ r \notin C /\ r \notin D
  BY <1>1, <1>2, <1>4, CarriersMove DEF Carrying
<1>7. C = D
  BY <1>6
<1>8. CASE loc[r].email = e
  <2>1. M = L \/ \E x \in L : M = L \ {x}
    <3>1. PICK id : id = loc[r].id /\ sessions' = Revoked({id})
      BY <1>2
    <3>2. /\ M = L \/ \E x \in L : M = L \ {x}
          /\ \A x \in L : x.id = id => M = L \ {x}
      BY <1>1, <1>4, <3>1, RevokedOne
    <3>3. QED
      BY <3>2
  <2>2. Cardinality(M) = Cardinality(L) \/ Cardinality(M) = Cardinality(L) - 1
    BY <1>5, <2>1, FS_RemoveElement
  <2>3. Total(e)' = Total(e) \/ Total(e)' = Total(e) - 1
    BY <1>5, <1>7, <2>2
  <2>4. Ends(r, e)
    BY <1>1, <1>2, <1>8 DEF Ends, Carrying
  <2>5. QED
    BY <2>3, <2>4 DEF Trade
<1>9. CASE loc[r].email # e
  <2>1. M = L
    BY <1>1, <1>2, <1>3, <1>4, <1>9, RevokedLive
  <2>2. Total(e)' = Total(e)
    BY <1>5, <1>7, <2>1
  <2>3. QED
    BY <2>2 DEF Trade
<1>10. QED
  BY <1>8, <1>9

\* A reset revokes rows of its user.
LEMMA ResetTrade ==
    ASSUME AuthInv, TypeOK', NEW e \in Email, NEW r \in Request, ResetCommit(r)
    PROVE  Trade(e)
<1>1. TypeOK /\ Knows(r, pc[r], loc[r], account, sessions, met) /\ pc[r] = "resetCommit"
  BY DEF AuthInv, ResetCommit
<1>2. sessions' = Revoked(loc[r].old) /\ pc'[r] = "idle" /\ Alone(r)
  BY <1>1, FinishMoves DEF ResetCommit
<1>3. \A id \in loc[r].old : \E x \in sessions : x.id = id /\ x.email = loc[r].email
  BY <1>1 DEF Knows
<1>4. PICK L, C, M, D : /\ L = LiveSessions(e) /\ C = Carriers(e)
                        /\ M = LiveSessions(e)' /\ D = Carriers(e)'
  OBVIOUS
<1>5. /\ IsFiniteSet(L) /\ Cardinality(L) \in Nat /\ Cardinality(C) \in Nat
      /\ Cardinality(M) \in Nat
      /\ Total(e) = Cardinality(L) + Cardinality(C)
      /\ Total(e)' = Cardinality(M) + Cardinality(D)
  BY <1>1, <1>4, TotalsOfStep
<1>6. C \ {r} = D \ {r} /\ r \notin C /\ r \notin D
  BY <1>1, <1>2, <1>4, CarriersMove DEF Carrying
<1>7. C = D
  BY <1>6
<1>8. M = {s \in L : s.id \notin loc[r].old} /\ (loc[r].email # e => M = L)
  <2>1. PICK ids : ids = loc[r].old /\ sessions' = Revoked(ids)
    BY <1>2
  <2>2. /\ M = {s \in L : s.id \notin ids}
        /\ \A f : (\A id \in ids : \E s \in sessions : s.id = id /\ s.email = f) /\ f # e
                  => M = L
    BY <1>1, <1>4, <2>1, RevokedLive
  <2>3. loc[r].email # e => M = L
    BY <1>3, <2>1, <2>2
  <2>4. QED
    BY <2>1, <2>2, <2>3
<1>9. CASE loc[r].email = e
  <2>1. M \in SUBSET L
    BY <1>8
  <2>2. Cardinality(M) <= Cardinality(L)
    BY <1>5, <2>1, FS_Subset
  <2>3. Total(e)' = Total(e) \/ Total(e)' < Total(e)
    BY <1>5, <1>7, <2>2
  <2>4. ResetsIt(r, e)
    BY <1>1, <1>2, <1>9 DEF ResetsIt
  <2>5. QED
    BY <2>3, <2>4 DEF Trade
<1>10. CASE loc[r].email # e
  <2>1. Total(e)' = Total(e)
    BY <1>5, <1>7, <1>8, <1>10
  <2>2. QED
    BY <2>1 DEF Trade
<1>11. QED
  BY <1>9, <1>10

\* Expiry takes the row that expires.
LEMMA ExpiryTrade ==
    ASSUME TypeOK, TypeOK', NEW e \in Email, NEW s \in sessions, ExpireSession(s)
    PROVE  Trade(e)
<1>1. PICK L, C, M, D : /\ L = LiveSessions(e) /\ C = Carriers(e)
                        /\ M = LiveSessions(e)' /\ D = Carriers(e)'
  OBVIOUS
<1>2. /\ IsFiniteSet(L) /\ Cardinality(L) \in Nat /\ Cardinality(C) \in Nat
      /\ Total(e) = Cardinality(L) + Cardinality(C)
      /\ Total(e)' = Cardinality(M) + Cardinality(D)
  BY <1>1, TotalsOfStep
<1>3. C = D
  BY <1>1 DEF Carriers, ExpireSession
<1>4. PICK x : x.state = "expired" /\ sessions' = (sessions \ {s}) \cup {x}
  <2>1. s \in SessionRow
    BY DEF TypeOK
  <2>2. [s EXCEPT !.state = "expired"].state = "expired"
    BY <2>1 DEF SessionRow
  <2>3. sessions' = (sessions \ {s}) \cup {[s EXCEPT !.state = "expired"]}
    BY DEF ExpireSession
  <2>4. QED
    BY <2>2, <2>3
<1>5. M = L \ {s}
  BY <1>1, <1>4 DEF LiveSessions
<1>6. /\ s \in L => Cardinality(M) = Cardinality(L) - 1 /\ s.email = e
      /\ s \notin L => M = L
  <2>1. s \in L => s.email = e
    BY <1>1 DEF LiveSessions
  <2>2. s \in L => Cardinality(M) = Cardinality(L) - 1
    BY <1>2, <1>5, FS_RemoveElement
  <2>3. QED
    BY <1>5, <2>1, <2>2
<1>7. CASE s \in L
  <2>1. Total(e)' = Total(e) - 1 /\ s.email = e
    BY <1>2, <1>3, <1>6, <1>7
  <2>2. QED
    BY <2>1 DEF Trade
<1>8. CASE s \notin L
  <2>1. Total(e)' = Total(e)
    BY <1>2, <1>3, <1>6, <1>8
  <2>2. QED
    BY <2>1 DEF Trade
<1>9. QED
  BY <1>7, <1>8

\* Every step trades fairly.
LEMMA TradeStep ==
    ASSUME AuthInv, AuthInv', [Next]_vars, NEW e \in Email
    PROVE  Trade(e) \/ UNCHANGED vars
<1>1. TypeOK /\ TypeOK'
  BY DEF AuthInv
<1>2. ASSUME Total(e)' = Total(e) PROVE Trade(e)
  BY <1>2 DEF Trade
<1>3. ASSUME NEW r \in Request, OtpCalls(r) \/ SessionCalls(r) PROVE Trade(e)
  <2>1. Alone(r) /\ pc[r] \notin Carrying /\ pc'[r] \notin Carrying /\ sessions' = sessions
    BY <1>1, <1>3, CallsMove DEF Carrying
  <2>2. QED
    BY <1>1, <2>1, PlainTrade
<1>4. ASSUME NEW r \in Request, Plain(r) PROVE Trade(e)
  <2>1. /\ Alone(r) /\ pc[r] \notin Carrying /\ sessions' = sessions
        /\ pc'[r] \in Carrying => pc[r] \in {"memberships", "regCreate"} /\ pc'[r] = "save"
    BY <1>1, <1>4, PlainMove
  <2>2. QED
    BY <1>1, <2>1, PlainTrade
<1>5. ASSUME NEW r \in Request, OtpUpdate(r) \/ OtpInsert(r) PROVE Trade(e)
  <2>1. Alone(r) /\ pc[r] \notin Carrying /\ pc'[r] \notin Carrying /\ sessions' = sessions
    BY <1>1, <1>5, GotoMoves, FinishMoves DEF OtpUpdate, OtpInsert, tables, Carrying
  <2>2. QED
    BY <1>1, <2>1, PlainTrade
<1>6. ASSUME NEW r \in Request, RefreshFindUser(r) PROVE Trade(e)
  <2>1. pc[r] = "findUser" /\ pc[r] \in Carrying /\ sessions' = sessions
    BY <1>6 DEF RefreshFindUser, tables, Carrying
  <2>2. CASE Finish(r)
    BY <1>1, <2>1, <2>2, FinishMoves, EndTrade
  <2>3. CASE Goto(r, "save", loc[r])
    <3>1. Alone(r) /\ pc'[r] = "save" /\ loc'[r] = loc[r]
      BY <1>1, <2>3, GotoMoves
    <3>2. Carriers(e)' = Carriers(e) /\ LiveSessions(e)' = LiveSessions(e)
      BY <2>1, <3>1 DEF Carriers, Alone, LiveSessions, Carrying
    <3>3. Total(e)' = Total(e)
      <4>1. PICK L, C, M, D : /\ L = LiveSessions(e) /\ C = Carriers(e)
                              /\ M = LiveSessions(e)' /\ D = Carriers(e)'
        OBVIOUS
      <4>2. /\ Total(e) = Cardinality(L) + Cardinality(C)
            /\ Total(e)' = Cardinality(M) + Cardinality(D)
        BY <1>1, <4>1, TotalsOfStep
      <4>3. QED
        BY <3>2, <4>1, <4>2
    <3>4. QED
      BY <1>2, <3>3
  <2>4. QED
    BY <1>6, <2>2, <2>3 DEF RefreshFindUser
<1>7. ASSUME NEW r \in Request,
             \/ SaveRefreshToken(r) \/ RefreshRevoke(r)
             \/ LogoutRevoke(r) \/ ResetCommit(r)
      PROVE  Trade(e)
  BY <1>1, <1>2, <1>7, SaveTrade, RotateTrade, LogoutTrade, ResetTrade
<1>8. ASSUME NEW r \in Request, Abandon(r) PROVE Trade(e)
  <2>1. Alone(r) /\ pc'[r] = "idle" /\ sessions' = sessions
    BY <1>1, <1>8, FinishMoves DEF Abandon, tables
  <2>2. CASE pc[r] \in Carrying
    BY <1>1, <2>1, <2>2, EndTrade
  <2>3. CASE pc[r] \notin Carrying
    <3>1. pc'[r] \notin Carrying
      BY <2>1 DEF Carrying
    <3>2. QED
      BY <1>1, <2>1, <2>3, <3>1, PlainTrade
  <2>4. QED
    BY <2>2, <2>3
<1>9. ASSUME UNCHANGED <<pc, loc, sessions>> PROVE Trade(e)
  <2>1. PICK L, C, M, D : /\ L = LiveSessions(e) /\ C = Carriers(e)
                          /\ M = LiveSessions(e)' /\ D = Carriers(e)'
    OBVIOUS
  <2>2. /\ Total(e) = Cardinality(L) + Cardinality(C)
        /\ Total(e)' = Cardinality(M) + Cardinality(D)
    BY <1>1, <2>1, TotalsOfStep
  <2>3. L = M /\ C = D
    BY <1>9, <2>1 DEF Carriers, LiveSessions
  <2>4. QED
    BY <1>2, <2>2, <2>3
<1>10. CASE \/ \E x \in Email, row \in Changes : Administer(x, row)
            \/ \E o \in otps : ExpireOtp(o)
            \/ \E t \in resets : ExpireReset(t)
  BY <1>9, <1>10 DEF Administer, ExpireOtp, ExpireReset
<1>11. CASE \E s \in sessions : ExpireSession(s)
  BY <1>1, <1>11, ExpiryTrade
<1>12. QED
  BY <1>3, <1>4, <1>5, <1>6, <1>7, <1>8, <1>10, <1>11 DEF Next, Step, Plain

\* A refresh trades one session for one; of two that found the same row live,
\* the second adds one.  Else one is added by a sign-in only, and taken away by
\* a logout, a request that fails half-way or expiry; several by a reset.
THEOREM RefreshTradesSessionsHolds == Spec => RefreshTradesSessions
<1>1. AuthInv /\ AuthInv' /\ [Next]_vars =>
        [\A e \in Email :
           \/ Total(e)' = Total(e)
           \/ /\ Total(e)' = Total(e) + 1
              /\ \E r \in Request : Opens(r, e)
           \/ /\ Total(e)' = Total(e) - 1
              /\ \/ \E r \in Request : Ends(r, e)
                 \/ \E s \in sessions : s.email = e /\ ExpireSession(s)
           \/ /\ Total(e)' < Total(e)
              /\ \E r \in Request : ResetsIt(r, e)]_vars
  BY TradeStep DEF Trade
<1>2. QED
  BY <1>1, AuthInit, AuthStep, PTL DEF Spec, RefreshTradesSessions

=============================================================================
