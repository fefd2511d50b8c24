--------------------------- MODULE Authentication ---------------------------
(***************************************************************************)
(* AuthService: the endpoints of OneTimePasswords and RefreshSessions on   *)
(* the same accounts.                                                      *)
(***************************************************************************)
EXTENDS OneTimePasswords, RefreshSessions

CONSTANTS
    Starts,             \* where behaviours start, and the endpoints they call
    Changes             \* the accounts an administrator may turn one into

\* A reset token is given to an account.
ASSUME InitialAssumption ==
    /\ Starts \subseteq [calls: SUBSET Endpoint, account: Accounts,
                          resets: SUBSET ResetToken]
    /\ \A s \in Starts : \A t \in s.resets : s.account[t.email] # NoAccount
    /\ Changes \subseteq AccountRow

Init ==
    /\ \E s \in Starts : calls = s.calls /\ account = s.account /\ resets = s.resets
    /\ otps = {}
    /\ sessions = {}
    /\ pc = [r \in Request |-> "idle"]
    /\ loc = [r \in Request |-> NoFrame]
    /\ met = {}

OtpCalls(r) ==
    \/ \E e \in Email : RegistrationRead(r, e) \/ ForgotRead(r, e)
    \/ \E o \in otps : RegistrationMatch(r, o) \/ ResetMatch(r, o)
    \/ \E t \in resets : ResetStart(r, t)

SessionCalls(r) ==
    \/ \E e \in Email : \/ GoogleRead(r, e)
                        \/ \E org \in Org \cup {NoOrg} : LoginRead(r, e, org)
    \/ \E token, s \in sessions : RefreshRead(r, token, s) \/ LogoutRead(r, token, s)

Step(r) ==
    \/ OtpUpdate(r) \/ OtpInsert(r)
    \/ RegistrationExists(r) \/ RegistrationCreate(r)
    \/ ResetSign(r) \/ ResetRevoke(r) \/ ResetCommit(r)
    \/ Memberships(r) \/ SaveRefreshToken(r)
    \/ GoogleCreate(r) \/ GoogleLink(r) \/ GoogleFind(r)
    \/ RefreshRevoke(r) \/ RefreshFindUser(r) \/ LogoutRevoke(r)

Next ==
    \/ \E r \in Request : OtpCalls(r) \/ SessionCalls(r) \/ Step(r) \/ Abandon(r)
    \/ \E e \in Email, row \in Changes : Administer(e, row)
    \/ \E o \in otps : ExpireOtp(o)
    \/ \E t \in resets : ExpireReset(t)
    \/ \E s \in sessions : ExpireSession(s)

Spec == Init /\ [][Next]_vars

----------------------------------------------------------------------------
(* Type invariant *)

\* Every variable has the type of its columns or locals, and no two rows have
\* the same primary key.
TypeOK ==
    /\ calls \subseteq Endpoint
    /\ account \in Accounts
    /\ otps \subseteq OtpRow
    /\ \A x, y \in otps : x.id = y.id => x = y
    /\ resets \subseteq ResetToken
    /\ sessions \subseteq SessionRow
    /\ \A x, y \in sessions : x.id = y.id => x = y
    /\ pc \in [Request -> PC]
    /\ DOMAIN loc = Request
    /\ \A r \in Request : loc[r] \in FrameOf(pc[r])
    /\ met \in SUBSET {r \in Request : pc[r] # "idle"}

----------------------------------------------------------------------------
(* Properties *)

\* A new one-time password takes the place of the others of its email, for
\* whatever purpose they were.  Overlapping transactions do not see each
\* other's row, but each marks those committed before its UPDATE, among them
\* what its own slot left: there are never more live ones than requests
\* overlap.  With one request at a time there is one.
LiveOtpBounded ==
    \A e \in Email : Cardinality(LiveOtps(e)) <= Cardinality(Request)

\* resetPassword ends every session of the account.  From then on a live one
\* stands, row by row, in the place of one that was opened with the current
\* password; and unless a refresh on the way found another row than its token's,
\* its user proved who they were with that password.  Only a request that was
\* in flight during the reset may leave another.
ResetEndsSessions ==
    \A e \in Email : \A s \in LiveSessions(e) :
      \/ s.past.overlapped
      \/ /\ s.past.place = account[e].password
         /\ s.past.password = account[e].password \/ s.past.borrowed

\* A request that has yet to store the session it has granted.
Carrying == {"findUser", "save"}

\* The sessions of e: live rows, and those a request is about to store.
Total(e) ==
    Cardinality(LiveSessions(e))
      + Cardinality({r \in Request : pc[r] \in Carrying /\ loc[r].email = e})

\* Request r, of e, has this step add a session: the user signs in, or the row
\* that a refresh revokes is not what it was when it was found: since then
\* another request revoked it or it expired.
Opens(r, e) ==
    \/ /\ pc[r] \in {"memberships", "regCreate"} /\ pc'[r] = "save"
       /\ loc'[r].email = e
    \/ /\ pc[r] = "rotate" /\ pc'[r] = "findUser"
       /\ loc[r].row.email = e /\ loc[r].row \notin sessions

\* Request r, of e, has it take one away: a logout, or a refresh or sign-in that
\* is refused or fails before the session is stored.
Ends(r, e) ==
    /\ pc[r] \in Carrying \cup {"logout"} /\ pc'[r] = "idle"
    /\ loc[r].email = e
    /\ pc[r] \in Carrying => sessions' = sessions

\* Request r commits a reset of e.
ResetsIt(r, e) == pc[r] = "resetCommit" /\ pc'[r] = "idle" /\ loc[r].email = e

\* A refresh trades one session for one, whichever live row of the user it
\* finds, and leaves the others and other users alone.  Two sessions for one is
\* what refreshes give that find the same row while it is live.  Otherwise a
\* session comes with a sign-in only, and one goes with a logout, which may
\* revoke any row of its user, with a request that fails half-way, with expiry;
\* several go with a reset only.
RefreshTradesSessions ==
    [][\A e \in Email :
         \/ Total(e)' = Total(e)
         \/ /\ Total(e)' = Total(e) + 1
            /\ \E r \in Request : Opens(r, e)
         \/ /\ Total(e)' = Total(e) - 1
            /\ \/ \E r \in Request : Ends(r, e)
               \/ \E s \in sessions : s.email = e /\ ExpireSession(s)
         \/ /\ Total(e)' < Total(e)
            /\ \E r \in Request : ResetsIt(r, e)]_vars

=============================================================================
