-------------------------- MODULE RefreshSessions ---------------------------
(***************************************************************************)
(* AuthService: login, Google login, choice of a membership, refresh and   *)
(* logout.                                                                 *)
(***************************************************************************)
EXTENDS AuthStore

(* login and selectMembership *)

\* The password is compared with that of the row just read.  A client that
\* chooses an organization names it, one that logs in does not.
LoginRead(r, e, org) ==
    /\ Called(r, "login")
    /\ Active(e)
    /\ account[e].password > 0
    /\ Goto(r, "memberships", [email |-> e, password |-> account[e].password,
                               org |-> org])
    /\ UNCHANGED tables

\* (mutant) The first membership is taken without asking whether there is one.
Memberships_NotCounted(r) ==
    /\ pc[r] = "memberships"
    /\ LET f == loc[r]
           first == IF account[f.email].orgs = {} THEN NoOrg
                    ELSE CHOOSE o \in account[f.email].orgs : TRUE
       IN Goto(r, "save", [email |-> f.email, org |-> first, past |-> SignedIn(f.password)])
    /\ UNCHANGED tables

\* resolveLogin: none is refused, of several the client is asked to choose.
\* selectMembership: the one named, if it is active.
Memberships(r) ==
    /\ pc[r] = "memberships"
    /\ LET f == loc[r]
           orgs == account[f.email].orgs
           chosen == IF f.org # NoOrg THEN orgs \cap {f.org}
                     ELSE IF Cardinality(orgs) = 1 THEN orgs ELSE {}
       IN IF chosen = {}
          THEN Finish(r)
          ELSE \E o \in chosen :
                 Goto(r, "save", [email |-> f.email, org |-> o,
                                  past |-> SignedIn(f.password)])
    /\ UNCHANGED tables

\* generateTokens and saveRefreshToken.
SaveRefreshToken(r) ==
    /\ pc[r] = "save"
    /\ LET f == loc[r] IN
         \E id \in FreshSession :
           sessions' = sessions \cup
             {[id |-> id, email |-> f.email, org |-> f.org,
               past |-> [f.past EXCEPT !.overlapped = @ \/ r \in met], state |-> "live"]}
    /\ Finish(r)
    /\ UNCHANGED <<calls, account, otps, resets>>

----------------------------------------------------------------------------
(* loginWithGoogle *)

GoogleRead(r, e) ==
    /\ Called(r, "google")
    /\ Goto(r, IF Exists(e) THEN "googleLink" ELSE "googleCreate", [email |-> e])
    /\ UNCHANGED tables

GoogleCreate(r) ==
    /\ pc[r] = "googleCreate"
    /\ LET e == loc[r].email IN
         IF Exists(e)
         THEN Finish(r) /\ UNCHANGED account
         ELSE /\ OpenAccount(e, 0)
              /\ Goto(r, "memberships", [email |-> e, password |-> 0, org |-> NoOrg])
    /\ UNCHANGED <<calls, otps, resets, sessions>>

\* The googleId is written and never read again: it is not in the model.
GoogleLink(r) ==
    /\ pc[r] = "googleLink"
    /\ Goto(r, "googleFind", loc[r])
    /\ UNCHANGED tables

GoogleFind(r) ==
    /\ pc[r] = "googleFind"
    /\ LET e == loc[r].email IN
         IF Active(e)
         THEN Goto(r, "memberships", [email |-> e, password |-> account[e].password,
                                      org |-> NoOrg])
         ELSE Finish(r)
    /\ UNCHANGED tables

----------------------------------------------------------------------------
(* refresh *)

\* bcrypt.compare of a token with the hash of row s.  bcrypt reads the first
\* 72 bytes of its input.  Those of a refresh token hold its header and the
\* start of the user's id, so the tokens of one user all match.
Matches(token, s) == token.email = s.email

\* The past of the session that a refresh with a token gets for row s.
Refreshed(token, s) ==
    [s.past EXCEPT !.password = token.past.password,
                   !.borrowed = @ \/ token.past.borrowed \/ token.id # s.id]

\* findOne: any live row of the token's user, there is no order.  The token
\* need not be that row's, nor of a row that is live itself.
RefreshRead(r, token, s) ==
    /\ Called(r, "refresh")
    /\ token.state # "expired"
    /\ s \in LiveSessions(token.email)
    /\ Goto(r, "rotate", [row |-> s, matches |-> Matches(token, s),
                         past |-> Refreshed(token, s)])
    /\ UNCHANGED tables

\* (mutant) Rotation revokes by user, as the branch for a mismatch does.
RefreshRevoke_ByUser(r) ==
    /\ pc[r] = "rotate"
    /\ LET s == loc[r].row IN
         /\ sessions' = Revoked({x.id : x \in Unrevoked(s.email)})
         /\ IF loc[r].matches
            THEN Goto(r, "findUser", [email |-> s.email, org |-> s.org, past |-> loc[r].past])
            ELSE Finish(r)
    /\ UNCHANGED <<calls, account, otps, resets>>

\* The row is revoked by its id, revoked already or not; after a mismatch all
\* rows of the user are.
RefreshRevoke(r) ==
    /\ pc[r] = "rotate"
    /\ LET s == loc[r].row IN
         IF loc[r].matches
         THEN /\ sessions' = Revoked({s.id})
              /\ Goto(r, "findUser", [email |-> s.email, org |-> s.org, past |-> loc[r].past])
         ELSE /\ sessions' = Revoked({x.id : x \in Unrevoked(s.email)})
              /\ Finish(r)
    /\ UNCHANGED <<calls, account, otps, resets>>

\* findById; the new token is for the organization of the row.
RefreshFindUser(r) ==
    /\ pc[r] = "findUser"
    /\ IF Active(loc[r].email) THEN Goto(r, "save", loc[r]) ELSE Finish(r)
    /\ UNCHANGED tables

----------------------------------------------------------------------------
(* logout and logoutByRefreshToken *)

\* The rows not revoked are compared in turn and the first match is revoked.
LogoutRead(r, token, s) ==
    /\ Called(r, "logout")
    /\ token.state # "expired"
    /\ s \in Unrevoked(token.email)
    /\ Matches(token, s)
    /\ Goto(r, "logout", [email |-> s.email, id |-> s.id])
    /\ UNCHANGED tables

LogoutRevoke(r) ==
    /\ pc[r] = "logout"
    /\ sessions' = Revoked({loc[r].id})
    /\ Finish(r)
    /\ UNCHANGED <<calls, account, otps, resets>>

=============================================================================
