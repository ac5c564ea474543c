------------------------------ MODULE Sessions ------------------------------
(***************************************************************************)
(* Signing in with Outline: the pending logins and the sessions that the   *)
(* API keeps, the renewal of their tokens, and signing out, as the         *)
(* endpoints run them: several requests at a time, each with a database    *)
(* connection of its own, and Outline at the other end of a network.       *)
(*                                                                         *)
(* A login state is also the name of the session its callback creates and  *)
(* of the cookie that the browser gets: all three are random and used for  *)
(* nothing else.  The tokens of a session are numbered in the order in     *)
(* which Outline issues them.                                              *)
(***************************************************************************)
EXTENDS Integers, FiniteSets

CONSTANTS
  Logins,     \* login states
  Requests,   \* requests that the API serves at a time
  MaxTokens   \* bound: tokens that Outline issues for a session

ASSUME TokensAssumption == MaxTokens \in Nat \ {0}

VARIABLES
  pending,    \* oauth_logins
  overdue,    \* logins and sessions whose expires_at has passed
  row,        \* oauth_sessions: the number of the tokens stored, 0 for no row
  aging,      \* sessions whose access token is about to expire
  sealed,     \* sessions stored under an AUTORAG_SESSION_SECRET of the past
  begun,      \* login states handed out
  cookies,    \* the cookies handed out
  renewable,  \* Outline: [session -> the refresh token it accepts, 0 for none]
  accepted,   \* Outline: [session -> the access tokens it accepts]
  spent,      \* Outline: the authorization codes exchanged, by login state
  place,      \* [Requests -> where a request is: idle, purging, waiting, asking, ...]
  my,         \* [Requests -> its session, its token, whether it signs out, what it purges]
  lost,       \* history: sessions of which a renewal was lost after Outline made it
  revoked     \* history: sessions signed out with the revocation gone through

outline == <<renewable, accepted, spent>>
history == <<lost, revoked>>
stored == <<pending, overdue, row, aging, sealed>>
vars == <<stored, begun, cookies, outline, place, my, history>>

None == [of |-> "none", token |-> 0, leaving |-> FALSE, old |-> {}]

\* Mutant: the row is read without being updated, and so not locked.
RowRead(s) == s \in Logins

\* A request that renews is inside the transaction that updated the row: it holds
\* the row's lock until it commits.
RowFree(s) == \A r \in Requests : place[r] \in {"asking", "renewed"} => my[r].of # s

Init ==
  /\ pending = {} /\ overdue = {} /\ aging = {} /\ sealed = {}
  /\ row = [s \in Logins |-> 0]
  /\ begun = {} /\ cookies = {}
  /\ renewable = [s \in Logins |-> 0]
  /\ accepted = [s \in Logins |-> {}]
  /\ spent = {}
  /\ place = [r \in Requests |-> "idle"]
  /\ my = [r \in Requests |-> None]
  /\ lost = {} /\ revoked = {}

Goto(r, p) == place' = [place EXCEPT ![r] = p]
End(r) == Goto(r, "idle") /\ my' = [my EXCEPT ![r] = None]

-----------------------------------------------------------------------------
(***************************************************************************)
(* The login round trip.                                                   *)
(***************************************************************************)

\* outline_login.  now() is when its transaction began: what has expired by then is
\* what it will purge.
BeginLogin(r) ==
  /\ place[r] = "idle"
  /\ Goto(r, "purging")
  /\ my' = [my EXCEPT ![r] = [None EXCEPT !.old = overdue]]
  /\ UNCHANGED <<stored, begun, cookies, outline, history>>

\* purge_expired waits for the rows' locks (one after the other: here for all of them).
PurgeExpired(r) ==
  /\ place[r] = "purging"
  /\ \A t \in my[r].old : RowFree(t)
  /\ row' = [t \in Logins |-> IF t \in my[r].old THEN 0 ELSE row[t]]
  /\ overdue' = overdue \ my[r].old
  /\ End(r)

\* remember_login: the browser is sent to Outline with a new state.
HandOutState(r, s) ==
  /\ PurgeExpired(r)
  /\ s \notin begun
  /\ begun' = begun \cup {s}
  /\ pending' = (pending \ my[r].old) \cup {s}
  /\ UNCHANGED <<aging, sealed, cookies, outline, history>>

\* The same for a visitor who never comes back, whose state is not followed.
HandOutAndForget(r) ==
  /\ PurgeExpired(r)
  /\ pending' = pending \ my[r].old
  /\ UNCHANGED <<aging, sealed, begun, cookies, outline, history>>

\* Mutant: the login is read and stays pending.
ReadLogin(r, s) ==
  /\ place[r] = "idle"
  /\ s \in pending \ overdue
  /\ Goto(r, "exchange")
  /\ my' = [my EXCEPT ![r] = [None EXCEPT !.of = s]]
  /\ UNCHANGED <<stored, begun, cookies, outline, history>>

\* outline_callback: an unknown, used or expired state ends the request.
ClaimLogin(r, s) ==
  /\ place[r] = "idle"
  /\ s \in pending \ overdue
  /\ pending' = pending \ {s}
  /\ Goto(r, "exchange")
  /\ my' = [my EXCEPT ![r] = [None EXCEPT !.of = s]]
  /\ UNCHANGED <<overdue, row, aging, sealed, begun, cookies, outline, history>>

\* exchange.  Any failure ends the request; Outline may have issued tokens all the
\* same.
Exchange(r, answered) ==
  LET s == my[r].of IN
  /\ place[r] = "exchange"
  /\ \/ /\ s \notin spent
        /\ spent' = spent \cup {s}
        /\ renewable' = [renewable EXCEPT ![s] = 1]
        /\ accepted' = [accepted EXCEPT ![s] = @ \cup {1}]
        /\ IF answered THEN Goto(r, "create") /\ my' = my ELSE End(r)
     \/ End(r) /\ UNCHANGED outline
  /\ UNCHANGED <<stored, begun, cookies, history>>

\* Who the token belongs to is asked of Outline, which may fail; then the session
\* is stored and the cookie handed out.
CreateSession(r) ==
  LET s == my[r].of IN
  /\ place[r] = "create"
  /\ \/ /\ row' = [row EXCEPT ![s] = 1]
        /\ cookies' = cookies \cup {s}
     \/ UNCHANGED <<row, cookies>>
  /\ End(r)
  /\ UNCHANGED <<pending, overdue, aging, sealed, begun, outline, history>>

-----------------------------------------------------------------------------
(***************************************************************************)
(* A request with a cookie: a search, or signing out (leaving).            *)
(***************************************************************************)

Forget(s) == row' = [row EXCEPT ![s] = 0]

\* With the token g for s, a search commits and goes on; signing out deletes the
\* row, commits, and has the token revoked.
HandOut(r, s, g, leaving) ==
  /\ row' = [row EXCEPT ![s] = IF leaving THEN 0 ELSE g]
  /\ Goto(r, IF leaving THEN "revoking" ELSE "answering")
  /\ my' = [my EXCEPT ![r] = [None EXCEPT !.of = s, !.token = g, !.leaving = leaving]]

\* Without a session, a search is answered from the uploaded documents alone.
Stranger(r, s, g, leaving) ==
  IF leaving THEN End(r)
  ELSE Goto(r, "local") /\ my' = [my EXCEPT ![r] = [None EXCEPT !.of = s, !.token = g]]

\* resolve updates the row, and has to wait while another request has it locked.
\* Whether the session has expired is decided by now(), when the transaction began.
PresentCookie(r, s, leaving) ==
  /\ place[r] = "idle" /\ s \in cookies \ overdue
  /\ Goto(r, "waiting")
  /\ my' = [my EXCEPT ![r] = [None EXCEPT !.of = s, !.leaving = leaving]]
  /\ UNCHANGED <<stored, begun, cookies, outline, history>>

\* An expired row is not updated, and not waited for: the caller is a stranger.  Only
\* signing out goes on to delete it.
PresentExpired(r, s, leaving) ==
  /\ place[r] = "idle" /\ s \in cookies \cap overdue
  /\ Goto(r, IF leaving THEN "deleting" ELSE "local")
  /\ my' = [my EXCEPT ![r] = [None EXCEPT !.of = s]]
  /\ UNCHANGED <<stored, begun, cookies, outline, history>>

DeleteExpired(r) ==
  /\ place[r] = "deleting" /\ RowFree(my[r].of)
  /\ Forget(my[r].of)
  /\ End(r)
  /\ UNCHANGED <<pending, overdue, aging, sealed, begun, cookies, outline, history>>

\* The row is gone.
FindNoSession(r) ==
  LET s == my[r].of IN
  /\ place[r] = "waiting" /\ RowFree(s)
  /\ row[s] = 0
  /\ Stranger(r, s, 0, my[r].leaving)
  /\ UNCHANGED <<stored, begun, cookies, outline, history>>

\* The row cannot be read since the secret has changed: it is deleted.
DropSealed(r) ==
  LET s == my[r].of IN
  /\ place[r] = "waiting" /\ RowFree(s)
  /\ row[s] # 0 /\ s \in sealed
  /\ Forget(s)
  /\ Stranger(r, s, 0, my[r].leaving)
  /\ UNCHANGED <<pending, overdue, aging, sealed, begun, cookies, outline, history>>

\* The row is updated, and locked; the token is used as it is or has to be renewed
\* first.
ResolveSession(r) ==
  LET s == my[r].of IN
  /\ place[r] = "waiting" /\ RowFree(s)
  /\ row[s] # 0 /\ s \notin sealed
  /\ IF s \in aging
     THEN Goto(r, "asking") /\ my' = [my EXCEPT ![r].token = row[s]] /\ row' = row
     ELSE HandOut(r, s, row[s], my[r].leaving)
  /\ UNCHANGED <<pending, overdue, aging, sealed, begun, cookies, outline, history>>

\* refresh: Outline replaces the refresh token.
Renew(r) ==
  LET s == my[r].of IN
  /\ place[r] = "asking"
  /\ my[r].token = renewable[s] /\ renewable[s] < MaxTokens
  /\ renewable' = [renewable EXCEPT ![s] = @ + 1]
  /\ accepted' = [accepted EXCEPT ![s] = @ \cup {renewable[s] + 1}]
  /\ Goto(r, "renewed")
  /\ UNCHANGED <<stored, begun, cookies, spent, my, history>>

\* The refresh token is one that Outline has replaced.
IsReplay(r) == place[r] = "asking" /\ my[r].token # renewable[my[r].of]

\* Mutant: the session is deleted through another connection, which waits for the lock
\* that the request itself holds.
DeleteThroughAnotherConnection(r) ==
  /\ place[r] = "asking" /\ RowFree(my[r].of)
  /\ Forget(my[r].of)
  /\ Stranger(r, my[r].of, my[r].token, my[r].leaving)
  /\ UNCHANGED <<pending, overdue, aging, sealed, begun, cookies, outline, history>>

\* Outline rejects the request, or cannot be reached: the caller is signed out.
RenewInVain(r) ==
  /\ place[r] = "asking"
  /\ Forget(my[r].of)
  /\ Stranger(r, my[r].of, my[r].token, my[r].leaving)
  /\ UNCHANGED <<pending, overdue, aging, sealed, begun, cookies, outline, history>>

\* Mutant: the caller gets the token that was stored before the renewal.
HandOutEarlierToken(r) ==
  LET s == my[r].of  leaving == my[r].leaving IN
  /\ place[r] = "renewed"
  /\ row' = [row EXCEPT ![s] = IF leaving THEN 0 ELSE renewable[s]]
  /\ Goto(r, IF leaving THEN "revoking" ELSE "answering")
  /\ my' = my
  /\ aging' = aging \ {s}
  /\ UNCHANGED <<pending, overdue, sealed, begun, cookies, outline, history>>

\* Mutant: the new expiry is stored, the tokens are not.
StoreExpiryOnly(r) ==
  /\ place[r] = "renewed"
  /\ HandOut(r, my[r].of, my[r].token, my[r].leaving)
  /\ aging' = aging \ {my[r].of}
  /\ UNCHANGED <<pending, overdue, sealed, begun, cookies, outline, history>>

\* _store_tokens and the commit.
StoreTokens(r) ==
  /\ place[r] = "renewed"
  /\ HandOut(r, my[r].of, renewable[my[r].of], my[r].leaving)
  /\ aging' = aging \ {my[r].of}
  /\ UNCHANGED <<pending, overdue, sealed, begun, cookies, outline, history>>

\* The answer to a renewal never arrives: the caller is signed out.
LoseAnswer(r) ==
  /\ place[r] = "renewed"
  /\ Forget(my[r].of)
  /\ lost' = lost \cup {my[r].of}
  /\ Stranger(r, my[r].of, my[r].token, my[r].leaving)
  /\ UNCHANGED <<pending, overdue, aging, sealed, begun, cookies, outline, revoked>>

\* The search uses the token, and is refused when Outline rejects it or is not
\* reached (AccessCache); or it is a stranger's.
Answer(r) ==
  /\ place[r] \in {"answering", "local"}
  /\ End(r)
  /\ UNCHANGED <<stored, begun, cookies, outline, history>>

\* revoke is best effort.
Revoke(r, reached) ==
  LET s == my[r].of IN
  /\ place[r] = "revoking"
  /\ IF reached
     THEN /\ accepted' = [accepted EXCEPT ![s] = @ \ {my[r].token}]
          /\ revoked' = revoked \cup {s}
     ELSE UNCHANGED <<accepted, revoked>>
  /\ End(r)
  /\ UNCHANGED <<stored, begun, cookies, renewable, spent, lost>>

-----------------------------------------------------------------------------
(***************************************************************************)
(* Time and failure.                                                       *)
(***************************************************************************)

\* REFRESH_MARGIN_SECONDS before an access token expires its session counts as
\* aging; the margin is taken to be longer than it takes to store a token that has
\* been issued (the timeouts of the calls in between).
Age(s) ==
  /\ row[s] # 0 /\ s \notin aging /\ RowFree(s)
  /\ row[s] < MaxTokens
  /\ aging' = aging \cup {s}
  /\ UNCHANGED <<pending, overdue, row, sealed, begun, cookies, outline, place, my, history>>

AccessExpires(s) ==
  /\ \E g \in accepted[s] :
       /\ g # row[s] \/ s \in aging
       /\ \A r \in Requests :
            place[r] \in {"create", "renewed"} /\ my[r].of = s => g < renewable[s]
       /\ accepted' = [accepted EXCEPT ![s] = @ \ {g}]
  /\ UNCHANGED <<stored, begun, cookies, renewable, spent, place, my, history>>

\* expires_at of a login or of a session.
Expire(s) ==
  /\ s \in pending \/ row[s] # 0
  /\ s \notin overdue
  /\ overdue' = overdue \cup {s}
  /\ UNCHANGED <<pending, row, aging, sealed, begun, cookies, outline, place, my, history>>

\* A process of the API ends in the middle of a request: its transaction rolls back.
Abandon(r) ==
  /\ place[r] # "idle"
  /\ End(r)
  /\ lost' = IF place[r] = "renewed" THEN lost \cup {my[r].of} ELSE lost
  /\ UNCHANGED <<stored, begun, cookies, outline, revoked>>

\* The API is started with another secret.
ChangeSecret ==
  /\ \A r \in Requests : place[r] = "idle"
  /\ \E s \in Logins : row[s] # 0 /\ s \notin sealed
  /\ sealed' = {s \in Logins : row[s] # 0}
  /\ UNCHANGED <<pending, overdue, row, aging, begun, cookies, outline, place, my, history>>

Arrive(r) ==
  \/ BeginLogin(r)
  \/ \E s \in Logins : ClaimLogin(r, s)
  \/ \E s \in Logins, leaving \in BOOLEAN : PresentCookie(r, s, leaving) \/ PresentExpired(r, s, leaving)

\* Steps that wait for the locks of rows.
LockStep(r) ==
  \/ \E s \in Logins : HandOutState(r, s)
  \/ HandOutAndForget(r)
  \/ FindNoSession(r) \/ DropSealed(r) \/ ResolveSession(r) \/ DeleteExpired(r)

\* Steps that wait for Outline, or for nothing.
RequestStep(r) ==
  \/ \E answered \in BOOLEAN : Exchange(r, answered)
  \/ CreateSession(r)
  \/ Renew(r) \/ RenewInVain(r) \/ StoreTokens(r) \/ LoseAnswer(r)
  \/ Answer(r)
  \/ \E reached \in BOOLEAN : Revoke(r, reached)

Next ==
  \/ \E s \in Logins : Age(s) \/ AccessExpires(s) \/ Expire(s)
  \/ \E r \in Requests : Arrive(r) \/ LockStep(r) \/ RequestStep(r) \/ Abandon(r)
  \/ ChangeSecret

Spec == Init /\ [][Next]_vars

\* A request that the API has begun goes on: every call to Outline has a timeout, and
\* PostgreSQL gives a row's lock to those who wait for it in turn.
FairSpec == Spec /\ \A r \in Requests : WF_vars(RequestStep(r)) /\ SF_vars(LockStep(r))

-----------------------------------------------------------------------------
(***************************************************************************)
(* Properties.                                                             *)
(***************************************************************************)

\* An authorization code goes to Outline once: two callbacks with the same state,
\* one after the other or at the same time, do not both get to exchange it.
CodeIsExchangedOnce ==
  \A r \in Requests : place[r] = "exchange" => my[r].of \notin spent

\* Requests of one session never race each other out of it: the refresh token
\* that one presents has not been used up by another, unless a renewal was lost on
\* its way back.
NoRefreshTokenReplay ==
  \A r \in Requests : IsReplay(r) => my[r].of \in lost

\* A token that is handed out is one that Outline accepts, and while nobody renews
\* and nothing was lost, what is stored is what Outline will renew.
StoredTokenWorks ==
  \A s \in Logins : row[s] # 0 =>
    /\ s \notin aging => row[s] \in accepted[s]
    /\ RowFree(s) /\ s \notin lost => row[s] = renewable[s]

\* Once signing out has gone through, Outline accepts the session's latest access
\* token no more and no row is left, whatever renewals were under way.
SignOutRevokesLatest ==
  \A s \in revoked : renewable[s] \notin accepted[s] /\ row[s] = 0

\* A caller whose session is good does not get a stranger's answer because Outline
\* could not be reached: that would look like an empty wiki.  (The code: see the
\* findings.)
OutageIsNotAnEmptyWiki ==
  \A r \in Requests : place[r] = "local" /\ my[r].token # 0 =>
    my[r].token # renewable[my[r].of]

\* Every request ends, also the ones that wait for a row: another request may hold it
\* while it waits for Outline, be about to delete it, or die with it, and whichever way
\* a renewal goes the lock is given up and all who wait for it are served.
RequestsEnd == \A r \in Requests : place[r] # "idle" ~> place[r] = "idle"
=============================================================================
