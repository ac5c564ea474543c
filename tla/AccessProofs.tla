---------------------------- MODULE AccessProofs ----------------------------
(***************************************************************************)
(* Proofs about who is let in and what they may search: Sessions and       *)
(* AccessCache, for any number of logins, requests and collections.        *)
(***************************************************************************)
EXTENDS Sessions, AccessCache, RankingProofs

-----------------------------------------------------------------------------
(***************************************************************************)
(* Sessions: any number of login states and requests, and any number of    *)
(* tokens.                                                                 *)
(***************************************************************************)

Stages == {"idle", "purging", "exchange", "create", "waiting", "deleting", "asking", "renewed",
           "answering", "local", "revoking"}

Private == [of: Logins \cup {"none"}, token: 0..MaxTokens, leaving: BOOLEAN, old: SUBSET Logins]

TypeOK ==
  /\ pending \subseteq Logins /\ overdue \subseteq Logins
  /\ begun \subseteq Logins /\ cookies \subseteq Logins
  /\ spent \subseteq Logins /\ lost \subseteq Logins /\ revoked \subseteq Logins
  /\ row \in [Logins -> 0..MaxTokens]
  /\ renewable \in [Logins -> 0..MaxTokens]
  /\ accepted \in [Logins -> SUBSET (1..MaxTokens)]
  /\ place \in [Requests -> Stages]
  /\ my \in [Requests -> Private]

Locking(r) == place[r] \in {"asking", "renewed"}
Queueing(r) == place[r] \in {"waiting", "deleting"}
Working(r) == place[r] \in {"exchange", "create", "waiting", "deleting", "asking", "renewed", "revoking"}

\* A login is pending, then exchanged, then a session, for one request each time.
LoginInv ==
  /\ pending \cup spent \subseteq begun /\ pending \cap spent = {}
  /\ cookies \subseteq spent /\ lost \cup revoked \subseteq cookies
  /\ \A s \in Logins : s \notin cookies => row[s] = 0
  /\ \A r \in Requests :
       /\ Working(r) => my[r].of \in Logins
       /\ place[r] = "exchange" => my[r].of \in begun \ (pending \cup spent)
       /\ place[r] = "create" => my[r].of \in spent \ cookies
       /\ Queueing(r) => my[r].of \in cookies
  /\ \A r, q \in Requests :
       r # q /\ place[r] \in {"exchange", "create"} /\ place[q] \in {"exchange", "create"} =>
         my[r].of # my[q].of

\* One request at a time renews a session's tokens, and works on what is stored.
LockInv ==
  /\ \A r \in Requests : Locking(r) =>
       my[r].of \in cookies /\ row[my[r].of] = my[r].token /\ row[my[r].of] # 0 /\ my[r].of \in aging
  /\ \A r, q \in Requests : r # q /\ Locking(r) /\ Locking(q) => my[r].of # my[q].of

\* What a request will store or have revoked is what Outline has issued last.
IssuedInv ==
  \A r \in Requests :
    /\ place[r] = "create" => renewable[my[r].of] = 1 /\ 1 \in accepted[my[r].of]
    /\ place[r] = "renewed" =>
         /\ renewable[my[r].of] = my[r].token + 1 /\ my[r].of \notin lost
         /\ renewable[my[r].of] \in accepted[my[r].of]
    /\ place[r] = "revoking" =>
         my[r].of \in cookies /\ row[my[r].of] = 0 /\ my[r].token = renewable[my[r].of]

\* What is stored is what Outline has issued last, unless a request is about to store
\* a later token or one was lost; a session that has lost one can only be renewed, in
\* vain.
StoredInv ==
  \A s \in Logins : row[s] # 0 =>
    /\ s \notin aging => row[s] \in accepted[s]
    /\ s \notin lost =>
         row[s] = renewable[s] \/ \E r \in Requests : place[r] = "renewed" /\ my[r].of = s
    /\ s \in lost => s \in aging /\ row[s] # renewable[s]

IInv == TypeOK /\ LoginInv /\ LockInv /\ IssuedInv /\ StoredInv /\ SignOutRevokesLatest

\* A step of a request moves no other.
Alone(r) == \A q \in Requests \ {r} : place'[q] = place[q] /\ my'[q] = my[q]

\* Every state a request can be left in without a right to anything.
Harmless == {"idle", "answering", "local"}

LEMMA InitInv == Init => IInv
BY TokensAssumption
   DEF Init, IInv, TypeOK, LoginInv, LockInv, IssuedInv, StoredInv, SignOutRevokesLatest, None,
       Private, Stages, Locking, Working, Queueing

LEMMA NoneType == None \in Private /\ \A old \in SUBSET Logins : [None EXCEPT !.old = old] \in Private
<1>1. None \in Private
  <2>1. "none" \in Logins \cup {"none"} /\ 0 \in 0..MaxTokens /\ {} \in SUBSET Logins
    BY TokensAssumption
  <2> QED
    BY <2>1 DEF None, Private
<1> QED
  BY <1>1 DEF Private

LEMMA EndAlone ==
  ASSUME TypeOK, NEW r \in Requests, End(r)
  PROVE  Alone(r) /\ place'[r] = "idle" /\ place' \in [Requests -> Stages]
         /\ my' \in [Requests -> Private]
BY TokensAssumption DEF TypeOK, End, Goto, None, Private, Alone, Stages

LEMMA StrangerAlone ==
  ASSUME TypeOK, NEW r \in Requests, NEW s \in Logins, NEW g \in 0..MaxTokens,
         NEW leaving \in BOOLEAN, Stranger(r, s, g, leaving)
  PROVE  Alone(r) /\ place'[r] \in Harmless /\ place' \in [Requests -> Stages]
         /\ my' \in [Requests -> Private]
<1>1. CASE leaving
  BY <1>1, EndAlone DEF Stranger, Harmless
<1>2. CASE ~leaving
  <2>1. PICK rec \in Private : place' = [place EXCEPT ![r] = "local"] /\ my' = [my EXCEPT ![r] = rec]
    <3>1. [None EXCEPT !.of = s, !.token = g] \in Private
      BY NoneType DEF Private
    <3> QED
      BY <1>2, <3>1 DEF Stranger, Goto
  <2> QED
    BY <2>1 DEF TypeOK, Alone, Stages, Harmless
<1> QED
  BY <1>1, <1>2

\* A request that gives up its place and may delete the row it has locked, or one that
\* nobody has locked.
LEMMA GiveUpStep ==
  ASSUME IInv, NEW r \in Requests, Alone(r), place'[r] \in Harmless,
         place' \in [Requests -> Stages],
         my' \in [Requests -> Private],
         \/ row' = row /\ place[r] # "renewed"
         \/ \E s \in Logins :
              /\ row' = [row EXCEPT ![s] = 0]
              /\ \A q \in Requests \ {r} : Locking(q) => my[q].of # s
              /\ place[r] = "renewed" => my[r].of = s,
         lost' = lost \/ (lost' = lost \cup {my[r].of} /\ row'[my[r].of] = 0 /\ my[r].of \in cookies),
         UNCHANGED <<pending, overdue, begun, cookies, aging, outline, revoked>>
  PROVE  IInv'
<1>1. row' \in [Logins -> 0..MaxTokens] /\ \A s \in Logins : row'[s] \in {row[s], 0}
  BY TokensAssumption DEF IInv, TypeOK
<1>2. UNCHANGED <<spent, renewable, accepted>>
  BY DEF outline
<1>3. TypeOK'
  BY <1>1, <1>2 DEF IInv, TypeOK, LoginInv
<1>4. \A q \in Requests : Working(q)' \/ place'[q] = "exchange" => q # r /\ place'[q] = place[q] /\ my'[q] = my[q]
  BY DEF Alone, Working, Harmless
<1>5. LoginInv'
  BY <1>1, <1>2, <1>4 DEF IInv, LoginInv, Working, Queueing
<1>6. \A q \in Requests : Locking(q)' => q # r /\ Locking(q) /\ row'[my[q].of] = row[my[q].of]
  BY <1>4 DEF Locking, Working, IInv, TypeOK, LoginInv
<1>7. LockInv'
  BY <1>4, <1>6 DEF IInv, LockInv, Locking, Working
<1>8. \A q \in Requests : place'[q] = "renewed" => my[q].of \notin lost'
  BY <1>4, <1>6 DEF IInv, IssuedInv, LockInv, Locking, Working
<1>9. IssuedInv'
  BY <1>1, <1>2, <1>4, <1>8 DEF IInv, IssuedInv, LoginInv, Working, Queueing
<1>10. \A s \in Logins : row'[s] # 0 =>
         /\ row'[s] = row[s] /\ (s \in lost' => s \in lost)
         /\ (\E q \in Requests : place[q] = "renewed" /\ my[q].of = s) =>
              \E q \in Requests : place'[q] = "renewed" /\ my'[q].of = s
  BY <1>1 DEF Alone, IInv, TypeOK
<1>11. StoredInv'
  BY <1>2, <1>10 DEF IInv, StoredInv
<1>12. SignOutRevokesLatest'
  BY <1>1, <1>2 DEF IInv, SignOutRevokesLatest, TypeOK
<1> QED
  BY <1>3, <1>5, <1>7, <1>9, <1>11, <1>12 DEF IInv

-----------------------------------------------------------------------------
(***************************************************************************)
(* The login round trip.                                                   *)
(***************************************************************************)

\* A request that arrives and has to wait has no right to anything yet.
LEMMA ArriveStep ==
  ASSUME IInv, NEW r \in Requests, NEW p \in {"purging", "waiting", "deleting", "local"},
         NEW rec \in Private, p # "purging" => rec.of \in cookies,
         place[r] = "idle", place' = [place EXCEPT ![r] = p], my' = [my EXCEPT ![r] = rec],
         UNCHANGED <<stored, begun, cookies, outline, history>>
  PROVE  IInv'
<1>1. /\ Alone(r) /\ place'[r] = p /\ my'[r] = rec
      /\ place' \in [Requests -> Stages] /\ my' \in [Requests -> Private]
  BY DEF IInv, TypeOK, Alone, Stages
<1>2. UNCHANGED <<pending, overdue, row, aging, begun, cookies, renewable, accepted, spent, lost, revoked>>
  BY DEF stored, outline, history
<1>3. TypeOK'
  BY <1>1, <1>2 DEF IInv, TypeOK
<1>4. rec.of \in cookies => rec.of \in Logins
  BY DEF IInv, TypeOK
<1>5. LoginInv'
  BY <1>1, <1>2, <1>4 DEF IInv, LoginInv, Working, Queueing, Alone
<1>6. LockInv'
  BY <1>1, <1>2 DEF IInv, LockInv, Locking, Alone
<1>7. IssuedInv'
  BY <1>1, <1>2 DEF IInv, IssuedInv, Alone
<1>8. \A t \in Logins : (\E q \in Requests : place[q] = "renewed" /\ my[q].of = t) =>
                          \E q \in Requests : place'[q] = "renewed" /\ my'[q].of = t
  BY <1>1 DEF Alone
<1>9. StoredInv' /\ SignOutRevokesLatest'
  BY <1>2, <1>8 DEF IInv, StoredInv, SignOutRevokesLatest
<1> QED
  BY <1>3, <1>5, <1>6, <1>7, <1>9 DEF IInv

LEMMA BeginLoginStep ==
  ASSUME IInv, NEW r \in Requests, BeginLogin(r)
  PROVE  IInv'
<1>1. [None EXCEPT !.old = overdue] \in Private
  BY NoneType DEF IInv, TypeOK
<1> QED
  BY <1>1, ArriveStep DEF BeginLogin, Goto

\* Purging logins and sessions leaves alone what a request has locked.
LEMMA PurgeStep ==
  ASSUME IInv, NEW r \in Requests, (\E s \in Logins : HandOutState(r, s)) \/ HandOutAndForget(r)
  PROVE  IInv'
<1> DEFINE old == my[r].old
<1>1. /\ place[r] = "purging" /\ End(r)
      /\ \A t \in old : RowFree(t)
      /\ row' = [t \in Logins |-> IF t \in old THEN 0 ELSE row[t]]
      /\ overdue' \subseteq overdue
      /\ UNCHANGED <<aging, sealed, cookies, outline, history>>
      /\ begun \subseteq begun' /\ begun' \subseteq Logins
      /\ pending' \subseteq pending \cup (begun' \ begun)
  BY DEF HandOutState, HandOutAndForget, PurgeExpired, IInv, TypeOK
<1> HIDE DEF old
<1>2. UNCHANGED <<spent, renewable, accepted, lost, revoked>>
  BY <1>1 DEF outline, history
<1>3. /\ Alone(r) /\ place'[r] = "idle" /\ place' \in [Requests -> Stages]
      /\ my' \in [Requests -> Private]
  BY <1>1, EndAlone DEF IInv
<1>4. \A q \in Requests : Locking(q) => row'[my[q].of] = row[my[q].of]
  BY <1>1 DEF RowFree, Locking, IInv, LockInv, TypeOK, LoginInv
<1>5. row' \in [Logins -> 0..MaxTokens] /\ \A s \in Logins : row'[s] \in {row[s], 0}
  BY <1>1, TokensAssumption DEF IInv, TypeOK
<1>6. TypeOK'
  BY <1>1, <1>2, <1>3, <1>5 DEF IInv, TypeOK, LoginInv
<1>7. LoginInv'
  BY <1>1, <1>2, <1>3, <1>5 DEF IInv, LoginInv, Working, Queueing, Alone
<1>8. LockInv'
  BY <1>1, <1>3, <1>4 DEF IInv, LockInv, Locking, Alone
<1>9. IssuedInv'
  BY <1>1, <1>2, <1>3, <1>5 DEF IInv, IssuedInv, LoginInv, Working, Queueing, Alone
<1>10. \A t \in Logins : (\E q \in Requests : place[q] = "renewed" /\ my[q].of = t) =>
                           \E q \in Requests : place'[q] = "renewed" /\ my'[q].of = t
  BY <1>1, <1>3 DEF Alone
<1>11. StoredInv'
  BY <1>1, <1>2, <1>5, <1>10 DEF IInv, StoredInv
<1>12. SignOutRevokesLatest'
  BY <1>2, <1>5 DEF IInv, SignOutRevokesLatest, TypeOK
<1> QED
  BY <1>6, <1>7, <1>8, <1>9, <1>11, <1>12 DEF IInv

LEMMA ClaimStep ==
  ASSUME IInv, NEW r \in Requests, NEW s \in Logins, ClaimLogin(r, s)
  PROVE  IInv'
<1>1. /\ place[r] = "idle" /\ s \in pending
      /\ pending' = pending \ {s}
      /\ place' = [place EXCEPT ![r] = "exchange"]
      /\ UNCHANGED <<overdue, row, aging, begun, cookies, renewable, accepted, spent, lost, revoked>>
  BY DEF ClaimLogin, Goto, outline, history
<1>2. PICK rec \in Private : rec.of = s /\ my' = [my EXCEPT ![r] = rec]
  <2>1. [None EXCEPT !.of = s] \in Private /\ [None EXCEPT !.of = s].of = s
    <3>1. None \in Private
      BY NoneType
    <3> QED
      BY <3>1 DEF Private
  <2> QED
    BY <2>1 DEF ClaimLogin
<1>3. /\ Alone(r) /\ place'[r] = "exchange" /\ my'[r].of = s
      /\ place' \in [Requests -> Stages] /\ my' \in [Requests -> Private]
  BY <1>1, <1>2 DEF IInv, TypeOK, Alone, Stages
<1>4. TypeOK'
  BY <1>1, <1>3 DEF IInv, TypeOK
<1>5. LoginInv'
  BY <1>1, <1>3 DEF IInv, LoginInv, Working, Queueing, Alone
<1>6. LockInv'
  BY <1>1, <1>3 DEF IInv, LockInv, Locking, Alone
<1>7. IssuedInv'
  BY <1>1, <1>3 DEF IInv, IssuedInv, Alone
<1>8. \A t \in Logins : (\E q \in Requests : place[q] = "renewed" /\ my[q].of = t) =>
                          \E q \in Requests : place'[q] = "renewed" /\ my'[q].of = t
  BY <1>1, <1>3 DEF Alone
<1>9. StoredInv' /\ SignOutRevokesLatest'
  BY <1>1, <1>8 DEF IInv, StoredInv, SignOutRevokesLatest
<1> QED
  BY <1>4, <1>5, <1>6, <1>7, <1>9 DEF IInv

\* Outline issues the first tokens of a session that nobody else can have.
LEMMA ExchangeStep ==
  ASSUME IInv, NEW r \in Requests, NEW answered \in BOOLEAN, Exchange(r, answered)
  PROVE  IInv'
<1> DEFINE s == my[r].of
<1>1. /\ place[r] = "exchange" /\ s \in begun \ (pending \cup spent) /\ s \in Logins
      /\ UNCHANGED <<pending, overdue, row, aging, begun, cookies, lost, revoked>>
  BY DEF Exchange, stored, history, IInv, LoginInv, Working, Queueing
<1>2. CASE End(r) /\ UNCHANGED outline
  BY <1>1, <1>2, EndAlone, GiveUpStep DEF Harmless, IInv
<1>3. CASE /\ spent' = spent \cup {s}
           /\ renewable' = [renewable EXCEPT ![s] = 1]
           /\ accepted' = [accepted EXCEPT ![s] = @ \cup {1}]
           /\ IF answered THEN Goto(r, "create") /\ my' = my ELSE End(r)
  <2>1. /\ Alone(r) /\ place'[r] \in {"create", "idle"} /\ (place'[r] = "create" => my'[r] = my[r])
        /\ place' \in [Requests -> Stages] /\ my' \in [Requests -> Private]
    <3>1. CASE answered
      BY <1>3, <3>1 DEF IInv, TypeOK, Goto, Alone, Stages
    <3>2. CASE ~answered
      BY <1>3, <3>2, EndAlone DEF IInv
    <3> QED
      BY <3>1, <3>2
  <2>2. /\ renewable' \in [Logins -> 0..MaxTokens] /\ renewable'[s] = 1
        /\ accepted' \in [Logins -> SUBSET (1..MaxTokens)] /\ 1 \in accepted'[s]
        /\ \A t \in Logins \ {s} : renewable'[t] = renewable[t] /\ accepted'[t] = accepted[t]
    BY <1>1, <1>3, TokensAssumption DEF IInv, TypeOK
  <2>3. s \notin cookies /\ s \notin lost /\ s \notin revoked /\ row[s] = 0
    BY <1>1 DEF IInv, LoginInv
  <2> HIDE DEF s
  <2>4. TypeOK'
    BY <1>1, <1>3, <2>1, <2>2 DEF IInv, TypeOK
  <2>5. LoginInv'
    BY <1>1, <1>3, <2>1, <2>3 DEF IInv, LoginInv, Working, Queueing, Alone, s
  <2>6. LockInv'
    BY <1>1, <2>1 DEF IInv, LockInv, Locking, Alone
  <2>7. \A q \in Requests \ {r} : place[q] \in {"create", "renewed", "revoking"} =>
           my[q].of # s /\ my[q].of \in Logins
    BY <1>1, <2>3 DEF IInv, LoginInv, LockInv, IssuedInv, Locking, Working, s
  <2>8. IssuedInv'
    BY <1>1, <2>1, <2>2, <2>7 DEF IInv, IssuedInv, Alone, s
  <2>9. \A t \in Logins : (\E q \in Requests : place[q] = "renewed" /\ my[q].of = t) =>
                            \E q \in Requests : place'[q] = "renewed" /\ my'[q].of = t
    BY <1>1, <2>1 DEF Alone
  <2>10. StoredInv'
    BY <1>1, <2>2, <2>3, <2>9 DEF IInv, StoredInv
  <2>11. SignOutRevokesLatest'
    BY <1>1, <2>2, <2>3 DEF IInv, SignOutRevokesLatest, TypeOK
  <2> QED
    BY <2>4, <2>5, <2>6, <2>8, <2>10, <2>11 DEF IInv
<1> QED
  BY <1>2, <1>3 DEF Exchange

LEMMA CreateStep ==
  ASSUME IInv, NEW r \in Requests, CreateSession(r)
  PROVE  IInv'
<1> DEFINE s == my[r].of
<1>1. /\ place[r] = "create" /\ End(r) /\ s \in spent \ cookies /\ s \in Logins
      /\ row[s] = 0 /\ renewable[s] = 1 /\ 1 \in accepted[s]
      /\ UNCHANGED <<pending, overdue, aging, begun, outline, lost, revoked>>
  BY DEF CreateSession, history, IInv, LoginInv, IssuedInv, Working
<1>2. CASE UNCHANGED <<row, cookies>>
  BY <1>1, <1>2, EndAlone, GiveUpStep DEF Harmless, IInv
<1>3. CASE row' = [row EXCEPT ![s] = 1] /\ cookies' = cookies \cup {s}
  <2>1. /\ Alone(r) /\ place'[r] = "idle"
        /\ place' \in [Requests -> Stages] /\ my' \in [Requests -> Private]
        /\ UNCHANGED <<renewable, accepted, spent>>
    BY <1>1, EndAlone DEF IInv, outline
  <2>2. /\ row' \in [Logins -> 0..MaxTokens] /\ row'[s] = 1
        /\ \A t \in Logins \ {s} : row'[t] = row[t]
    BY <1>1, <1>3, TokensAssumption DEF IInv, TypeOK
  <2>3. s \notin lost /\ s \notin revoked
    BY <1>1 DEF IInv, LoginInv
  <2>4. \A q \in Requests \ {r} : place[q] \in {"create", "asking", "renewed", "revoking"} =>
           my[q].of # s /\ my[q].of \in Logins
    BY <1>1 DEF IInv, LoginInv, LockInv, IssuedInv, Locking, Working
  <2> HIDE DEF s
  <2>5. TypeOK'
    BY <1>1, <1>3, <2>1, <2>2 DEF IInv, TypeOK
  <2>6. LoginInv'
    BY <1>1, <1>3, <2>1, <2>2, <2>4 DEF IInv, LoginInv, Working, Queueing, Alone
  <2>7. LockInv'
    BY <1>1, <1>3, <2>1, <2>2, <2>4 DEF IInv, LockInv, Locking, Alone
  <2>8. IssuedInv'
    BY <1>1, <1>3, <2>1, <2>2, <2>4 DEF IInv, IssuedInv, Alone
  <2>9. \A t \in Logins : (\E q \in Requests : place[q] = "renewed" /\ my[q].of = t) =>
                            \E q \in Requests : place'[q] = "renewed" /\ my'[q].of = t
    BY <1>1, <2>1 DEF Alone
  <2>10. StoredInv'
    BY <1>1, <2>1, <2>2, <2>3, <2>9 DEF IInv, StoredInv
  <2>11. SignOutRevokesLatest'
    BY <1>1, <2>1, <2>2, <2>3 DEF IInv, SignOutRevokesLatest, TypeOK
  <2> QED
    BY <2>5, <2>6, <2>7, <2>8, <2>10, <2>11 DEF IInv
<1> QED
  BY <1>2, <1>3 DEF CreateSession

-----------------------------------------------------------------------------
(***************************************************************************)
(* A request with a cookie.                                                *)
(***************************************************************************)

LEMMA PresentStep ==
  ASSUME IInv, NEW r \in Requests, NEW s \in Logins, NEW leaving \in BOOLEAN,
         PresentCookie(r, s, leaving) \/ PresentExpired(r, s, leaving)
  PROVE  IInv'
<1>1. CASE PresentCookie(r, s, leaving)
  <2>1. PICK rec \in Private : rec.of = s /\ my' = [my EXCEPT ![r] = rec]
    <3>1. [None EXCEPT !.of = s, !.leaving = leaving] \in Private
      BY NoneType DEF Private
    <3>2. [None EXCEPT !.of = s, !.leaving = leaving].of = s
      BY DEF None
    <3> QED
      BY <1>1, <3>1, <3>2 DEF PresentCookie
  <2> QED
    BY <1>1, <2>1, ArriveStep DEF PresentCookie, Goto
<1>2. CASE PresentExpired(r, s, leaving)
  <2>1. PICK rec \in Private : rec.of = s /\ my' = [my EXCEPT ![r] = rec]
    <3>1. [None EXCEPT !.of = s] \in Private
      BY NoneType DEF Private
    <3>2. [None EXCEPT !.of = s].of = s
      BY DEF None
    <3> QED
      BY <1>2, <3>1, <3>2 DEF PresentExpired
  <2>2. PICK p \in {"deleting", "local"} : place' = [place EXCEPT ![r] = p]
    BY <1>2 DEF PresentExpired, Goto
  <2> QED
    BY <1>2, <2>1, <2>2, ArriveStep DEF PresentExpired
<1> QED
  BY <1>1, <1>2

LEMMA StrangerStep ==
  ASSUME IInv, NEW r \in Requests, FindNoSession(r) \/ DropSealed(r) \/ DeleteExpired(r)
  PROVE  IInv'
<1> DEFINE s == my[r].of
<1>1. /\ Queueing(r) /\ place[r] # "renewed" /\ RowFree(s) /\ s \in Logins /\ my[r].leaving \in BOOLEAN
      /\ Stranger(r, s, 0, my[r].leaving) \/ End(r)
      /\ row' = row \/ row' = [row EXCEPT ![s] = 0]
      /\ UNCHANGED <<pending, overdue, begun, cookies, aging, outline, lost, revoked>>
  BY DEF FindNoSession, DropSealed, DeleteExpired, Forget, history, stored, Queueing, IInv, LoginInv, TypeOK,
     Private
<1>2. /\ Alone(r) /\ place'[r] \in Harmless
      /\ place' \in [Requests -> Stages] /\ my' \in [Requests -> Private]
  BY <1>1, StrangerAlone, EndAlone, TokensAssumption DEF IInv, Harmless
<1>3. \A q \in Requests \ {r} : Locking(q) => my[q].of # s
  BY <1>1 DEF RowFree, Locking
<1> QED
  BY <1>1, <1>2, <1>3, GiveUpStep

LEMMA RenewInVainStep ==
  ASSUME IInv, NEW r \in Requests, RenewInVain(r) \/ LoseAnswer(r)
  PROVE  IInv'
<1>1. /\ Locking(r) /\ my[r].of \in Logins /\ my[r].of \in cookies
      /\ my[r].token \in 0..MaxTokens /\ my[r].leaving \in BOOLEAN
  BY DEF RenewInVain, LoseAnswer, IInv, LockInv, LoginInv, Locking, Working, TypeOK, Private
<1>2. /\ Stranger(r, my[r].of, my[r].token, my[r].leaving)
      /\ row' = [row EXCEPT ![my[r].of] = 0]
      /\ lost' = lost \/ lost' = lost \cup {my[r].of}
      /\ UNCHANGED <<pending, overdue, begun, cookies, aging, outline, revoked>>
  BY DEF RenewInVain, LoseAnswer, Forget, history
<1>3. /\ Alone(r) /\ place'[r] \in Harmless
      /\ place' \in [Requests -> Stages] /\ my' \in [Requests -> Private]
  BY <1>1, <1>2, StrangerAlone DEF IInv
<1>4. \A q \in Requests \ {r} : Locking(q) => my[q].of # my[r].of
  BY <1>1 DEF IInv, LockInv
<1>5. row'[my[r].of] = 0
  BY <1>1, <1>2 DEF IInv, TypeOK
<1> QED
  BY <1>1, <1>2, <1>3, <1>4, <1>5, GiveUpStep

\* The token that a request goes on with, or will have revoked, is the one stored last.
LEMMA HandOutStep ==
  ASSUME IInv, NEW r \in Requests, NEW s \in cookies, NEW leaving \in BOOLEAN,
         row[s] # 0, HandOut(r, s, renewable[s], leaving),
         \A q \in Requests \ {r} : Locking(q) => my[q].of # s,
         place[r] = "waiting" \/ (place[r] = "renewed" /\ my[r].of = s),
         \/ aging' = aging /\ s \notin aging /\ s \notin lost /\ row[s] = renewable[s]
         \/ aging' = aging \ {s} /\ s \notin lost /\ renewable[s] \in accepted[s],
         UNCHANGED <<pending, overdue, begun, cookies, outline, history>>
  PROVE  IInv'
<1>1. /\ s \in Logins /\ s \in spent /\ renewable[s] \in 0..MaxTokens
      /\ UNCHANGED <<renewable, accepted, spent, lost, revoked>>
      /\ renewable[s] \in accepted[s]
  BY DEF outline, history, IInv, TypeOK, LoginInv, StoredInv
<1>2. row' = [row EXCEPT ![s] = IF leaving THEN 0 ELSE renewable[s]]
  BY DEF HandOut
<1>3. /\ row' \in [Logins -> 0..MaxTokens]
      /\ row'[s] = (IF leaving THEN 0 ELSE renewable[s])
      /\ \A t \in Logins \ {s} : row'[t] = row[t]
  BY <1>1, <1>2, TokensAssumption DEF IInv, TypeOK
<1>4. PICK rec \in Private :
        /\ rec.of = s /\ rec.token = renewable[s]
        /\ my' = [my EXCEPT ![r] = rec]
  <2> DEFINE rec == [None EXCEPT !.of = s, !.token = renewable[s], !.leaving = leaving]
  <2>1. rec \in Private /\ rec.of = s /\ rec.token = renewable[s]
    BY <1>1, NoneType DEF Private
  <2>2. my' = [my EXCEPT ![r] = rec]
    BY DEF HandOut
  <2> HIDE DEF rec
  <2> QED
    BY <2>1, <2>2
<1>5. place' = [place EXCEPT ![r] = IF leaving THEN "revoking" ELSE "answering"]
  BY DEF HandOut, Goto
<1>6. /\ Alone(r) /\ place'[r] = (IF leaving THEN "revoking" ELSE "answering")
      /\ my'[r].of = s /\ my'[r].token = renewable[s]
      /\ place' \in [Requests -> Stages] /\ my' \in [Requests -> Private]
  BY <1>4, <1>5 DEF IInv, TypeOK, Alone, Stages
<1>7. s \notin revoked
  BY <1>1 DEF IInv, SignOutRevokesLatest
<1>8. \A q \in Requests : place'[q] \in {"exchange", "create", "asking", "renewed"} =>
         q # r /\ place'[q] = place[q] /\ my'[q] = my[q]
  BY <1>6 DEF Alone
<1>9. TypeOK'
  BY <1>1, <1>3, <1>6 DEF IInv, TypeOK
<1>10. LoginInv'
  BY <1>1, <1>3, <1>6, <1>8 DEF IInv, LoginInv, Working, Queueing, Alone
<1>11. LockInv'
  BY <1>1, <1>3, <1>8 DEF IInv, LockInv, Locking, LoginInv, Working, Queueing
<1>12. \A q \in Requests \ {r} : place[q] \in {"create", "revoking"} => my[q].of # s /\ my[q].of \in Logins
  BY DEF IInv, LoginInv, IssuedInv, Working
<1>13. IssuedInv'
  BY <1>1, <1>3, <1>6, <1>8, <1>12 DEF IInv, IssuedInv, LoginInv, Alone
<1>14. \A t \in Logins \ {s} :
          (\E q \in Requests : place[q] = "renewed" /\ my[q].of = t) =>
            \E q \in Requests : place'[q] = "renewed" /\ my'[q].of = t
  BY <1>6 DEF Alone
<1>15. StoredInv'
  BY <1>1, <1>3, <1>14 DEF IInv, StoredInv
<1>16. SignOutRevokesLatest'
  BY <1>1, <1>3, <1>7 DEF IInv, SignOutRevokesLatest, TypeOK
<1> QED
  BY <1>9, <1>10, <1>11, <1>13, <1>15, <1>16 DEF IInv

LEMMA ResolveStep ==
  ASSUME IInv, NEW r \in Requests, ResolveSession(r)
  PROVE  IInv'
<1> DEFINE s == my[r].of
           leaving == my[r].leaving
<1>1. /\ place[r] = "waiting" /\ s \in cookies /\ s \in Logins /\ row[s] # 0 /\ leaving \in BOOLEAN
      /\ UNCHANGED <<pending, overdue, begun, cookies, aging, outline, history>>
      /\ \A q \in Requests : Locking(q) => my[q].of # s
  BY DEF ResolveSession, RowFree, Locking, IInv, LoginInv, Queueing, TypeOK, Private
<1>2. CASE s \notin aging /\ HandOut(r, s, row[s], leaving)
  <2>1. s \notin lost /\ row[s] = renewable[s]
    BY <1>1, <1>2 DEF IInv, StoredInv, Locking
  <2> QED
    BY <1>1, <1>2, <2>1, HandOutStep
<1>3. CASE /\ s \in aging /\ Goto(r, "asking")
           /\ my' = [my EXCEPT ![r].token = row[s]]
           /\ row' = row
  <2>1. PICK rec \in Private : rec.of = s /\ rec.token = row[s] /\ my' = [my EXCEPT ![r] = rec]
    <3>1. my[r] \in Private /\ row[s] \in 0..MaxTokens
      BY <1>1 DEF IInv, TypeOK
    <3>2. [my[r] EXCEPT !.token = row[s]] \in Private
      BY <3>1 DEF Private
    <3>3. [my[r] EXCEPT !.token = row[s]].of = s /\ [my[r] EXCEPT !.token = row[s]].token = row[s]
      BY <3>1 DEF Private
    <3>4. my' = [my EXCEPT ![r] = [my[r] EXCEPT !.token = row[s]]]
      BY <1>3 DEF IInv, TypeOK
    <3> QED
      BY <3>2, <3>3, <3>4
  <2> HIDE DEF s
  <2>2. /\ Alone(r) /\ place'[r] = "asking" /\ my'[r].of = s /\ my'[r].token = row[s]
        /\ place' \in [Requests -> Stages] /\ my' \in [Requests -> Private]
        /\ UNCHANGED <<renewable, accepted, spent, lost, revoked>>
    BY <1>1, <1>3, <2>1 DEF IInv, TypeOK, Goto, Alone, Stages, outline, history
  <2>3. TypeOK'
    BY <1>1, <1>3, <2>2 DEF IInv, TypeOK
  <2>4. LoginInv'
    BY <1>1, <1>3, <2>2 DEF IInv, LoginInv, Working, Queueing, Alone
  <2>5. LockInv'
    BY <1>1, <1>3, <2>2 DEF IInv, LockInv, Locking, Alone
  <2>6. IssuedInv'
    BY <1>1, <1>3, <2>2 DEF IInv, IssuedInv, Alone
  <2>7. \A t \in Logins : (\E q \in Requests : place[q] = "renewed" /\ my[q].of = t) =>
                            \E q \in Requests : place'[q] = "renewed" /\ my'[q].of = t
    BY <1>1, <2>2 DEF Alone
  <2>8. StoredInv' /\ SignOutRevokesLatest'
    BY <1>1, <1>3, <2>2, <2>7 DEF IInv, StoredInv, SignOutRevokesLatest
  <2> QED
    BY <2>3, <2>4, <2>5, <2>6, <2>8 DEF IInv
<1> QED
  BY <1>2, <1>3 DEF ResolveSession

LEMMA StoreStep ==
  ASSUME IInv, NEW r \in Requests, StoreTokens(r)
  PROVE  IInv'
<1> DEFINE s == my[r].of
<1>1. /\ place[r] = "renewed" /\ Locking(r) /\ HandOut(r, s, renewable[s], my[r].leaving)
      /\ aging' = aging \ {s}
      /\ UNCHANGED <<pending, overdue, begun, cookies, outline, history>>
  BY DEF StoreTokens, Locking
<1>2. /\ s \in cookies /\ row[s] # 0 /\ s \notin lost /\ renewable[s] \in accepted[s]
      /\ my[r].leaving \in BOOLEAN
      /\ \A q \in Requests \ {r} : Locking(q) => my[q].of # s
  BY <1>1 DEF IInv, LockInv, IssuedInv, TypeOK, Private
<1> QED
  BY <1>1, <1>2, HandOutStep

\* Outline replaces the tokens of the one request that renews them.
LEMMA RenewStep ==
  ASSUME IInv, NEW r \in Requests, Renew(r)
  PROVE  IInv'
<1> DEFINE s == my[r].of
<1>1. /\ place[r] = "asking" /\ Locking(r) /\ s \in cookies /\ s \in Logins
      /\ my[r].token = renewable[s] /\ row[s] = renewable[s] /\ row[s] # 0 /\ s \in aging
      /\ renewable[s] \in Nat /\ renewable[s] < MaxTokens
      /\ UNCHANGED <<pending, overdue, row, aging, begun, cookies, spent, my, lost, revoked>>
      /\ \A q \in Requests \ {r} : Locking(q) => my[q].of # s
  BY DEF Renew, stored, history, Locking, IInv, LockInv, TypeOK, LoginInv, Working, Queueing
<1>2. /\ renewable' = [renewable EXCEPT ![s] = @ + 1]
      /\ accepted' = [accepted EXCEPT ![s] = @ \cup {renewable[s] + 1}]
      /\ place' = [place EXCEPT ![r] = "renewed"]
  BY DEF Renew, Goto
<1>3. s \notin lost /\ s \notin revoked
  BY <1>1 DEF IInv, StoredInv, SignOutRevokesLatest
<1>4. /\ renewable' \in [Logins -> 0..MaxTokens] /\ renewable'[s] = renewable[s] + 1
      /\ accepted' \in [Logins -> SUBSET (1..MaxTokens)]
      /\ accepted'[s] = accepted[s] \cup {renewable[s] + 1}
      /\ \A t \in Logins \ {s} : renewable'[t] = renewable[t] /\ accepted'[t] = accepted[t]
  BY <1>1, <1>2, TokensAssumption DEF IInv, TypeOK
<1>5. /\ place' \in [Requests -> Stages] /\ place'[r] = "renewed"
      /\ \A q \in Requests \ {r} : place'[q] = place[q]
  BY <1>2 DEF IInv, TypeOK, Stages
<1>6. \A q \in Requests : place[q] \in {"create", "revoking"} => my[q].of # s /\ my[q].of \in Logins
  BY <1>1 DEF IInv, LoginInv, IssuedInv, Working
<1>7. \A q \in Requests \ {r} : place[q] = "renewed" => my[q].of # s /\ my[q].of \in Logins
  BY <1>1 DEF IInv, LoginInv, LockInv, Working, Locking, Queueing
<1> HIDE DEF s
<1>8. TypeOK'
  BY <1>1, <1>4, <1>5 DEF IInv, TypeOK
<1>9. LoginInv'
  BY <1>1, <1>5 DEF IInv, LoginInv, Working, Queueing
<1>10. LockInv'
  BY <1>1, <1>5 DEF IInv, LockInv, Locking
<1>11. IssuedInv'
  BY <1>1, <1>3, <1>4, <1>5, <1>6, <1>7 DEF IInv, IssuedInv, s
<1>12. \A t \in Logins : (\E q \in Requests : place[q] = "renewed" /\ my[q].of = t) =>
                           \E q \in Requests : place'[q] = "renewed" /\ my'[q].of = t
  BY <1>1, <1>5
<1>13. \E q \in Requests : place'[q] = "renewed" /\ my'[q].of = s
  BY <1>1, <1>5 DEF s
<1>14. StoredInv'
  BY <1>1, <1>3, <1>4, <1>12, <1>13 DEF IInv, StoredInv
<1>15. SignOutRevokesLatest'
  BY <1>1, <1>3, <1>4 DEF IInv, SignOutRevokesLatest, TypeOK
<1> QED
  BY <1>8, <1>9, <1>10, <1>11, <1>14, <1>15 DEF IInv

LEMMA RevokeStep ==
  ASSUME IInv, NEW r \in Requests, NEW reached \in BOOLEAN, Revoke(r, reached)
  PROVE  IInv'
<1> DEFINE s == my[r].of
<1>1. /\ place[r] = "revoking" /\ End(r) /\ s \in Logins /\ s \in cookies /\ row[s] = 0
      /\ my[r].token = renewable[s]
      /\ UNCHANGED <<pending, overdue, row, aging, begun, cookies, renewable, spent, lost>>
  BY DEF Revoke, stored, IInv, IssuedInv, LoginInv, Working, Queueing
<1>2. /\ Alone(r) /\ place'[r] = "idle"
      /\ place' \in [Requests -> Stages] /\ my' \in [Requests -> Private]
  BY <1>1, EndAlone DEF IInv
<1>3. CASE ~reached
  BY <1>1, <1>2, <1>3, GiveUpStep DEF Revoke, Harmless, outline
<1>4. CASE reached
  <2>1. /\ accepted' = [accepted EXCEPT ![s] = @ \ {renewable[s]}]
        /\ revoked' = revoked \cup {s}
    BY <1>1, <1>4 DEF Revoke
  <2>2. /\ accepted' \in [Logins -> SUBSET (1..MaxTokens)]
        /\ accepted'[s] = accepted[s] \ {renewable[s]}
        /\ \A t \in Logins \ {s} : accepted'[t] = accepted[t]
    BY <1>1, <2>1 DEF IInv, TypeOK
  <2>3. \A q \in Requests : place[q] \in {"create", "renewed"} => my[q].of # s /\ my[q].of \in Logins
    BY <1>1 DEF IInv, LoginInv, LockInv, Working, Locking, Queueing
  <2> HIDE DEF s
  <2>4. TypeOK'
    BY <1>1, <1>2, <2>1, <2>2 DEF IInv, TypeOK
  <2>5. LoginInv'
    BY <1>1, <1>2, <2>1 DEF IInv, LoginInv, Working, Queueing, Alone
  <2>6. LockInv'
    BY <1>1, <1>2 DEF IInv, LockInv, Locking, Alone
  <2>7. IssuedInv'
    BY <1>1, <1>2, <2>2, <2>3 DEF IInv, IssuedInv, Alone
  <2>8. \A t \in Logins : (\E q \in Requests : place[q] = "renewed" /\ my[q].of = t) =>
                            \E q \in Requests : place'[q] = "renewed" /\ my'[q].of = t
    BY <1>1, <1>2 DEF Alone
  <2>9. StoredInv'
    BY <1>1, <2>2, <2>8 DEF IInv, StoredInv
  <2>10. SignOutRevokesLatest'
    BY <1>1, <2>1, <2>2 DEF IInv, SignOutRevokesLatest, TypeOK
  <2> QED
    BY <2>4, <2>5, <2>6, <2>7, <2>9, <2>10 DEF IInv
<1> QED
  BY <1>3, <1>4

\* A request that ends where it is, also in the middle of its transaction.
LEMMA AbandonStep ==
  ASSUME IInv, NEW r \in Requests, Answer(r) \/ Abandon(r)
  PROVE  IInv'
<1> DEFINE s == my[r].of
<1>1. /\ End(r) /\ UNCHANGED <<pending, overdue, row, aging, begun, cookies, outline, revoked>>
      /\ lost' = IF place[r] = "renewed" THEN lost \cup {s} ELSE lost
  BY DEF Answer, Abandon, stored, history
<1>2. /\ Alone(r) /\ place'[r] = "idle"
      /\ place' \in [Requests -> Stages] /\ my' \in [Requests -> Private]
  BY <1>1, EndAlone DEF IInv
<1>3. CASE place[r] # "renewed"
  BY <1>1, <1>2, <1>3, GiveUpStep DEF Harmless
<1>4. CASE place[r] = "renewed"
  <2>1. /\ s \in cookies /\ s \in Logins /\ s \in aging /\ row[s] # 0 /\ row[s] # renewable[s]
        /\ \A q \in Requests \ {r} : Locking(q) => my[q].of # s
        /\ lost' = lost \cup {s} /\ UNCHANGED <<renewable, accepted, spent>>
    BY <1>1, <1>4 DEF Locking, IInv, LockInv, IssuedInv, TypeOK, outline
  <2> HIDE DEF s
  <2>2. TypeOK'
    BY <1>1, <1>2, <2>1 DEF IInv, TypeOK
  <2>3. LoginInv'
    BY <1>1, <1>2, <2>1 DEF IInv, LoginInv, Working, Queueing, Alone
  <2>4. LockInv'
    BY <1>1, <1>2 DEF IInv, LockInv, Locking, Alone
  <2>5. IssuedInv'
    BY <1>1, <1>2, <2>1 DEF IInv, IssuedInv, Alone, Locking
  <2>6. \A t \in Logins \ {s} :
           (\E q \in Requests : place[q] = "renewed" /\ my[q].of = t) =>
             \E q \in Requests : place'[q] = "renewed" /\ my'[q].of = t
    BY <1>2 DEF Alone, s
  <2>7. StoredInv' /\ SignOutRevokesLatest'
    BY <1>1, <2>1, <2>6 DEF IInv, StoredInv, SignOutRevokesLatest
  <2> QED
    BY <2>2, <2>3, <2>4, <2>5, <2>7 DEF IInv
<1> QED
  BY <1>3, <1>4

-----------------------------------------------------------------------------
(***************************************************************************)
(* Time and failure, and all steps together.                               *)
(***************************************************************************)

LEMMA TimeStep ==
  ASSUME IInv, (\E s \in Logins : Age(s) \/ AccessExpires(s) \/ Expire(s)) \/ ChangeSecret
  PROVE  IInv'
<1>1. /\ UNCHANGED <<pending, row, begun, cookies, renewable, spent, place, my, lost, revoked>>
      /\ aging \subseteq aging' /\ overdue' \subseteq overdue \cup Logins
  BY DEF Age, AccessExpires, Expire, ChangeSecret, outline, history, stored
<1>2. /\ accepted' \in [Logins -> SUBSET (1..MaxTokens)]
      /\ \A t \in Logins :
           /\ accepted'[t] \subseteq accepted[t]
           /\ t \notin aging /\ row[t] \in accepted[t] => row[t] \in accepted'[t]
           /\ \A r \in Requests :
                place[r] \in {"create", "renewed"} /\ my[r].of = t /\ renewable[t] \in accepted[t] =>
                  renewable[t] \in accepted'[t]
  <2>1. accepted \in [Logins -> SUBSET (1..MaxTokens)] /\ renewable \in [Logins -> Int]
    BY DEF IInv, TypeOK
  <2>2. CASE accepted' = accepted
    BY <2>1, <2>2
  <2>3. CASE \E s \in Logins : AccessExpires(s)
    <3>1. PICK s \in Logins : AccessExpires(s)
      BY <2>3
    <3>2. PICK g \in accepted[s] :
            /\ g # row[s] \/ s \in aging
            /\ \A r \in Requests :
                 place[r] \in {"create", "renewed"} /\ my[r].of = s => g < renewable[s]
            /\ accepted' = [accepted EXCEPT ![s] = @ \ {g}]
      BY <3>1 DEF AccessExpires
    <3> QED
      BY <2>1, <3>2
  <2> QED
    BY <2>2, <2>3 DEF Age, Expire, ChangeSecret, outline
<1>3. TypeOK'
  BY <1>1, <1>2 DEF IInv, TypeOK
<1>4. LoginInv' /\ LockInv'
  BY <1>1 DEF IInv, LoginInv, LockInv, Working, Locking, Queueing
<1>5. IssuedInv'
  BY <1>1, <1>2 DEF IInv, IssuedInv, LoginInv, Working, Queueing
<1>6. StoredInv'
  BY <1>1, <1>2 DEF IInv, StoredInv
<1>7. SignOutRevokesLatest'
  BY <1>1, <1>2 DEF IInv, SignOutRevokesLatest, TypeOK
<1> QED
  BY <1>3, <1>4, <1>5, <1>6, <1>7 DEF IInv

LEMMA NextInv ==
  ASSUME IInv, [Next]_vars
  PROVE  IInv'
<1>1. CASE \E r \in Requests : Arrive(r) \/ LockStep(r)
  BY <1>1, BeginLoginStep, ClaimStep, PresentStep, PurgeStep, StrangerStep, ResolveStep DEF Arrive, LockStep
<1>2. CASE \E r \in Requests : RequestStep(r) \/ Abandon(r)
  BY <1>2, ExchangeStep, CreateStep, RenewStep, RenewInVainStep, StoreStep, AbandonStep, RevokeStep
     DEF RequestStep
<1>3. CASE UNCHANGED vars
  BY <1>3 DEF vars, stored, outline, history, IInv, TypeOK, LoginInv, LockInv, IssuedInv, StoredInv,
     SignOutRevokesLatest, Working, Locking, Queueing
<1> QED
  BY <1>1, <1>2, <1>3, TimeStep DEF Next

LEMMA Inductive == Spec => []IInv
BY InitInv, NextInv, PTL DEF Spec

-----------------------------------------------------------------------------
(***************************************************************************)
(* The theorems.                                                           *)
(***************************************************************************)

\* However many callbacks come with the same state, one of them gets to exchange the
\* authorization code.
THEOREM OneExchange == Spec => []CodeIsExchangedOnce
<1>1. IInv => CodeIsExchangedOnce
  BY DEF IInv, LoginInv, CodeIsExchangedOnce
<1> QED
  BY <1>1, Inductive, PTL

\* The row lock of resolve keeps the requests of a session from presenting a refresh
\* token that another has used up.
THEOREM NoReplay == Spec => []NoRefreshTokenReplay
<1>1. ASSUME IInv, NEW r \in Requests, IsReplay(r) PROVE my[r].of \in lost
  <2>1. Locking(r)
    BY <1>1 DEF IsReplay, Locking
  <2>2. /\ my[r].of \in Logins /\ row[my[r].of] = my[r].token /\ row[my[r].of] # 0
        /\ \A q \in Requests \ {r} : Locking(q) => my[q].of # my[r].of
    BY <1>1, <2>1 DEF IInv, LoginInv, LockInv, Locking, Working
  <2> QED
    BY <1>1, <2>2 DEF IsReplay, IInv, StoredInv, Locking
<1>2. IInv => NoRefreshTokenReplay
  BY <1>1 DEF NoRefreshTokenReplay
<1> QED
  BY <1>2, Inductive, PTL

\* What is stored works, and what was renewed is stored.
THEOREM StoredWorks == Spec => []StoredTokenWorks
<1>1. IInv => StoredTokenWorks
  BY DEF IInv, StoredInv, StoredTokenWorks, RowFree
<1> QED
  BY <1>1, Inductive, PTL

\* Signing out revokes the token that Outline has issued last.
THEOREM SignOutHolds == Spec => []SignOutRevokesLatest
<1>1. IInv => SignOutRevokesLatest
  BY DEF IInv
<1> QED
  BY <1>1, Inductive, PTL

-----------------------------------------------------------------------------
(***************************************************************************)
(* AccessCache: any number of collections and requests, every page size,   *)
(* lifetime and timeout.                                                   *)
(***************************************************************************)

\* How many of m are listed before c.
Lower(m, c) == Cardinality({b \in m : b < c})

Fetch == [at: {"idle", "info", "page", "full", "last", "answer"},
          since: Nat, asked: Nat, offset: Nat, ids: SUBSET Collections]

CacheTypeOK ==
  /\ now \in Nat /\ changedAt \in 0..now
  /\ member \subseteq Collections
  /\ lostAt \in [Collections -> Int] /\ \A c \in Collections : lostAt[c] <= now
  /\ entry \subseteq Nat \X SUBSET Collections
  /\ fetch \in [Callers -> Fetch]

InFetch(f) == f.at \in {"info", "page", "full", "last"}

\* A fetch that has read its first page.
HasRead(f) == InFetch(f) /\ ~(f.at \in {"info", "page"} /\ f.offset = 0)

\* A fetch is at the start of the listing, or k requests after its first full page: as
\* many pages as the offset has advanced by, and no more than the collections fill.
Paced(f) ==
  /\ f.at = "info" => f.offset = 0
  /\ InFetch(f) /\ ~HasRead(f) => f.ids = {}
  /\ HasRead(f) => \E k \in Nat :
       /\ f.asked <= f.since + Timeout * k
       /\ k * PageSize <= N
       /\ f.at = "page" => f.offset = k * PageSize
       /\ f.at = "full" => f.offset = (k + 1) * PageSize /\ (k + 1) * PageSize <= N

\* No request has taken too long, and an entry has no longer to live than a lifetime.
ClockInv ==
  /\ \A r \in Callers :
       /\ Paced(fetch[r])
       /\ InFetch(fetch[r]) => fetch[r].asked <= now /\ now <= fetch[r].asked + Timeout
       /\ HasRead(fetch[r]) => fetch[r].since <= now
  /\ \A e \in entry : e[1] <= now + Ttl

\* A collection that was read or is cached and has been lost since has been lost
\* recently.
LossInv ==
  /\ \A r \in Callers : HasRead(fetch[r]) =>
       \A c \in fetch[r].ids \ member : fetch[r].since <= lostAt[c]
  /\ \A e \in entry : \A c \in e[2] \ member : e[1] <= lostAt[c] + Ttl + Latency

\* What was read since the last change is the beginning of the listing, and all of it
\* after the last page.
Exact(f) ==
  HasRead(f) /\ f.since > changedAt =>
    /\ f.at # "last" => f.ids = {c \in member : Lower(member, c) < f.offset}
    /\ f.at = "last" => f.ids = member

ExactInv ==
  /\ \A r \in Callers : Exact(fetch[r])
  /\ \A e \in entry : e[1] > changedAt + Ttl + Latency => e[2] = member

CacheInv == CacheTypeOK /\ ClockInv /\ LossInv /\ RevokedAccessEnds /\ ExactInv /\ SettledAccessIsExact

-----------------------------------------------------------------------------
(***************************************************************************)
(* Pages of a listing, by id.                                              *)
(***************************************************************************)

LEMMA Listing ==
  ASSUME NEW m \in SUBSET Collections
  PROVE  LET order == {p \in m \X m : p[1] < p[2]} IN
         /\ IsFiniteSet(m) /\ IsOrder(order, m)
         /\ \A c \in m : Lower(m, c) = Before(m, order, c)
<1> DEFINE order == {p \in m \X m : p[1] < p[2]}
<1>1. m \subseteq Int /\ IsFiniteSet(m)
  <2>1. Collections \subseteq Int /\ IsFiniteSet(Collections)
    BY CacheAssumption, FS_Interval DEF Collections
  <2> QED
    BY <2>1, FS_Subset
<1>2. \A a, b \in m : <<a, b>> \in order <=> a < b
  OBVIOUS
<1> HIDE DEF order
<1>3. IsOrder(order, m)
  BY <1>1, <1>2 DEF IsOrder
<1>4. ASSUME NEW c \in m PROVE {b \in m : <<b, c>> \in order} = {b \in m : b < c}
  BY <1>2
<1> QED
  BY <1>1, <1>3, <1>4 DEF Lower, Before, order

LEMMA Counted ==
  ASSUME NEW m \in SUBSET Collections
  PROVE  \A c \in m : Lower(m, c) \in Nat
<1> DEFINE order == {p \in m \X m : p[1] < p[2]}
<1>1. IsFiniteSet(m) /\ IsOrder(order, m) /\ \A c \in m : Lower(m, c) = Before(m, order, c)
  BY Listing
<1> HIDE DEF order
<1> QED
  BY <1>1, Positions

\* A page is never longer than PageSize, one that is shorter is the last, and one that is
\* full lies within the collections.
LEMMA CollectionPages ==
  ASSUME NEW m \in SUBSET Collections, NEW o \in Nat
  PROVE  LET page == {c \in m : Lower(m, c) \in o..(o + PageSize - 1)} IN
         /\ Cardinality(page) \in 0..PageSize
         /\ Cardinality(page) < PageSize => \A c \in m : Lower(m, c) < o + PageSize
         /\ Cardinality(page) = PageSize => o + PageSize <= N
<1> DEFINE order == {p \in m \X m : p[1] < p[2]}
           page == {c \in m : Before(m, order, c) \in o..(o + PageSize - 1)}
<1>1. IsFiniteSet(m) /\ IsOrder(order, m) /\ \A c \in m : Lower(m, c) = Before(m, order, c)
  BY Listing
<1> HIDE DEF order
<1>2. /\ Cardinality(page) \in 0..PageSize
      /\ Cardinality(page) < PageSize => \A c \in m : Before(m, order, c) < o + PageSize
      /\ Cardinality(page) = PageSize => o + PageSize <= Cardinality(m)
  BY <1>1, CacheAssumption, Pages
<1>3. {c \in m : Lower(m, c) \in o..(o + PageSize - 1)} = page
  BY <1>1
<1>4. Cardinality(m) \in Nat /\ Cardinality(m) <= N
  <2>1. N \in Int /\ IsFiniteSet(1..N) /\ Cardinality(1..N) = N
    BY CacheAssumption, FS_Interval
  <2> QED
    BY <1>1, <2>1, FS_Subset, FS_CardinalityType DEF Collections
<1>5. Cardinality(page) = PageSize => o + PageSize <= N
  <2>1. Cardinality(page) = PageSize => o + PageSize <= Cardinality(m)
    BY <1>2
  <2> QED
    BY <1>4, <2>1, CacheAssumption
<1> QED
  BY <1>1, <1>2, <1>3, <1>5

\* A fetch that has asked for as many pages as the collections fill has taken no longer
\* than Latency when the last answer is there.
LEMMA Rounds ==
  ASSUME NEW k \in Nat, k * PageSize <= N
  PROVE  Latency \in Nat /\ Timeout * k + Timeout <= Latency
<1> DEFINE q == N \div PageSize
<1>1. q \in Nat /\ N < (q + 1) * PageSize
  BY CacheAssumption, SMTT(30)
<1> HIDE DEF q
<1>2. k <= q
  <2>1. SUFFICES ASSUME q + 1 <= k PROVE FALSE
    BY <1>1
  <2>2. (q + 1) * PageSize <= k * PageSize
    BY <1>1, <2>1, CacheAssumption, SMTT(30)
  <2> QED
    BY <1>1, <2>2, CacheAssumption
<1>3. Timeout * (k + 1) <= Timeout * (q + 1)
  BY <1>1, <1>2, CacheAssumption, SMTT(30)
<1>4. Timeout * (k + 1) = Timeout * k + Timeout
  BY CacheAssumption, SMTT(30)
<1> QED
  BY <1>1, <1>3, <1>4, CacheAssumption DEF Latency, q

LEMMA LatencyType == Latency \in Nat
<1>1. 0 \in Nat /\ 0 * PageSize <= N
  BY CacheAssumption
<1> QED
  BY <1>1, Rounds

-----------------------------------------------------------------------------
(***************************************************************************)
(* Steps.                                                                  *)
(***************************************************************************)

LEMMA IdleFetch == Idle \in Fetch
BY DEF Idle, Fetch

LEMMA CacheInitInv == CacheInit => CacheInv
<1> SUFFICES ASSUME CacheInit PROVE CacheInv
  OBVIOUS
<1>1. \A r \in Callers : fetch[r] = Idle /\ fetch[r].at = "idle"
  BY DEF CacheInit, Idle
<1>2. CacheTypeOK
  BY IdleFetch DEF CacheInit, CacheTypeOK
<1>3. ClockInv /\ LossInv /\ ExactInv /\ RevokedAccessEnds /\ SettledAccessIsExact
  BY <1>1 DEF CacheInit, ClockInv, LossInv, ExactInv, RevokedAccessEnds, SettledAccessIsExact, Answering,
     InFetch, HasRead, Paced, Exact
<1> QED
  BY <1>2, <1>3 DEF CacheInv

\* A step of one request that leaves the cache alone and gives up, or takes what its
\* own invariants allow.
LEMMA RequestFrame ==
  ASSUME CacheInv, NEW r \in Callers, NEW f \in Fetch, Set(r, f), UNCHANGED <<now, wiki>>,
         entry' \subseteq entry,
         Paced(f), Exact(f),
         InFetch(f) => f.asked <= now /\ now <= f.asked + Timeout,
         HasRead(f) => f.since <= now /\ \A c \in f.ids \ member : f.since <= lostAt[c],
         f.at = "answer" =>
           /\ \A c \in f.ids \ member : now <= lostAt[c] + Ttl + Latency
           /\ now > changedAt + Ttl + Latency => f.ids = member
  PROVE  CacheInv'
<1>1. /\ fetch' \in [Callers -> Fetch] /\ fetch'[r] = f
      /\ \A q \in Callers \ {r} : fetch'[q] = fetch[q]
      /\ UNCHANGED <<now, member, lostAt, changedAt>>
  BY DEF Set, wiki, CacheInv, CacheTypeOK
<1>2. CacheTypeOK'
  BY <1>1 DEF CacheInv, CacheTypeOK
<1>3. ClockInv'
  <2>1. ASSUME NEW q \in Callers
        PROVE  /\ Paced(fetch'[q])
               /\ InFetch(fetch'[q]) => fetch'[q].asked <= now /\ now <= fetch'[q].asked + Timeout
               /\ HasRead(fetch'[q]) => fetch'[q].since <= now
    BY <1>1 DEF CacheInv, ClockInv
  <2> QED
    BY <1>1, <2>1 DEF CacheInv, ClockInv, Paced, InFetch, HasRead
<1>4. LossInv'
  BY <1>1 DEF CacheInv, LossInv, HasRead, InFetch
<1>5. ExactInv'
  BY <1>1 DEF CacheInv, ExactInv, Exact, HasRead, InFetch
<1>6. RevokedAccessEnds' /\ SettledAccessIsExact'
  BY <1>1 DEF CacheInv, RevokedAccessEnds, SettledAccessIsExact, Answering
<1> QED
  BY <1>2, <1>3, <1>4, <1>5, <1>6 DEF CacheInv

LEMMA TickStep == ASSUME CacheInv, Tick PROVE CacheInv'
<1>1. /\ now \in Nat /\ now' = now + 1 /\ UNCHANGED <<member, lostAt, changedAt, entry, fetch>>
      /\ \A r \in Callers :
           fetch[r].at # "answer" /\ (InFetch(fetch[r]) => now < fetch[r].asked + Timeout)
      /\ \A r \in Callers : fetch[r].since \in Nat /\ fetch[r].asked \in Nat
  BY DEF Tick, wiki, CacheInv, CacheTypeOK, Fetch, Fetching, InFetch
<1>2. CacheTypeOK'
  <2>1. \A c \in Collections : lostAt[c] \in Int /\ lostAt[c] <= now
    BY DEF CacheInv, CacheTypeOK
  <2> QED
    BY <1>1, <2>1 DEF CacheInv, CacheTypeOK
<1>3. ClockInv'
  <2>1. \A e \in entry : e[1] \in Nat
    BY DEF CacheInv, CacheTypeOK
  <2>2. \A r \in Callers : Paced(fetch[r])'
    BY <1>1 DEF CacheInv, ClockInv, Paced, InFetch, HasRead
  <2>3. \A r \in Callers :
          /\ InFetch(fetch[r])' => fetch'[r].asked <= now' /\ now' <= fetch'[r].asked + Timeout
          /\ HasRead(fetch[r])' => fetch'[r].since <= now'
    BY <1>1, CacheAssumption DEF CacheInv, ClockInv, InFetch, HasRead
  <2>4. \A e \in entry' : e[1] <= now' + Ttl
    BY <1>1, <2>1, CacheAssumption DEF CacheInv, ClockInv
  <2> QED
    BY <2>2, <2>3, <2>4 DEF ClockInv
<1>4. LossInv' /\ ExactInv'
  BY <1>1 DEF CacheInv, LossInv, ExactInv, Exact, InFetch, HasRead
<1>5. RevokedAccessEnds' /\ SettledAccessIsExact'
  BY <1>1 DEF RevokedAccessEnds, SettledAccessIsExact, Answering
<1> QED
  BY <1>2, <1>3, <1>4, <1>5 DEF CacheInv

\* A change of membership is itself the latest, and whatever it takes away has been
\* lost now.
LEMMA ChangeStep ==
  ASSUME CacheInv, RevokeToken \/ \E c \in Collections : Join(c) \/ Leave(c)
  PROVE  CacheInv'
<1>1. PICK m \in SUBSET Collections : Change(m)
  BY DEF RevokeToken, Join, Leave, CacheInv, CacheTypeOK
<1>2. /\ changedAt' = now /\ member' = m /\ UNCHANGED <<now, entry, fetch>>
      /\ lostAt' = [c \in Collections |-> IF c \in member \ m THEN now ELSE lostAt[c]]
  BY <1>1 DEF Change
<1>3. /\ now \in Nat /\ changedAt \in 0..now
      /\ \A c \in Collections : lostAt[c] \in Int /\ lostAt[c] <= now
      /\ \A r \in Callers : fetch[r] \in Fetch /\ fetch[r].since \in Nat /\ fetch[r].ids \subseteq Collections
      /\ \A e \in entry : e[1] \in Nat /\ e[2] \subseteq Collections
  BY DEF CacheInv, CacheTypeOK, Fetch
<1>4. \A c \in Collections :
        /\ lostAt'[c] \in Int /\ lostAt[c] <= lostAt'[c] /\ lostAt'[c] <= now
        /\ c \notin member' => c \notin member \/ lostAt'[c] = now
  BY <1>2, <1>3
<1>5. CacheTypeOK'
  BY <1>2, <1>3, <1>4 DEF CacheInv, CacheTypeOK
<1>6. ClockInv'
  BY <1>2 DEF CacheInv, ClockInv, Paced, InFetch, HasRead
<1>7. LossInv'
  <2>1. ASSUME NEW r \in Callers, HasRead(fetch[r]), NEW c \in fetch[r].ids \ member'
        PROVE  fetch[r].since <= lostAt'[c]
    BY <1>3, <1>4, <2>1 DEF CacheInv, LossInv, ClockInv
  <2>2. ASSUME NEW e \in entry, NEW c \in e[2] \ member'
        PROVE  e[1] <= lostAt'[c] + Ttl + Latency
    BY <1>3, <1>4, CacheAssumption, LatencyType DEF CacheInv, LossInv, ClockInv
  <2> QED
    BY <1>2, <2>1, <2>2 DEF LossInv, HasRead, InFetch
<1>8. RevokedAccessEnds'
  <2>1. ASSUME NEW r \in Callers, Answering(r), NEW c \in fetch[r].ids \ member'
        PROVE  now <= lostAt'[c] + Ttl + Latency
    BY <1>3, <1>4, <2>1, CacheAssumption, LatencyType DEF CacheInv, RevokedAccessEnds
  <2> QED
    BY <1>2, <2>1 DEF RevokedAccessEnds, Answering
<1>9. ExactInv'
  <2>1. \A r \in Callers : HasRead(fetch[r]) => ~(fetch[r].since > now)
    BY <1>3 DEF CacheInv, ClockInv
  <2>2. \A e \in entry : ~(e[1] > now + Ttl + Latency)
    BY <1>3, CacheAssumption, LatencyType DEF CacheInv, ClockInv
  <2> QED
    BY <1>2, <2>1, <2>2 DEF ExactInv, Exact, HasRead, InFetch
<1>10. SettledAccessIsExact'
  BY <1>2, <1>3, CacheAssumption, LatencyType DEF SettledAccessIsExact
<1> QED
  BY <1>5, <1>6, <1>7, <1>8, <1>9, <1>10 DEF CacheInv

\* What is cached was stored at most a lifetime ago, and read at most the latency
\* before that.
LEMMA CachedStep ==
  ASSUME CacheInv, NEW r \in Callers, Cached(r)
  PROVE  CacheInv'
<1>1. PICK e \in entry :
        e[1] >= now /\ Set(r, [Idle EXCEPT !.at = "answer", !.ids = e[2]])
  BY DEF Cached
<1> DEFINE f == [Idle EXCEPT !.at = "answer", !.ids = e[2]]
<1>2. e[1] \in Nat /\ e[2] \subseteq Collections /\ now \in Nat /\ changedAt \in Nat
  BY DEF CacheInv, CacheTypeOK
<1>3. f \in Fetch /\ f.at = "answer" /\ f.ids = e[2]
  BY <1>2, IdleFetch DEF Fetch
<1>4. \A c \in e[2] \ member : lostAt[c] \in Int /\ e[1] <= lostAt[c] + Ttl + Latency
  BY <1>2 DEF CacheInv, LossInv, CacheTypeOK
<1>5. \A c \in e[2] \ member : now <= lostAt[c] + Ttl + Latency
  BY <1>1, <1>2, <1>4, CacheAssumption, LatencyType
<1>6. now > changedAt + Ttl + Latency => e[2] = member
  BY <1>1, <1>2, CacheAssumption, LatencyType DEF CacheInv, ExactInv
<1>7. UNCHANGED <<now, wiki>> /\ entry' = entry
  BY DEF Cached
<1> HIDE DEF f
<1>8. ~InFetch(f) /\ ~HasRead(f) /\ Paced(f) /\ Exact(f)
  BY <1>3 DEF InFetch, HasRead, Paced, Exact
<1> QED
  BY <1>1, <1>3, <1>5, <1>6, <1>7, <1>8, RequestFrame DEF f

LEMMA BeginStep ==
  ASSUME CacheInv, NEW r \in Callers, Missed(r) \/ FetchFails(r) \/ AnswerCaller(r)
  PROVE  CacheInv'
<1>1. CASE FetchFails(r) \/ AnswerCaller(r)
  <2>1. Idle.at = "idle"
    BY DEF Idle
  <2>2. ~InFetch(Idle) /\ ~HasRead(Idle) /\ Paced(Idle) /\ Exact(Idle)
    BY <2>1 DEF InFetch, HasRead, Paced, Exact
  <2> QED
    BY <1>1, <2>1, <2>2, IdleFetch, RequestFrame DEF FetchFails, AnswerCaller
<1>2. CASE Missed(r)
  <2> DEFINE f == [Idle EXCEPT !.at = "info", !.asked = now]
  <2>1. f \in Fetch /\ f.at = "info" /\ f.asked = now /\ f.ids = {} /\ f.offset = 0 /\ now \in Nat
    BY DEF Idle, Fetch, CacheInv, CacheTypeOK
  <2>2. Set(r, f) /\ UNCHANGED <<now, wiki>> /\ entry' \subseteq entry
    BY <1>2 DEF Missed
  <2> HIDE DEF f
  <2>3. ~HasRead(f) /\ Paced(f) /\ Exact(f)
    BY <2>1 DEF InFetch, HasRead, Paced, Exact
  <2>4. f.asked <= now /\ now <= f.asked + Timeout
    BY <2>1, CacheAssumption
  <2> QED
    BY <2>1, <2>2, <2>3, <2>4, RequestFrame
<1> QED
  BY <1>1, <1>2

LEMMA InfoStep ==
  ASSUME CacheInv, NEW r \in Callers, AuthInfo(r)
  PROVE  CacheInv'
<1> DEFINE f == [fetch[r] EXCEPT !.at = "page", !.asked = now]
<1>1. /\ fetch[r] \in Fetch /\ fetch[r].at = "info" /\ fetch[r].offset = 0 /\ fetch[r].ids = {}
      /\ now \in Nat /\ Set(r, f) /\ UNCHANGED <<now, wiki>> /\ entry' = entry
  <2>1. fetch[r].at = "info" /\ Paced(fetch[r])
    BY DEF AuthInfo, CacheInv, ClockInv
  <2>2. fetch[r].offset = 0 /\ fetch[r].ids = {}
    BY <2>1 DEF Paced, HasRead, InFetch
  <2> QED
    BY <2>1, <2>2 DEF AuthInfo, CacheInv, CacheTypeOK
<1>2. f \in Fetch /\ f.at = "page" /\ f.ids = {} /\ f.offset = 0 /\ f.asked = now
  BY <1>1 DEF Fetch
<1> HIDE DEF f
<1>3. ~HasRead(f) /\ Paced(f) /\ Exact(f)
  BY <1>2 DEF InFetch, HasRead, Paced, Exact
<1>4. f.asked <= now /\ now <= f.asked + Timeout
  BY <1>1, <1>2, CacheAssumption
<1> QED
  BY <1>1, <1>2, <1>3, <1>4, RequestFrame

\* A page continues the listing; when it is not full the listing is complete.
LEMMA PageStep ==
  ASSUME CacheInv, NEW r \in Callers, CollectionsPage(r)
  PROVE  CacheInv'
<1> DEFINE o == fetch[r].offset
           page == {c \in member : Lower(member, c) \in o..(o + PageSize - 1)}
           f == [fetch[r] EXCEPT !.ids = @ \cup page,
                                 !.offset = @ + Cardinality(page),
                                 !.since = IF fetch[r].offset = 0 THEN now ELSE @,
                                 !.at = IF Cardinality(page) < PageSize THEN "last" ELSE "full"]
<1>1. /\ fetch[r].at = "page" /\ Set(r, f) /\ UNCHANGED <<now, wiki>> /\ entry' = entry
  BY DEF CollectionsPage, Lower
<1>2. /\ member \in SUBSET Collections /\ fetch[r] \in Fetch /\ o \in Nat /\ now \in Nat
      /\ fetch[r].ids \subseteq Collections /\ fetch[r].since \in Nat /\ fetch[r].asked \in Nat
      /\ fetch[r].asked <= now /\ now <= fetch[r].asked + Timeout
  BY <1>1 DEF CacheInv, CacheTypeOK, Fetch, ClockInv, InFetch
<1>3. /\ Cardinality(page) \in 0..PageSize
      /\ Cardinality(page) < PageSize => \A c \in member : Lower(member, c) < o + PageSize
      /\ Cardinality(page) = PageSize => o + PageSize <= N
  BY <1>2, CollectionPages
<1>4. \A c \in member : Lower(member, c) \in Nat
  BY <1>2, Counted
<1>5. o = 0 => fetch[r].ids = {}
  BY <1>1 DEF CacheInv, ClockInv, Paced, HasRead, InFetch
<1>6. o # 0 => HasRead(fetch[r])
  BY <1>1 DEF HasRead, InFetch
<1>7. o # 0 /\ fetch[r].since > changedAt => fetch[r].ids = {c \in member : Lower(member, c) < o}
  BY <1>1, <1>6 DEF CacheInv, ExactInv, Exact
<1>8. o = 0 \/ fetch[r].since > changedAt =>
        fetch[r].ids \cup page = {c \in member : Lower(member, c) < o + PageSize}
  BY <1>2, <1>4, <1>5, <1>7, CacheAssumption
<1>9. page \subseteq member
  OBVIOUS
<1> HIDE DEF page
<1>10. /\ f.ids = fetch[r].ids \cup page /\ f.offset = o + Cardinality(page)
       /\ f.at = (IF Cardinality(page) < PageSize THEN "last" ELSE "full")
       /\ f.since = (IF o = 0 THEN now ELSE fetch[r].since) /\ f.asked = fetch[r].asked /\ f \in Fetch
  <2>1. fetch[r].ids \cup page \in SUBSET Collections /\ o + Cardinality(page) \in Nat
    BY <1>2, <1>3, <1>9, CacheAssumption
  <2>2. PICK n \in Nat, t \in Nat, ids \in SUBSET Collections, at \in {"last", "full"} :
          /\ n = o + Cardinality(page) /\ ids = fetch[r].ids \cup page
          /\ t = IF o = 0 THEN now ELSE fetch[r].since
          /\ at = IF Cardinality(page) < PageSize THEN "last" ELSE "full"
    BY <1>2, <2>1
  <2>3. f = [fetch[r] EXCEPT !.ids = ids, !.offset = n, !.since = t, !.at = at]
    BY <2>2
  <2> HIDE DEF f
  <2> QED
    BY <1>2, <2>2, <2>3 DEF Fetch
<1> HIDE DEF f
<1>11. InFetch(f) /\ HasRead(f) /\ f.at \in {"last", "full"}
  BY <1>10 DEF InFetch, HasRead
<1>12. f.at = "full" => f.offset = o + PageSize /\ f.offset <= N
  <2>1. f.at = "full" => ~(Cardinality(page) < PageSize)
    BY <1>10
  <2>2. ~(Cardinality(page) < PageSize) => Cardinality(page) = PageSize
    BY <1>3, CacheAssumption
  <2> QED
    BY <1>3, <1>10, <2>1, <2>2
<1>13. Paced(f)
  <2>1. \E k \in Nat : f.asked <= f.since + Timeout * k /\ k * PageSize <= N /\ o = k * PageSize
    <3>1. CASE o = 0
      <4>1. Timeout * 0 = 0 /\ 0 * PageSize = 0
        BY CacheAssumption
      <4>2. f.asked <= f.since + Timeout * 0 /\ 0 * PageSize <= N /\ o = 0 * PageSize
        BY <1>2, <1>10, <3>1, <4>1, CacheAssumption
      <4> QED
        BY <4>2
    <3>2. CASE o # 0
      BY <1>1, <1>6, <1>10, <3>2 DEF CacheInv, ClockInv, Paced
    <3> QED
      BY <3>1, <3>2
  <2>2. PICK k \in Nat : f.asked <= f.since + Timeout * k /\ k * PageSize <= N /\ o = k * PageSize
    BY <2>1
  <2>3. (k + 1) * PageSize = k * PageSize + PageSize
    BY CacheAssumption
  <2>4. f.at = "full" => f.offset = (k + 1) * PageSize /\ (k + 1) * PageSize <= N
    BY <1>12, <2>2, <2>3
  <2> QED
    BY <1>11, <2>2, <2>4 DEF Paced
<1>14. Exact(f)
  <2>1. f.since > changedAt => fetch[r].ids \cup page = {c \in member : Lower(member, c) < o + PageSize}
    BY <1>8, <1>10
  <2>2. f.since > changedAt /\ f.at = "last" => f.ids = member
    BY <1>3, <1>10, <1>11, <2>1
  <2>3. f.since > changedAt /\ f.at # "last" => f.ids = {c \in member : Lower(member, c) < f.offset}
    BY <1>10, <1>11, <1>12, <2>1
  <2> QED
    BY <2>2, <2>3 DEF Exact
<1>15. f.since <= now
  BY <1>1, <1>2, <1>6, <1>10 DEF CacheInv, ClockInv
<1>16. \A c \in f.ids \ member : f.since <= lostAt[c]
  BY <1>5, <1>6, <1>9, <1>10 DEF CacheInv, LossInv
<1> QED
  BY <1>1, <1>2, <1>10, <1>11, <1>13, <1>14, <1>15, <1>16, RequestFrame

LEMMA NextPageStep ==
  ASSUME CacheInv, NEW r \in Callers, NextPage(r)
  PROVE  CacheInv'
<1> DEFINE g == fetch[r]
           f == [fetch[r] EXCEPT !.at = "page", !.asked = now]
<1>1. /\ g.at = "full" /\ Set(r, f) /\ UNCHANGED <<now, wiki>> /\ entry' = entry
      /\ g \in Fetch /\ now \in Nat /\ g.since \in Nat /\ g.asked \in Nat
  BY DEF NextPage, CacheInv, CacheTypeOK, Fetch
<1>2. /\ f \in Fetch /\ f.at = "page" /\ f.asked = now
      /\ f.since = g.since /\ f.offset = g.offset /\ f.ids = g.ids
  BY <1>1 DEF Fetch
<1>3. InFetch(g) /\ HasRead(g)
  BY <1>1 DEF InFetch, HasRead
<1>4. /\ Paced(g) /\ now <= g.asked + Timeout /\ g.since <= now
      /\ Exact(g) /\ \A c \in g.ids \ member : g.since <= lostAt[c]
  BY <1>3 DEF CacheInv, ClockInv, ExactInv, LossInv
<1> HIDE DEF f, g
<1>5. PICK k \in Nat :
        /\ g.asked <= g.since + Timeout * k
        /\ g.offset = (k + 1) * PageSize /\ (k + 1) * PageSize <= N
  BY <1>1, <1>3, <1>4 DEF Paced
<1>6. Timeout * (k + 1) = Timeout * k + Timeout /\ Timeout * k \in Nat
  BY CacheAssumption
<1>7. f.asked <= f.since + Timeout * (k + 1)
  BY <1>1, <1>2, <1>4, <1>5, <1>6, CacheAssumption
<1>8. InFetch(f) /\ f.offset # 0 /\ HasRead(f)
  <2>1. (k + 1) * PageSize = k * PageSize + PageSize /\ k * PageSize \in Nat
    BY CacheAssumption
  <2> QED
    BY <1>2, <1>5, <2>1, CacheAssumption DEF InFetch, HasRead
<1>9. Paced(f)
  BY <1>2, <1>5, <1>7, <1>8 DEF Paced
<1>10. Exact(f)
  BY <1>1, <1>2, <1>3, <1>4 DEF Exact
<1>11. f.asked <= now /\ now <= f.asked + Timeout
  BY <1>1, <1>2, CacheAssumption
<1> QED
  BY <1>1, <1>2, <1>4, <1>8, <1>9, <1>10, <1>11, RequestFrame

LEMMA StoreCacheStep ==
  ASSUME CacheInv, NEW r \in Callers, Store(r)
  PROVE  CacheInv'
<1> DEFINE ids == fetch[r].ids
<1>1. /\ fetch[r].at = "last" /\ entry' = {<<now + Ttl, ids>>}
      /\ fetch' = [fetch EXCEPT ![r] = [fetch[r] EXCEPT !.at = "answer"]]
      /\ UNCHANGED <<now, member, lostAt, changedAt>>
  BY DEF Store, Set, wiki
<1>2. InFetch(fetch[r]) /\ HasRead(fetch[r])
  BY <1>1 DEF InFetch, HasRead
<1>3. /\ fetch[r] \in Fetch /\ now \in Nat /\ changedAt \in Nat /\ fetch[r].since \in Nat
      /\ fetch[r].asked \in Nat /\ ids \subseteq Collections
      /\ fetch[r].since <= now /\ now <= fetch[r].asked + Timeout
      /\ \A c \in ids \ member : lostAt[c] \in Int /\ fetch[r].since <= lostAt[c]
      /\ fetch[r].since > changedAt => ids = member
  BY <1>1, <1>2 DEF CacheInv, CacheTypeOK, Fetch, ClockInv, LossInv, ExactInv, Exact
<1>4. PICK k \in Nat : fetch[r].asked <= fetch[r].since + Timeout * k /\ k * PageSize <= N
  BY <1>2 DEF CacheInv, ClockInv, Paced
<1>5. Timeout * k + Timeout <= Latency /\ Latency \in Nat /\ Timeout * k \in Nat
  BY <1>4, Rounds, CacheAssumption
<1>6. now <= fetch[r].since + Latency
  BY <1>3, <1>4, <1>5, CacheAssumption
<1>7. /\ fetch' \in [Callers -> Fetch] /\ fetch'[r].at = "answer" /\ fetch'[r].ids = ids
      /\ \A q \in Callers \ {r} : fetch'[q] = fetch[q]
  BY <1>1, <1>3 DEF CacheInv, CacheTypeOK, Fetch
<1>8. \A c \in ids \ member : now <= lostAt[c] + Latency
  BY <1>3, <1>5, <1>6
<1>9. now > changedAt + Latency => ids = member
  BY <1>3, <1>5, <1>6
<1> HIDE DEF ids
<1>10. CacheTypeOK'
  BY <1>1, <1>3, <1>7, CacheAssumption DEF CacheInv, CacheTypeOK
<1>11. ~InFetch(fetch'[r]) /\ ~HasRead(fetch'[r])
  BY <1>7 DEF InFetch, HasRead
<1>12. ClockInv'
  <2>1. ASSUME NEW q \in Callers
        PROVE  /\ Paced(fetch'[q])
               /\ InFetch(fetch'[q]) => fetch'[q].asked <= now /\ now <= fetch'[q].asked + Timeout
               /\ HasRead(fetch'[q]) => fetch'[q].since <= now
    <3>1. CASE q = r
      BY <1>7, <1>11, <3>1 DEF Paced
    <3>2. CASE q # r
      BY <1>7, <3>2 DEF CacheInv, ClockInv
    <3> QED
      BY <3>1, <3>2
  <2>2. \A e \in entry' : e[1] <= now' + Ttl
    BY <1>1, <1>3, CacheAssumption
  <2> QED
    BY <1>1, <2>1, <2>2 DEF ClockInv, Paced, InFetch, HasRead
<1>13. LossInv'
  <2>1. \A c \in ids \ member : now + Ttl <= lostAt[c] + Ttl + Latency
    BY <1>3, <1>5, <1>8, CacheAssumption
  <2>2. \A q \in Callers : HasRead(fetch'[q]) => fetch'[q] = fetch[q]
    BY <1>7, <1>11
  <2>3. \A q \in Callers : HasRead(fetch'[q]) =>
          \A c \in fetch'[q].ids \ member : fetch'[q].since <= lostAt[c]
    BY <2>2 DEF CacheInv, LossInv
  <2> QED
    BY <1>1, <2>1, <2>3 DEF LossInv, HasRead, InFetch
<1>14. ExactInv'
  <2>1. now + Ttl > changedAt + Ttl + Latency => ids = member
    BY <1>3, <1>5, <1>9, CacheAssumption
  <2>2. \A q \in Callers : Exact(fetch'[q])
    <3>1. ASSUME NEW q \in Callers PROVE Exact(fetch'[q])
      <4>1. CASE q = r
        BY <1>11, <4>1 DEF Exact
      <4>2. CASE q # r
        BY <1>7, <4>2 DEF CacheInv, ExactInv
      <4> QED
        BY <4>1, <4>2
    <3> QED
      BY <3>1
  <2> QED
    BY <1>1, <2>1, <2>2 DEF ExactInv, Exact, HasRead, InFetch
<1>15. RevokedAccessEnds'
  BY <1>1, <1>3, <1>5, <1>7, <1>8, CacheAssumption DEF CacheInv, RevokedAccessEnds, Answering
<1>16. SettledAccessIsExact'
  BY <1>1, <1>3, <1>5, <1>7, <1>9, CacheAssumption DEF CacheInv, SettledAccessIsExact, Answering
<1> QED
  BY <1>10, <1>12, <1>13, <1>14, <1>15, <1>16 DEF CacheInv

LEMMA CacheNextInv ==
  ASSUME CacheInv, [CacheNext]_cacheVars
  PROVE  CacheInv'
<1>1. CASE UNCHANGED cacheVars
  BY <1>1 DEF cacheVars, wiki, CacheInv, CacheTypeOK, ClockInv, LossInv, ExactInv, RevokedAccessEnds,
     SettledAccessIsExact, Answering, InFetch, HasRead, Paced, Exact
<1> QED
  BY <1>1, TickStep, ChangeStep, CachedStep, BeginStep, InfoStep, PageStep, NextPageStep, StoreCacheStep
     DEF CacheNext

LEMMA CacheInductive == CacheSpec => []CacheInv
BY CacheInitInv, CacheNextInv, PTL DEF CacheSpec

-----------------------------------------------------------------------------
(***************************************************************************)
(* The theorems.                                                           *)
(***************************************************************************)

\* Nobody searches a collection that they lost longer ago than an entry lives and the
\* rest of a listing takes, whichever of several fetches stored its answer last.
THEOREM RevocationHolds == CacheSpec => []RevokedAccessEnds
<1>1. CacheInv => RevokedAccessEnds
  BY DEF CacheInv
<1> QED
  BY <1>1, CacheInductive, PTL

\* When membership has been left alone for that long, the answer is exactly it: no
\* collection is missed between the pages of a listing or listed twice.
THEOREM SettledIsExact == CacheSpec => []SettledAccessIsExact
<1>1. CacheInv => SettledAccessIsExact
  BY DEF CacheInv
<1> QED
  BY <1>1, CacheInductive, PTL
=============================================================================
