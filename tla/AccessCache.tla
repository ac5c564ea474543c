----------------------------- MODULE AccessCache -----------------------------
(***************************************************************************)
(* OutlineAccessResolver: which collections a caller may search.  What     *)
(* Outline says of a token is cached for a while; the fetch is several     *)
(* requests, made without the lock, and other callers with the same token  *)
(* (and changes in the wiki) come in between.                              *)
(*                                                                         *)
(* One token is followed: entries of others are kept under other keys.     *)
(***************************************************************************)
EXTENDS Integers, FiniteSets

CONSTANTS
  N,            \* collections are 1..N, in the order in which Outline lists them
  PageSize,     \* outline_page_size
  Callers,     \* requests that carry the token
  Ttl,          \* access_cache_seconds
  Timeout,      \* outline_timeout_seconds: the longest that one request to Outline takes
  MaxTime,      \* bound: the clock
  MaxChanges    \* bound: changes of membership

ASSUME CacheAssumption ==
  /\ N \in Nat /\ PageSize \in Nat \ {0}
  /\ Ttl \in Nat /\ Timeout \in Nat /\ MaxTime \in Nat /\ MaxChanges \in Nat

Collections == 1..N

\* The longest that a fetch takes once Outline has read its first page: that page's way
\* back, the other full pages of the listing and the one that ends it.  The code sets no
\* limit to it but that of each request.
Latency == Timeout * (N \div PageSize + 1)

VARIABLES
  now,       \* time.monotonic()
  member,    \* Outline: the collections the token's owner can read
  valid,     \* Outline accepts the token
  lostAt,    \* history: when the owner last lost a collection; -1 for never
  changedAt, \* history: when membership last changed
  changes,   \* how often it has
  entry,     \* the cache's entry: at most one <<expires_at, collections>>
  fetch      \* [Callers -> the fetch or answer a request is at: when its first page was
             \*  read, when it last asked Outline, its offset and what it has read]

wiki == <<member, valid, lostAt, changedAt, changes>>
cacheVars == <<now, wiki, entry, fetch>>

Idle == [at |-> "idle", since |-> 0, asked |-> 0, offset |-> 0, ids |-> {}]

CacheInit ==
  /\ now = 0
  /\ member \in SUBSET Collections
  /\ valid = TRUE
  /\ lostAt = [c \in Collections |-> -1]
  /\ changedAt = 0 /\ changes = 0
  /\ entry = {}
  /\ fetch = [r \in Callers |-> Idle]

-----------------------------------------------------------------------------
(***************************************************************************)
(* Time, and Outline.                                                      *)
(***************************************************************************)

Fetching(r) == fetch[r].at \in {"info", "page", "full", "last"}

\* Only Outline takes time: a request to it that is not answered within Timeout fails.
Tick ==
  /\ now < MaxTime
  /\ \A r \in Callers :
       /\ fetch[r].at # "answer"
       /\ Fetching(r) => now < fetch[r].asked + Timeout
  /\ now' = now + 1
  /\ UNCHANGED <<wiki, entry, fetch>>

Change(m) ==
  /\ changes < MaxChanges
  /\ changes' = changes + 1
  /\ changedAt' = now
  /\ member' = m
  /\ lostAt' = [c \in Collections |-> IF c \in member \ m THEN now ELSE lostAt[c]]
  /\ UNCHANGED <<now, entry, fetch>>

Join(c) == valid /\ c \notin member /\ Change(member \cup {c}) /\ UNCHANGED valid
Leave(c) == c \in member /\ Change(member \ {c}) /\ UNCHANGED valid

\* The token is revoked: signing out, or the owner's doing.
RevokeToken == valid /\ valid' = FALSE /\ Change({})

-----------------------------------------------------------------------------
(***************************************************************************)
(* resolve.                                                                *)
(***************************************************************************)

Set(r, f) == fetch' = [fetch EXCEPT ![r] = f]

\* Mutant: what is used stays.
CachedWhileUsed(r) ==
  /\ fetch[r].at = "idle"
  /\ \E e \in entry :
       /\ e[1] >= now
       /\ Set(r, [Idle EXCEPT !.at = "answer", !.ids = e[2]])
       /\ entry' = {<<now + Ttl, e[2]>>}
  /\ UNCHANGED <<now, wiki>>

\* _cached finds an entry that has not expired.
Cached(r) ==
  /\ fetch[r].at = "idle"
  /\ \E e \in entry :
       /\ e[1] >= now
       /\ Set(r, [Idle EXCEPT !.at = "answer", !.ids = e[2]])
  /\ UNCHANGED <<now, wiki, entry>>

\* It finds none, or deletes one that has expired.
Missed(r) ==
  /\ fetch[r].at = "idle"
  /\ \A e \in entry : e[1] < now
  /\ entry' = {}
  /\ Set(r, [Idle EXCEPT !.at = "info", !.asked = now])
  /\ UNCHANGED <<now, wiki>>

\* auth.info.
AuthInfo(r) ==
  /\ fetch[r].at = "info" /\ valid
  /\ Set(r, [fetch[r] EXCEPT !.at = "page", !.asked = now])
  /\ UNCHANGED <<now, wiki, entry>>

\* Outline reads a page of the listing, at the offset, and sends it; one that is not full
\* is the last.
CollectionsPage(r) ==
  LET Position(c) == Cardinality({b \in member : b < c})
      page == {c \in member : Position(c) \in fetch[r].offset..(fetch[r].offset + PageSize - 1)}
  IN
  /\ fetch[r].at = "page" /\ valid
  /\ Set(r, [fetch[r] EXCEPT !.ids = @ \cup page,
                             !.offset = @ + Cardinality(page),
                             !.since = IF fetch[r].offset = 0 THEN now ELSE @,
                             !.at = IF Cardinality(page) < PageSize THEN "last" ELSE "full"])
  /\ UNCHANGED <<now, wiki, entry>>

\* A full page has arrived: the next one is asked for.
NextPage(r) ==
  /\ fetch[r].at = "full"
  /\ Set(r, [fetch[r] EXCEPT !.at = "page", !.asked = now])
  /\ UNCHANGED <<now, wiki, entry>>

\* Outline rejects the token (401), or cannot be reached (503), or its answer is lost:
\* nothing is cached.
FetchFails(r) ==
  /\ Fetching(r)
  /\ Set(r, Idle)
  /\ UNCHANGED <<now, wiki, entry>>

\* Mutant: added to what is there.
StoreMerged(r) ==
  /\ fetch[r].at = "last"
  /\ entry' = {<<now + Ttl, UNION {e[2] : e \in entry} \cup fetch[r].ids>>}
  /\ Set(r, [Idle EXCEPT !.at = "answer", !.ids = UNION {e[2] : e \in entry} \cup fetch[r].ids])
  /\ UNCHANGED <<now, wiki>>

\* _store: its lifetime begins when it is stored, and whoever stores last wins.
Store(r) ==
  /\ fetch[r].at = "last"
  /\ entry' = {<<now + Ttl, fetch[r].ids>>}
  /\ Set(r, [fetch[r] EXCEPT !.at = "answer"])
  /\ UNCHANGED <<now, wiki>>

\* The caller gets the scope.
AnswerCaller(r) ==
  /\ fetch[r].at = "answer"
  /\ Set(r, Idle)
  /\ UNCHANGED <<now, wiki, entry>>

CacheNext ==
  \/ Tick \/ RevokeToken
  \/ \E c \in Collections : Join(c) \/ Leave(c)
  \/ \E r \in Callers :
       Cached(r) \/ Missed(r) \/ AuthInfo(r) \/ CollectionsPage(r) \/ NextPage(r)
       \/ FetchFails(r) \/ Store(r) \/ AnswerCaller(r)

CacheSpec == CacheInit /\ [][CacheNext]_cacheVars

-----------------------------------------------------------------------------
(***************************************************************************)
(* Properties.                                                             *)
(***************************************************************************)

Answering(r) == fetch[r].at = "answer"

\* A revoked membership, or token, stops working: nothing is searched for a caller
\* who lost it longer ago than an entry lives and the rest of a listing takes,
\* although a slow fetch may overwrite what a later one has stored.  (The documents
\* promise Ttl alone, and the code does not keep that: the lifetime of an entry begins
\* at _store, and what it holds was read some time, perhaps many requests, before.)
RevokedAccessEnds ==
  \A r \in Callers : Answering(r) =>
    \A c \in fetch[r].ids \ member : now <= lostAt[c] + Ttl + Latency

\* Membership that has been left alone for that long is answered as it is: a page
\* that moved under a listing is not missed for longer.
SettledAccessIsExact ==
  \A r \in Callers :
    Answering(r) /\ now > changedAt + Ttl + Latency => fetch[r].ids = member
=============================================================================
