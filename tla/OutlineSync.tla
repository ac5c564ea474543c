----------------------------- MODULE OutlineSync -----------------------------
(***************************************************************************)
(* The connector between an Outline wiki and the index tables: webhook     *)
(* events and their background tasks, and the scheduled backfill with its  *)
(* paged listing and its prune.                                            *)
(*                                                                         *)
(* ingest_document, is_unchanged, retire_document and                      *)
(* fetch_synced_document_ids are one transaction each and are one step     *)
(* here; IndexJobs has their statements.  The wiki changes at any time,    *)
(* and so between any two requests the connector makes.                    *)
(***************************************************************************)
EXTENDS Integers, FiniteSets

CONSTANTS
  Docs,          \* wiki pages
  Texts,         \* non-empty page texts
  NoText,        \* the empty page
  Bodies,        \* the texts the wiki gives a page: Texts, with or without NoText
  Collections,   \* wiki collections
  Scope,         \* the collections to sync; {} for all that the key can read
  PageSize,      \* of documents.list
  Tasks,         \* background tasks of the webhook endpoint
  MaxChanges,    \* bound: changes of the wiki
  MaxFailures    \* bound: requests of the backfill that fail though the page is there

Times == 0..(MaxChanges + Cardinality(Docs))

ASSUME ConfigAssumption ==
  /\ IsFiniteSet(Docs)
  /\ NoText \notin Texts /\ Bodies \subseteq Texts \cup {NoText}
  /\ Scope \subseteq Collections
  /\ PageSize \in Nat \ {0}
  /\ MaxChanges \in Nat /\ MaxFailures \in Nat

VARIABLES
  wiki,      \* [Docs -> Snapshot]: pages; time is updatedAt
  listed,    \* pages that are published: neither archived, deleted nor drafts
  changes,   \* how often the wiki has changed
  events,    \* webhook deliveries on their way: <<effect, page>>
  task,      \* [Tasks -> ...]: what each background task is doing
  synced,    \* [Docs -> Snapshot]: document_sources; the body stands for last_file_hash
  known,     \* pages that have a document_sources row
  retired,   \* pages with documents.retired_at
  bf,        \* the backfill process
  failures,  \* how often a request of a backfill has failed
  calm,      \* history: nothing but the backfill has happened since it started
  steady     \* history: pages that have been listed in scope since it started

wikiVars == <<wiki, listed, changes>>
dbVars == <<synced, known, retired>>
vars == <<wikiVars, events, task, dbVars, bf, failures, calm, steady>>

Snapshot == [body: Bodies, coll: Collections, time: Times]

NoTask == [place |-> "idle"]
NoBackfill == [place |-> "idle", todo |-> {}, at |-> {}, offset |-> 0, more |-> FALSE,
               page |-> {}, seen |-> {}, failed |-> FALSE, gone |-> {}, item |-> {}]

InScope(c) == Scope = {} \/ c \in Scope
Listing == {d \in listed : InScope(wiki[d].coll)}

\* A wiki of pages of different age, of which nothing is synced.  Bodies of two
\* pages are never compared and only the order of the ages counts: one of each will do.
FirstText == CHOOSE b \in Texts : TRUE
Age == CHOOSE f \in [Docs -> 1..Cardinality(Docs)] : \A d, e \in Docs : d # e => f[d] # f[e]

Init ==
  /\ wiki \in {w \in [Docs -> Snapshot] :
                \A d \in Docs : w[d].body = FirstText /\ w[d].time = Age[d]}
  /\ listed \in SUBSET Docs
  /\ changes = 0
  /\ events = {}
  /\ task = [t \in Tasks |-> NoTask]
  /\ synced = wiki
  /\ known = {} /\ retired = {}
  /\ bf = NoBackfill
  /\ failures = 0
  /\ calm = FALSE /\ steady = {}

-----------------------------------------------------------------------------
(***************************************************************************)
(* The wiki and its webhooks.  A delivery may be lost, late or repeated.   *)
(***************************************************************************)

Change(d, effect) ==
  /\ changes < MaxChanges
  /\ changes' = changes + 1
  /\ events' = events \cup {<<effect, d>>}
  /\ calm' = FALSE
  /\ UNCHANGED <<task, dbVars, bf, failures>>

Edit(d, b) ==
  /\ d \in listed
  /\ b # wiki[d].body
  /\ wiki' = [wiki EXCEPT ![d].body = b,
                          ![d].time = Cardinality(Docs) + changes + 1]
  /\ Change(d, "sync")
  /\ UNCHANGED <<listed, steady>>

\* A move leaves updatedAt alone.
Move(d, c) ==
  /\ d \in listed
  /\ c # wiki[d].coll
  /\ wiki' = [wiki EXCEPT ![d].coll = c]
  /\ Change(d, "sync")
  /\ steady' = IF InScope(c) THEN steady ELSE steady \ {d}
  /\ UNCHANGED listed

\* delete, archive, unpublish.
Remove(d) ==
  /\ d \in listed
  /\ listed' = listed \ {d}
  /\ Change(d, "retire")
  /\ steady' = steady \ {d}
  /\ UNCHANGED wiki

\* publish, restore: updatedAt stays as it is.
Publish(d) ==
  /\ d \notin listed
  /\ listed' = listed \cup {d}
  /\ Change(d, "sync")
  /\ UNCHANGED <<wiki, steady>>

Lose(e) ==
  /\ e \in events
  /\ events' = events \ {e}
  /\ UNCHANGED <<wikiVars, task, dbVars, bf, failures, calm, steady>>

\* receive_webhook: which of the two tasks a signed event starts.  A delivery that
\* is repeated stays on its way.
Deliver(e, t, again) ==
  /\ e \in events
  /\ task[t].place = "idle"
  /\ events' = IF again THEN events ELSE events \ {e}
  /\ task' = [task EXCEPT ![t] = [place |-> e[1], doc |-> e[2]]]
  /\ calm' = FALSE
  /\ UNCHANGED <<wikiVars, dbVars, bf, failures, steady>>

-----------------------------------------------------------------------------
(***************************************************************************)
(* What the connector writes.                                              *)
(***************************************************************************)

\* Mutant: a retired page is brought back with the body it was retired with.
IngestKeepingBody(d, snap) ==
  /\ synced' = [synced EXCEPT ![d] = IF d \in retired THEN [snap EXCEPT !.body = synced[d].body] ELSE snap]
  /\ known' = known \cup {d}
  /\ retired' = retired \ {d}

\* ingest_document: an empty page is not stored; otherwise the source row is always
\* written, and the page is not retired afterwards.
Ingest(d, snap) ==
  \/ /\ snap.body = NoText
     /\ UNCHANGED dbVars
  \/ /\ snap.body # NoText
     /\ synced' = [synced EXCEPT ![d] = snap]
     /\ known' = known \cup {d}
     /\ retired' = retired \ {d}

\* retire_document: a page without a source row is not ours.
RetirePage(d) ==
  /\ retired' = IF d \in known THEN retired \cup {d} ELSE retired
  /\ UNCHANGED <<synced, known>>

\* sync_document fetches the page; one that cannot be read is logged and skipped.
FetchForTask(t) ==
  /\ task[t].place = "sync"
  /\ task' = [task EXCEPT ![t] =
                IF task[t].doc \in listed
                THEN [place |-> "ingest", doc |-> task[t].doc, snap |-> wiki[task[t].doc]]
                ELSE NoTask]
  /\ UNCHANGED <<wikiVars, events, dbVars, bf, failures, calm, steady>>

IngestForTask(t) ==
  /\ task[t].place = "ingest"
  /\ Ingest(task[t].doc, task[t].snap)
  /\ task' = [task EXCEPT ![t] = NoTask]
  /\ calm' = FALSE
  /\ UNCHANGED <<wikiVars, events, bf, failures, steady>>

\* deactivate_document, which may also be the victim of a deadlock and give up.
RetireForTask(t, victim) ==
  /\ task[t].place = "retire"
  /\ IF victim THEN UNCHANGED dbVars ELSE RetirePage(task[t].doc)
  /\ task' = [task EXCEPT ![t] = NoTask]
  /\ calm' = FALSE
  /\ UNCHANGED <<wikiVars, events, bf, failures, steady>>

-----------------------------------------------------------------------------
(***************************************************************************)
(* The backfill.                                                           *)
(***************************************************************************)

\* What documents.list is asked for: each collection of the scope, or, for {},
\* everything.
Targets == IF Scope = {} THEN {{}} ELSE {{c} : c \in Scope}

StartBackfill ==
  /\ bf.place = "idle"
  /\ \E target \in Targets :
       bf' = [NoBackfill EXCEPT !.place = "list", !.at = target, !.todo = Targets \ {target}]
  /\ calm' = (events = {} /\ \A t \in Tasks : task[t].place = "idle")
  /\ steady' = Listing
  /\ UNCHANGED <<wikiVars, events, task, dbVars, failures>>

\* Newest first.
ListingAt == {d \in listed : bf.at = {} \/ wiki[d].coll \in bf.at}
Position(d) == Cardinality({e \in ListingAt : wiki[e].time > wiki[d].time})

\* iter_documents: the page at the offset; one that is not full is the last.
ListPage ==
  LET page == {d \in ListingAt : Position(d) \in bf.offset..(bf.offset + PageSize - 1)} IN
  /\ bf.place = "list"
  /\ bf' = [bf EXCEPT !.place = "items",
                      !.page = {[doc |-> d, coll |-> wiki[d].coll, time |-> wiki[d].time] : d \in page},
                      !.offset = @ + Cardinality(page),
                      !.more = Cardinality(page) = PageSize]
  /\ UNCHANGED <<wikiVars, events, task, dbVars, failures, calm, steady>>

\* Mutant: a retired page counts as unchanged.
UnchangedSincePublished(x) ==
  x.doc \in known /\ synced[x.doc].coll = x.coll /\ synced[x.doc].time = x.time

\* is_unchanged: by updatedAt and collection, and never for a retired page.
IsUnchanged(x) ==
  /\ x.doc \in known
  /\ x.doc \notin retired
  /\ synced[x.doc].coll = x.coll
  /\ synced[x.doc].time = x.time

Newest(x) == \A y \in bf.page : y.time <= x.time

SkipItem ==
  /\ bf.place = "items"
  /\ \E x \in bf.page :
       /\ Newest(x) /\ IsUnchanged(x)
       /\ bf' = [bf EXCEPT !.page = @ \ {x}, !.seen = @ \cup {x.doc}]
  /\ UNCHANGED <<wikiVars, events, task, dbVars, failures, calm, steady>>

TakeItem ==
  /\ bf.place = "items"
  /\ \E x \in bf.page :
       /\ Newest(x) /\ ~IsUnchanged(x)
       /\ bf' = [bf EXCEPT !.page = @ \ {x}, !.seen = @ \cup {x.doc},
                           !.place = "fetch", !.item = {x.doc}]
  /\ UNCHANGED <<wikiVars, events, task, dbVars, failures, calm, steady>>

\* get_document.
FetchItem ==
  /\ bf.place = "fetch"
  /\ \E d \in bf.item \cap listed :
       bf' = [bf EXCEPT !.place = "ingest", !.item = {[doc |-> d, snap |-> wiki[d]]}]
  /\ UNCHANGED <<wikiVars, events, task, dbVars, failures, calm, steady>>

\* The page has gone since it was listed, or the request fails: the run goes on.
FailItem ==
  /\ bf.place = "fetch"
  /\ \/ bf.item \cap listed = {} /\ failures' = failures
     \/ failures < MaxFailures /\ failures' = failures + 1
  /\ bf' = [bf EXCEPT !.place = "items", !.item = {}, !.failed = TRUE]
  /\ UNCHANGED <<wikiVars, events, task, dbVars, calm, steady>>

IngestItem ==
  /\ bf.place = "ingest"
  /\ \E x \in bf.item : Ingest(x.doc, x.snap)
  /\ bf' = [bf EXCEPT !.place = "items", !.item = {}]
  /\ UNCHANGED <<wikiVars, events, task, failures, calm, steady>>

\* The page is used up: the next page, the next collection, or the prune.
NextPage ==
  /\ bf.place = "items" /\ bf.page = {}
  /\ \/ bf.more /\ bf' = [bf EXCEPT !.place = "list"]
     \/ /\ ~bf.more
        /\ \E target \in bf.todo :
             bf' = [bf EXCEPT !.place = "list", !.at = target, !.todo = @ \ {target}, !.offset = 0]
     \/ ~bf.more /\ bf.todo = {} /\ bf' = [bf EXCEPT !.place = "prune"]
  /\ UNCHANGED <<wikiVars, events, task, dbVars, failures, calm, steady>>

\* fetch_synced_document_ids.
Served == {d \in known \ retired : InScope(synced[d].coll)}

EndBackfill == bf' = NoBackfill /\ calm' = FALSE /\ steady' = {}

\* Mutant: the run may end before its prune though nothing failed.
NoPruneAtWill ==
  /\ bf.place = "prune"
  /\ EndBackfill
  /\ UNCHANGED <<wikiVars, events, task, dbVars, failures>>

\* _prune does nothing after a failure.
NoPrune ==
  /\ bf.place = "prune" /\ bf.failed
  /\ EndBackfill
  /\ UNCHANGED <<wikiVars, events, task, dbVars, failures>>

ReadServed ==
  /\ bf.place = "prune" /\ ~bf.failed
  /\ bf' = [bf EXCEPT !.place = "retire", !.gone = Served \ bf.seen]
  /\ UNCHANGED <<wikiVars, events, task, dbVars, failures, calm, steady>>

Prune(d) ==
  /\ bf.place = "retire" /\ d \in bf.gone
  /\ RetirePage(d)
  /\ bf' = [bf EXCEPT !.gone = @ \ {d}]
  /\ UNCHANGED <<wikiVars, events, task, failures, calm, steady>>

FinishBackfill ==
  /\ bf.place = "retire" /\ bf.gone = {}
  /\ EndBackfill
  /\ UNCHANGED <<wikiVars, events, task, dbVars, failures>>

\* Any other exception, such as a deadlock victim's, ends the process; a request for
\* a listing that fails does too.
AbortBackfill ==
  /\ bf.place # "idle"
  /\ failures < MaxFailures
  /\ failures' = failures + 1
  /\ EndBackfill
  /\ UNCHANGED <<wikiVars, events, task, dbVars>>

BackfillStep ==
  \/ ListPage \/ SkipItem \/ TakeItem \/ FetchItem \/ FailItem \/ IngestItem
  \/ NextPage \/ NoPrune \/ ReadServed \/ FinishBackfill
  \/ \E d \in Docs : Prune(d)

TaskStep(t) ==
  \/ FetchForTask(t) \/ IngestForTask(t)
  \/ \E victim \in BOOLEAN : RetireForTask(t, victim)

Next ==
  \/ \E d \in Docs :
       \/ \E b \in Bodies : Edit(d, b)
       \/ \E c \in Collections : Move(d, c)
       \/ Remove(d) \/ Publish(d)
  \/ \E e \in events :
       \/ Lose(e)
       \/ \E t \in Tasks, again \in BOOLEAN : Deliver(e, t, again)
  \/ \E t \in Tasks : TaskStep(t)
  \/ StartBackfill \/ BackfillStep \/ AbortBackfill

Spec == Init /\ [][Next]_vars

\* The backfill is started again and again (cron) and its process runs, as do the
\* background tasks; no webhook is repeated for ever.  Nothing obliges the wiki to
\* change or a webhook to arrive.
Fairness ==
  /\ WF_vars(StartBackfill \/ BackfillStep)
  /\ \A t \in Tasks : WF_vars(TaskStep(t))
  /\ WF_vars(\E e \in events : Lose(e))

FairSpec == Spec /\ Fairness

-----------------------------------------------------------------------------
(***************************************************************************)
(* Properties.                                                             *)
(***************************************************************************)

\* What is_unchanged relies on: an equal updatedAt means the equal body, whatever
\* order snapshots have been fetched and ingested in, over removals and returns.
TimeTellsBody ==
  \A d \in known : synced[d].time = wiki[d].time => synced[d].body = wiki[d].body

\* The index has the pages of the scope that the wiki lists, as they are, and serves
\* none of the scope that it does not list.  Pages without text are left out: one
\* that is emptied keeps what it had.
InSync ==
  /\ \A d \in Listing : wiki[d].body # NoText => d \in known \ retired /\ synced[d] = wiki[d]
  /\ Served \subseteq Listing

\* A backfill that nothing disturbs repairs whatever lost, late and repeated
\* webhooks, races and aborted runs have left behind.
CalmBackfillRepairs ==
  [][FinishBackfill /\ calm => InSync]_vars

\* Once the wiki rests, the index follows it, though every webhook may be lost.
EventuallyInSync == <>[]InSync

\* The prune retires only pages that have gone: never one that the wiki has listed in
\* scope since the run started.  (The code: see the findings.)
PruneSparesListed ==
  [][\A d \in steady : ~Prune(d)]_vars
=============================================================================
