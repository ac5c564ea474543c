------------------------------ MODULE PageSync ------------------------------
(***************************************************************************)
(* A wiki page on its whole way into search: IndexJobs with the wiki in    *)
(* front of it.  The page is edited, removed and published; webhook tasks  *)
(* and the backfill fetch it and ingest what they have fetched, statement  *)
(* by statement; removals arrive late or are found by the prune; workers   *)
(* index.                                                                  *)
(*                                                                         *)
(* A connector that lists the page, asks is_unchanged and fetches it is    *)
(* one step here; OutlineSync has the listing.  Nobody uploads to a page.  *)
(***************************************************************************)
EXTENDS IndexJobs

CONSTANTS
  FirstBody,    \* FirstBody[d]: what page d says when it is made
  MaxChanges    \* bound: changes of the wiki

ASSUME PageAssumption == FirstBody \in [Docs -> Bodies] /\ MaxChanges \in Nat

VARIABLES
  wiki,      \* [Docs -> Page]: time is updatedAt
  changes,   \* how often the wiki has changed
  removals,  \* pages with a removal webhook on its way
  stamp,     \* [Docs -> time]: document_sources.external_updated_at
  got,       \* [Writers -> what the connector task has fetched]
  overlap,   \* history: writers whose ingest has met another one of its page
  mixed      \* history: pages whose last committed ingest was such a one, or whose
             \* versions a removal has put out of order

front == <<wiki, changes, removals, stamp, got, overlap, mixed>>
allVars == <<vars, front>>

Page == [body: Bodies, time: 0..MaxChanges, listed: BOOLEAN]
Nobody == [doc |-> NoDoc, body |-> NoBody, time |-> 0]

\* A page that was removed and published before may have that webhook on its way.
PageInit ==
  /\ Init
  /\ wiki = [d \in Docs |-> [body |-> FirstBody[d], time |-> 0, listed |-> TRUE]]
  /\ changes = 0
  /\ removals \in SUBSET Docs
  /\ stamp = [d \in Docs |-> 0]
  /\ got = [i \in Writers |-> Nobody]
  /\ overlap = {} /\ mixed = {}

-----------------------------------------------------------------------------
(***************************************************************************)
(* The wiki.  updatedAt is the time of the last edit.                      *)
(***************************************************************************)

Change(d, page) ==
  /\ changes < MaxChanges
  /\ changes' = changes + 1
  /\ wiki' = [wiki EXCEPT ![d] = page]
  /\ UNCHANGED <<vars, stamp, got, overlap, mixed>>

Edit(d, b) ==
  /\ wiki[d].listed /\ b # wiki[d].body
  /\ Change(d, [body |-> b, time |-> changes + 1, listed |-> TRUE])
  /\ UNCHANGED removals

Remove(d) ==
  /\ wiki[d].listed
  /\ Change(d, [wiki[d] EXCEPT !.listed = FALSE])
  /\ removals' = removals \cup {d}

Publish(d) ==
  /\ ~wiki[d].listed
  /\ Change(d, [wiki[d] EXCEPT !.listed = TRUE])
  /\ UNCHANGED removals

LoseRemoval(d) ==
  /\ d \in removals
  /\ removals' = removals \ {d}
  /\ UNCHANGED <<vars, wiki, changes, stamp, got, overlap, mixed>>

-----------------------------------------------------------------------------
(***************************************************************************)
(* The connector.                                                          *)
(***************************************************************************)

\* is_unchanged, of a page as it is listed now.
IsUnchanged(d) == source[d] # NoBody /\ ~retired[d] /\ stamp[d] = wiki[d].time

\* get_document: for a webhook, however late or repeated, or for the backfill.
Fetch(i, d) ==
  /\ pc[i] = "idle" /\ got[i] = Nobody
  /\ wiki[d].listed
  /\ got' = [got EXCEPT ![i] = [doc |-> d, body |-> wiki[d].body, time |-> wiki[d].time]]
  /\ UNCHANGED <<vars, wiki, changes, removals, stamp, overlap, mixed>>

\* Mutant: the backfill leaves out pages that are known to be retired.
BackfillFetchLive(i, d) == ~retired[d] /\ ~IsUnchanged(d) /\ Fetch(i, d)

BackfillFetch(i, d) == ~IsUnchanged(d) /\ Fetch(i, d)

Others(i) == {j \in Writers \ {i} : my[j].doc = got[i].doc}

BeginIngest(i) ==
  /\ got[i] # Nobody
  /\ IngestDocument(i, got[i].doc, got[i].body, FALSE)
  /\ overlap' = IF Others(i) = {} THEN overlap ELSE overlap \cup {i} \cup Others(i)
  /\ UNCHANGED <<wiki, changes, removals, stamp, got, mixed>>

\* A step inside the ingest, which may be the last but one.
IngestStep(i) ==
  /\ ReadRetired(i) \/ ReactivateDocument(i)
  /\ UNCHANGED front

\* record_source and the commit, with or without a new version.  A version that
\* was stored while nobody else was at it puts the page in order.
CommitIngest(i) ==
  /\ \/ SkipUnchanged(i) /\ mixed' = IF i \in overlap THEN mixed \cup {my[i].doc} ELSE mixed
     \/ CreateDocumentVersion(i) /\ mixed' = IF i \in overlap THEN mixed \cup {my[i].doc}
                                            ELSE mixed \ {my[i].doc}
  /\ stamp' = [stamp EXCEPT ![my[i].doc] = got[i].time]
  /\ got' = [got EXCEPT ![i] = Nobody]
  /\ overlap' = overlap \ {i}
  /\ UNCHANGED <<wiki, changes, removals>>

\* The webhook's task, or the prune of a backfill that does not find the page.
RetireForEvent(r, d) ==
  /\ d \in removals
  /\ removals' = removals \ {d}
  /\ RetireDocument(r, d)
  /\ UNCHANGED <<wiki, changes, stamp, got, overlap, mixed>>

Prune(r, d) ==
  /\ ~wiki[d].listed /\ ~retired[d]
  /\ RetireDocument(r, d)
  /\ UNCHANGED front

\* The removal has kept an older job of the page locked, and the worker's claim has
\* skipped it for a newer one.
HeldBack(r) ==
  \E w \in Workers, v \in my[r].seen :
    Indexing(w) /\ my[w].doc = my[r].doc /\ v < my[w].ver

\* A transaction is rolled back; what a writer had fetched is lost with it, and the
\* jobs of a removal are free again.
RollbackFront(t) ==
  /\ AbortDeadlocked(t) \/ Crash(t)
  /\ mixed' = IF t \in Retirers /\ HeldBack(t) THEN mixed \cup {my[t].doc} ELSE mixed
  /\ got' = [i \in Writers |-> IF i = t THEN Nobody ELSE got[i]]
  /\ overlap' = overlap \ {t}
  /\ UNCHANGED <<wiki, changes, removals, stamp>>

Index(w) == WorkerStep(w) /\ UNCHANGED front
FailJob(w) == MarkJobFailed(w) /\ UNCHANGED front
Restart(w) == RestartWorker(w) /\ UNCHANGED front
FinishRetiring(r) == RetireStep(r) /\ UNCHANGED front
Ingest(i) == BeginIngest(i) \/ IngestStep(i) \/ CommitIngest(i)

PageNext ==
  \/ \E d \in Docs : \/ \E b \in Bodies : Edit(d, b)
                     \/ Remove(d) \/ Publish(d) \/ LoseRemoval(d)
  \/ \E i \in Writers : Ingest(i) \/ \E d \in Docs : Fetch(i, d)
  \/ \E r \in Retirers : \/ FinishRetiring(r)
                         \/ \E d \in Docs : RetireForEvent(r, d) \/ Prune(r, d)
  \/ \E w \in Workers : Index(w) \/ FailJob(w) \/ Restart(w)
  \/ \E t \in Txns : RollbackFront(t)

PageSpec == PageInit /\ [][PageNext]_allVars

\* As in IndexJobs; and the backfill runs again and again, and prunes.  The wiki
\* need not change and no webhook need arrive.
PageFairness ==
  /\ \A w \in Workers : SF_allVars(Index(w)) /\ WF_allVars(Restart(w))
  /\ \A r \in Retirers : SF_allVars(FinishRetiring(r))
  /\ \A i \in Writers : SF_allVars(Ingest(i))
  /\ WF_allVars(\E t \in Txns : RollbackFront(t) /\ Deadlocked(t))
  /\ \A d \in Docs : /\ SF_allVars(\E i \in Writers : BackfillFetch(i, d))
                     /\ SF_allVars(\E r \in Retirers : Prune(r, d))

FairPageSpec == PageSpec /\ PageFairness

-----------------------------------------------------------------------------
(***************************************************************************)
(* Properties.                                                             *)
(***************************************************************************)

\* Search finds the page as the wiki has it, or not at all if the wiki does not.
ServedAsListed(d) ==
  LET shown == {v \in JobsOf(d) : active[v] # {}} IN
  IF wiki[d].listed
  THEN /\ current[d] # 0 /\ shown \subseteq {current[d]}
       /\ vbody[current[d]] = wiki[d].body
       /\ active[current[d]] = Content[wiki[d].body]
  ELSE shown = {}

\* What the code leaves as it is: a job that failed after the version that is
\* served is not tried again; of two ingests of a page at a time, the one that
\* began last is served, and the one that committed last is in document_sources;
\* and when a removal is broken off while a job waits for it, the worker comes to
\* that job after the newer one it has taken meanwhile, and serves the older body.
Excused(d) ==
  d \in mixed \/ \E v \in JobsOf(d) : job[v] = "failed" /\ v > current[d]

\* The backfill may skip what is_unchanged calls unchanged: when the jobs of the
\* page are done, search serves it as the wiki has it.
UnchangedIsServed ==
  \A d \in Docs :
    PendingOf(d) = {} /\ IsUnchanged(d) /\ wiki[d].listed /\ ~Excused(d) => ServedAsListed(d)

\* The bound on ingests is used up and the backfill would still want one.
OutOfVersions(d) == next > MaxVersion /\ wiki[d].listed /\ ~IsUnchanged(d)

\* Once the wiki rests, every page is served as it is there and removed pages are
\* not, although all webhooks may be lost, repeated or late, and although removals,
\* ingests and workers wait for and abort each other.
PagesAreServed == \A d \in Docs : <>[](ServedAsListed(d) \/ Excused(d) \/ OutOfVersions(d))
=============================================================================
