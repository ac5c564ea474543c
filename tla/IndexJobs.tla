------------------------------ MODULE IndexJobs ------------------------------
(***************************************************************************)
(* The index tables of OpenSQL AutoRAG and the transactions that change    *)
(* them: the workers' process_next_job, the connector's retire_document    *)
(* and ingest_document, and the API's document upload.                     *)
(*                                                                         *)
(* Every transaction is one psycopg connection: READ COMMITTED, committed  *)
(* on a clean exit and rolled back on an exception.  The table variables   *)
(* below hold committed rows only; what a transaction has written and not  *)
(* committed, and the rows it has locked, follow from its place pc[t] and  *)
(* its private record my[t], and reach the tables in its last step.  A     *)
(* statement that needs a row another transaction holds is an action that  *)
(* is not enabled until the row is free; a cycle of such waits is broken   *)
(* by aborting one member, as PostgreSQL does.                             *)
(***************************************************************************)
EXTENDS Integers, FiniteSets

CONSTANTS
  Docs,          \* document ids
  Bodies,        \* document bodies, identified with their file hash
  Chunks,        \* chunk texts, identified with their content hash
  Content,       \* Content[b]: the chunks the worker extracts from body b
  Models,        \* embedding models
  Workers,       \* worker processes
  ModelOf,       \* ModelOf[w]: the model worker w is configured with
  Retirers,      \* connector tasks that retire a document
  Writers,       \* connector tasks and API requests that store a new body
  MaxVersion,    \* bound: how many transactions may reserve a version
  MayFail,       \* whether extraction or embedding may raise
  MayCrash       \* whether a process may die in mid-transaction

CONSTANTS NoDoc, NoBody   \* the values of an unset document or body

Versions == 1..MaxVersion
Txns == Workers \cup Retirers \cup Writers

ASSUME ConfigAssumption ==
  /\ MaxVersion \in Nat
  /\ Content \in [Bodies -> SUBSET Chunks]
  /\ ModelOf \in [Workers -> Models]
  /\ MayFail \in BOOLEAN
  /\ MayCrash \in BOOLEAN

ASSUME NullAssumption == NoDoc \notin Docs /\ NoBody \notin Bodies

ASSUME TxnAssumption ==
  /\ Workers \cap Retirers = {}
  /\ Workers \cap Writers = {}
  /\ Retirers \cap Writers = {}

VARIABLES
  retired,   \* [Docs -> BOOLEAN]: documents.retired_at IS NOT NULL
  current,   \* [Docs -> {0} \cup Versions]: documents.current_version_id
  source,    \* [Docs -> Bodies \cup {NoBody}]: document_sources.last_file_hash
  vdoc,      \* [Versions -> Docs \cup {NoDoc}]: document_versions.document_id
  vbody,     \* [Versions -> Bodies \cup {NoBody}]: what source_path stores
  job,       \* [Versions -> JobStatus]: the one index_jobs row of a version
  active,    \* [Versions -> SUBSET Chunks]: its document_chunks with active
  rows,      \* [Versions -> SUBSET Chunks]: all its document_chunks
  next,      \* the version number the next transaction reserves
  pc,        \* [Txns -> STRING]: how far each transaction has got
  my         \* [Txns -> Private]: what each transaction read and wrote

tables == <<retired, current, source, vdoc, vbody, job, active, rows>>
vars == <<tables, next, pc, my>>

JobStatus == {"none", "pending", "succeeded", "failed", "cancelled"}
Finished == {"succeeded", "failed", "cancelled"}

Places == {"idle", "dead", "claim", "write", "deactivate", "complete",
           "cancel", "hide", "ingest", "skip", "reactivate", "store"}

\* A document row is inserted with its first version and never deleted.
Known(d) == \E v \in Versions : vdoc[v] = d
JobsOf(d) == {v \in Versions : vdoc[v] = d}
PendingOf(d) == {v \in JobsOf(d) : job[v] = "pending"}

Private ==
  [doc: Docs \cup {NoDoc}, ver: {0} \cup Versions, body: Bodies \cup {NoBody},
   sync: BOOLEAN,           \* a writer: from the wiki, so it has a source row
   same: BOOLEAN,           \* a writer: the stored hash was already this one
   revived: BOOLEAN,        \* a writer: it has cleared retired_at
   show: BOOLEAN,           \* a worker: complete_indexing found no retired_at
   wrote: SUBSET Chunks,    \* a worker: the chunk rows it has inserted
   seen: SUBSET Versions]   \* versions whose rows its last statement matched

Nothing == [doc |-> NoDoc, ver |-> 0, body |-> NoBody, sync |-> FALSE,
            same |-> FALSE, revived |-> FALSE, show |-> FALSE,
            wrote |-> {}, seen |-> {}]

-----------------------------------------------------------------------------
(***************************************************************************)
(* Row locks.                                                              *)
(***************************************************************************)

\* The worker is between claim_next_job and the end of its transaction.
Indexing(w) == pc[w] \in {"write", "deactivate", "complete"}

\* resolve_embedding_model_id upserts the model's row, which stays locked until
\* the transaction ends.
HoldsModel(w, m) == pc[w] \notin {"idle", "dead"} /\ ModelOf[w] = m

HoldsDoc(t, d) ==
  /\ my[t].doc = d
  /\ \/ t \in Retirers /\ pc[t] \in {"cancel", "hide"}
     \/ t \in Writers /\ my[t].revived

DocFree(t, d) == \A u \in Txns \ {t} : ~HoldsDoc(u, d)

HoldsJob(t, v) ==
  \/ t \in Workers /\ Indexing(t) /\ my[t].ver = v
  \/ t \in Retirers /\ v \in my[t].seen

JobFree(v) == \A t \in Workers \cup Retirers : ~HoldsJob(t, v)

\* The chunk rows complete_indexing has updated and not committed.
HoldsChunks(w, v) == pc[w] = "complete" /\ v \in my[w].seen

\* Who a transaction's next statement waits for.
WaitsFor(t, u) ==
  \/ /\ t \in Retirers /\ pc[t] = "cancel" /\ u \in Workers
     /\ \E v \in PendingOf(my[t].doc) : HoldsJob(u, v)
  \/ /\ t \in Workers /\ pc[t] = "deactivate" /\ u \in Workers \ {t}
     /\ \E v \in my[t].seen : HoldsChunks(u, v)
  \/ /\ t \in Workers /\ pc[t] = "complete" /\ u \in Txns
     /\ HoldsDoc(u, my[t].doc)

\* No longer cycle exists: only a retirement waits for a worker's job, and a
\* worker that waits for chunk rows waits for one that waits for the document.
Deadlocked(t) ==
  \E u \in Txns : /\ WaitsFor(t, u)
                  /\ \/ WaitsFor(u, t)
                     \/ \E x \in Txns : WaitsFor(u, x) /\ WaitsFor(x, t)

-----------------------------------------------------------------------------
Init ==
  /\ retired = [d \in Docs |-> FALSE]
  /\ current = [d \in Docs |-> 0]
  /\ source = [d \in Docs |-> NoBody]
  /\ vdoc = [v \in Versions |-> NoDoc]
  /\ vbody = [v \in Versions |-> NoBody]
  /\ job = [v \in Versions |-> "none"]
  /\ active = [v \in Versions |-> {}]
  /\ rows = [v \in Versions |-> {}]
  /\ next = 1
  /\ pc = [t \in Txns |-> "idle"]
  /\ my = [t \in Txns |-> Nothing]

Goto(t, place) == pc' = [pc EXCEPT ![t] = place]

\* The transaction is over: its locks and its private state are gone.
End(t, place) == Goto(t, place) /\ my' = [my EXCEPT ![t] = Nothing]

-----------------------------------------------------------------------------
(***************************************************************************)
(* A worker: process_next_job, one transaction per job.                    *)
(***************************************************************************)

\* The first statement that locks: it waits while another worker that embeds
\* with the same model is inside a transaction.
ResolveEmbeddingModel(w) ==
  /\ pc[w] = "idle"
  /\ \A u \in Workers \ {w} : ~HoldsModel(u, ModelOf[w])
  /\ Goto(w, "claim")
  /\ UNCHANGED <<tables, next, my>>

\* Mutant: the claim does not skip rows that are locked.
ClaimableLocked == {v \in Versions : job[v] = "pending"}

\* FOR UPDATE SKIP LOCKED: pending jobs nobody holds.
Claimable == {v \in Versions : job[v] = "pending" /\ JobFree(v)}

\* Mutant: the newest job first.
ClaimNewestJob(w) ==
  /\ pc[w] = "claim"
  /\ \E v \in Claimable :
       /\ \A u \in Claimable : v >= u
       /\ my' = [my EXCEPT ![w].ver = v, ![w].doc = vdoc[v]]
  /\ Goto(w, "write")
  /\ UNCHANGED <<tables, next>>

\* ORDER BY created_at: now() is when the inserting transaction began, which is
\* when it reserved its version number.
ClaimNextJob(w) ==
  /\ pc[w] = "claim"
  /\ \E v \in Claimable :
       /\ \A u \in Claimable : v <= u
       /\ my' = [my EXCEPT ![w].ver = v, ![w].doc = vdoc[v]]
  /\ Goto(w, "write")
  /\ UNCHANGED <<tables, next>>

\* Mutant: the connection is kept open across polls.
FindNoJobKeepingTransaction(w) ==
  /\ pc[w] = "claim"
  /\ Claimable = {}
  /\ UNCHANGED vars

FindNoJob(w) ==
  /\ pc[w] = "claim"
  /\ Claimable = {}
  /\ End(w, "idle")
  /\ UNCHANGED <<tables, next>>

\* Either insert of the loop: both write the row with active = TRUE.
InsertChunk(w) ==
  /\ pc[w] = "write"
  /\ \E c \in Content[vbody[my[w].ver]] \ my[w].wrote :
       my' = [my EXCEPT ![w].wrote = @ \cup {c}]
  /\ UNCHANGED <<tables, next, pc>>

\* Mutant: completion ignores retired_at.
StartCompletingRetired(w) ==
  /\ pc[w] = "write"
  /\ my[w].wrote = Content[vbody[my[w].ver]]
  /\ my' = [my EXCEPT ![w].seen = {v \in JobsOf(my[w].doc) : rows[v] # {}},
                      ![w].show = TRUE]
  /\ Goto(w, "deactivate")
  /\ UNCHANGED <<tables, next>>

\* The snapshot of complete_indexing's first UPDATE: the committed chunk rows
\* of the document, and its retired_at.
StartCompleting(w) ==
  /\ pc[w] = "write"
  /\ my[w].wrote = Content[vbody[my[w].ver]]
  /\ my' = [my EXCEPT ![w].seen = {v \in JobsOf(my[w].doc) : rows[v] # {}},
                      ![w].show = ~retired[my[w].doc]]
  /\ Goto(w, "deactivate")
  /\ UNCHANGED <<tables, next>>

\* That UPDATE has locked every chunk row it matched.
UpdateChunks(w) ==
  /\ pc[w] = "deactivate"
  /\ \A u \in Workers \ {w}, v \in my[w].seen : ~HoldsChunks(u, v)
  /\ Goto(w, "complete")
  /\ UNCHANGED <<tables, next, my>>

\* Mutant: the chunks of earlier versions stay active.
CompleteKeepingOld(w) ==
  LET v == my[w].ver IN
  /\ pc[w] = "complete"
  /\ DocFree(w, my[w].doc)
  /\ rows' = [rows EXCEPT ![v] = my[w].wrote]
  /\ active' = [active EXCEPT ![v] = IF my[w].show THEN my[w].wrote ELSE {}]
  /\ current' = [current EXCEPT ![my[w].doc] = v]
  /\ job' = [job EXCEPT ![v] = "succeeded"]
  /\ End(w, "idle")
  /\ UNCHANGED <<retired, source, vdoc, vbody, next>>

\* The UPDATE of documents, the last statement that can wait, and the commit.
CompleteIndexing(w) ==
  LET v == my[w].ver IN
  /\ pc[w] = "complete"
  /\ DocFree(w, my[w].doc)
  /\ rows' = [rows EXCEPT ![v] = my[w].wrote]
  /\ active' = [u \in Versions |->
                  IF u = v THEN IF my[w].show THEN my[w].wrote ELSE {}
                  ELSE IF u \in my[w].seen THEN {} ELSE active[u]]
  /\ current' = [current EXCEPT ![my[w].doc] = v]
  /\ job' = [job EXCEPT ![v] = "succeeded"]
  /\ End(w, "idle")
  /\ UNCHANGED <<retired, source, vdoc, vbody, next>>

\* Mutant: a failure puts the job back in the queue.
FailAndRetry(w) ==
  LET v == my[w].ver IN
  /\ MayFail
  /\ pc[w] = "write"
  /\ my[w].wrote = {} \/ my[w].wrote # Content[vbody[v]]
  /\ End(w, "idle")
  /\ UNCHANGED <<tables, next>>

\* Mutant: a failure records a status no reader knows.
FailUnknown(w) ==
  LET v == my[w].ver IN
  /\ MayFail
  /\ pc[w] = "write"
  /\ my[w].wrote = {} \/ my[w].wrote # Content[vbody[v]]
  /\ rows' = [rows EXCEPT ![v] = my[w].wrote]
  /\ active' = [active EXCEPT ![v] = my[w].wrote]
  /\ job' = [job EXCEPT ![v] = "error"]
  /\ End(w, "idle")
  /\ UNCHANGED <<retired, current, source, vdoc, vbody, next>>

\* Extraction or embedding raised: mark_job_failed, and the transaction commits
\* with the chunk rows inserted so far.
MarkJobFailed(w) ==
  LET v == my[w].ver IN
  /\ MayFail
  /\ pc[w] = "write"
  /\ my[w].wrote = {} \/ my[w].wrote # Content[vbody[v]]
  /\ rows' = [rows EXCEPT ![v] = my[w].wrote]
  /\ active' = [active EXCEPT ![v] = my[w].wrote]
  /\ job' = [job EXCEPT ![v] = "failed"]
  /\ End(w, "idle")
  /\ UNCHANGED <<retired, current, source, vdoc, vbody, next>>

\* Whoever runs the worker starts it again; nothing in the repository does.
RestartWorker(w) ==
  /\ pc[w] = "dead"
  /\ Goto(w, "idle")
  /\ UNCHANGED <<tables, next, my>>

-----------------------------------------------------------------------------
(***************************************************************************)
(* retire_document: a removal webhook, or the backfill's prune.            *)
(***************************************************************************)

\* It has a source row, so deactivate_document finds the documents row too and
\* locks it.  Without a source row the function returns and nothing changes.
RetireDocument(r, d) ==
  /\ pc[r] = "idle"
  /\ source[d] # NoBody
  /\ DocFree(r, d)
  /\ my' = [my EXCEPT ![r].doc = d]
  /\ Goto(r, "cancel")
  /\ UNCHANGED <<tables, next>>

\* Mutant: a job a worker holds is cancelled without waiting for it.
CancelJobAtOnce(r) ==
  /\ pc[r] = "cancel"
  /\ \E v \in PendingOf(my[r].doc) :
       my' = [my EXCEPT ![r].seen = @ \cup {v}]
  /\ UNCHANGED <<tables, next, pc>>

\* One row of the UPDATE of index_jobs.  A row a worker holds is waited for,
\* and looked at again when the worker has committed or rolled back.
CancelJob(r) ==
  /\ pc[r] = "cancel"
  /\ \E v \in PendingOf(my[r].doc) :
       /\ JobFree(v)
       /\ my' = [my EXCEPT ![r].seen = @ \cup {v}]
  /\ UNCHANGED <<tables, next, pc>>

CancelledAllJobs(r) ==
  /\ pc[r] = "cancel"
  /\ PendingOf(my[r].doc) \subseteq my[r].seen
  /\ Goto(r, "hide")
  /\ UNCHANGED <<tables, next, my>>

\* The UPDATE of document_chunks, with a snapshot of its own, and the commit.
HideChunks(r) ==
  LET d == my[r].doc IN
  /\ pc[r] = "hide"
  /\ \A w \in Workers, v \in JobsOf(d) : active[v] # {} => ~HoldsChunks(w, v)
  /\ retired' = [retired EXCEPT ![d] = TRUE]
  /\ job' = [v \in Versions |-> IF v \in my[r].seen THEN "cancelled" ELSE job[v]]
  /\ active' = [v \in Versions |-> IF vdoc[v] = d THEN {} ELSE active[v]]
  /\ End(r, "idle")
  /\ UNCHANGED <<current, source, vdoc, vbody, rows, next>>

-----------------------------------------------------------------------------
(***************************************************************************)
(* ingest_document, and _store_document_upload, which only stores.         *)
(***************************************************************************)

\* get_document_source: is the body the one already synced?  With force the
\* answer is not used.
IngestDocument(i, d, b, force) ==
  /\ pc[i] = "idle"
  /\ next <= MaxVersion
  /\ my' = [my EXCEPT ![i] = [Nothing EXCEPT !.doc = d, !.ver = next, !.body = b,
                                !.sync = TRUE, !.same = source[d] = b /\ ~force]]
  /\ next' = next + 1
  /\ Goto(i, "ingest")
  /\ UNCHANGED tables

\* is_retired, a second statement that may see a later state.
ReadRetired(i) ==
  /\ pc[i] = "ingest"
  /\ Goto(i, IF retired[my[i].doc] THEN "reactivate"
             ELSE IF my[i].same THEN "skip" ELSE "store")
  /\ UNCHANGED <<tables, next, my>>

\* record_source alone.
SkipUnchanged(i) ==
  /\ pc[i] = "skip"
  /\ source' = [source EXCEPT ![my[i].doc] = my[i].body]
  /\ End(i, "idle")
  /\ UNCHANGED <<retired, current, vdoc, vbody, job, active, rows, next>>

\* Mutant: retired_at is cleared in a transaction of its own.
ReactivateApart(i) ==
  LET d == my[i].doc IN
  /\ pc[i] = "reactivate"
  /\ DocFree(i, d)
  /\ retired' = [retired EXCEPT ![d] = FALSE]
  /\ Goto(i, "store")
  /\ UNCHANGED <<current, source, vdoc, vbody, job, active, rows, next, my>>

\* The UPDATE matches, and so waits and locks, only if the row is still retired.
ReactivateDocument(i) ==
  LET d == my[i].doc IN
  /\ pc[i] = "reactivate"
  /\ retired[d] => DocFree(i, d)
  /\ my' = [my EXCEPT ![i].revived = retired[d]]
  /\ Goto(i, "store")
  /\ UNCHANGED <<tables, next>>

UploadDocument(i, d, b) ==
  /\ pc[i] = "idle"
  /\ next <= MaxVersion
  /\ my' = [my EXCEPT ![i] = [Nothing EXCEPT !.doc = d, !.ver = next, !.body = b]]
  /\ next' = next + 1
  /\ Goto(i, "store")
  /\ UNCHANGED tables

\* Mutant: coming back makes the old chunks active at once.
CreateVersionShowingOld(i) ==
  LET d == my[i].doc
      v == my[i].ver IN
  /\ pc[i] = "store"
  /\ DocFree(i, d)
  /\ retired' = [retired EXCEPT ![d] = @ /\ ~my[i].revived]
  /\ vdoc' = [vdoc EXCEPT ![v] = d]
  /\ vbody' = [vbody EXCEPT ![v] = my[i].body]
  /\ job' = [job EXCEPT ![v] = "pending"]
  /\ source' = [source EXCEPT ![d] = IF my[i].sync THEN my[i].body ELSE @]
  /\ active' = [u \in Versions |->
                  IF my[i].revived /\ u = current[d] THEN rows[u] ELSE active[u]]
  /\ End(i, "idle")
  /\ UNCHANGED <<current, rows, next>>

\* Upsert documents, insert the version and its pending job, record the source,
\* commit.
CreateDocumentVersion(i) ==
  LET d == my[i].doc
      v == my[i].ver IN
  /\ pc[i] = "store"
  /\ DocFree(i, d)
  /\ retired' = [retired EXCEPT ![d] = @ /\ ~my[i].revived]
  /\ vdoc' = [vdoc EXCEPT ![v] = d]
  /\ vbody' = [vbody EXCEPT ![v] = my[i].body]
  /\ job' = [job EXCEPT ![v] = "pending"]
  /\ source' = [source EXCEPT ![d] = IF my[i].sync THEN my[i].body ELSE @]
  /\ End(i, "idle")
  /\ UNCHANGED <<current, active, rows, next>>

-----------------------------------------------------------------------------
(***************************************************************************)
(* Rollbacks.  A worker's exception leaves run_worker, which has no        *)
(* handler, so its process is gone; a connector task logs it and ends.     *)
(***************************************************************************)

Rollback(t) ==
  /\ End(t, IF t \in Workers THEN "dead" ELSE "idle")
  /\ UNCHANGED <<tables, next>>

AbortDeadlocked(t) == Deadlocked(t) /\ Rollback(t)

Crash(t) == MayCrash /\ pc[t] \notin {"idle", "dead"} /\ Rollback(t)

WorkerStep(w) ==
  \/ ResolveEmbeddingModel(w) \/ ClaimNextJob(w) \/ FindNoJob(w)
  \/ InsertChunk(w) \/ StartCompleting(w) \/ UpdateChunks(w)
  \/ CompleteIndexing(w)

RetireStep(r) == CancelJob(r) \/ CancelledAllJobs(r) \/ HideChunks(r)

WriteStep(i) ==
  ReadRetired(i) \/ SkipUnchanged(i) \/ ReactivateDocument(i) \/ CreateDocumentVersion(i)

Next ==
  \/ \E w \in Workers : WorkerStep(w) \/ MarkJobFailed(w) \/ RestartWorker(w)
  \/ \E r \in Retirers : RetireStep(r) \/ \E d \in Docs : RetireDocument(r, d)
  \/ \E i \in Writers : WriteStep(i)
  \/ \E i \in Writers, d \in Docs, b \in Bodies :
       \/ UploadDocument(i, d, b)
       \/ \E force \in BOOLEAN : IngestDocument(i, d, b, force)
  \/ \E t \in Txns : AbortDeadlocked(t) \/ Crash(t)

Spec == Init /\ [][Next]_vars

\* Processes that run take their steps; a row lock goes to those who queue for it
\* when its holder ends, so a waiting statement is not overtaken for ever (strong
\* fairness); deadlock_timeout breaks every deadlock; a dead worker is started
\* again.  Nothing obliges anybody to ask for a change.
Fairness ==
  /\ \A w \in Workers : SF_vars(WorkerStep(w)) /\ WF_vars(RestartWorker(w))
  /\ \A r \in Retirers : SF_vars(RetireStep(r))
  /\ \A i \in Writers : SF_vars(WriteStep(i))
  /\ WF_vars(\E t \in Txns : AbortDeadlocked(t))

FairSpec == Spec /\ Fairness

-----------------------------------------------------------------------------
(***************************************************************************)
(* Properties.                                                             *)
(***************************************************************************)

TypeOK ==
  /\ retired \in [Docs -> BOOLEAN]
  /\ current \in [Docs -> {0} \cup Versions]
  /\ source \in [Docs -> Bodies \cup {NoBody}]
  /\ vdoc \in [Versions -> Docs \cup {NoDoc}]
  /\ vbody \in [Versions -> Bodies \cup {NoBody}]
  /\ job \in [Versions -> JobStatus]
  /\ active \in [Versions -> SUBSET Chunks]
  /\ rows \in [Versions -> SUBSET Chunks]
  /\ next \in 1..(MaxVersion + 1)
  /\ pc \in [Txns -> Places]
  /\ my \in [Txns -> Private]

\* Nothing of a retired document is searchable, whatever jobs were queued or
\* running when it was retired -- except what a job that failed has left behind,
\* which no statement of the code takes away (see PartialIndexIsHidden).
RetiredUnsearchable ==
  \A v \in Versions :
    vdoc[v] # NoDoc /\ job[v] # "failed" /\ active[v] # {} => ~retired[vdoc[v]]

\* What search reads is the whole of the current version and no other: two
\* indexed versions are never searchable together, and a version is not
\* searchable in part.
ServedIsCurrentAndWhole ==
  \A v \in Versions : job[v] = "succeeded" /\ active[v] # {} =>
    v = current[vdoc[v]] /\ active[v] = Content[vbody[v]]

\* A document that is not retired is never silently absent from search: its
\* current version is searchable, or a job is there that will make one so, or
\* one has failed.
LiveIsServedOrQueued ==
  \A d \in Docs : Known(d) /\ ~retired[d] =>
    \/ PendingOf(d) # {}
    \/ current[d] # 0 /\ active[current[d]] = Content[vbody[current[d]]]
    \/ \E v \in JobsOf(d) : job[v] = "failed"

\* No two workers are ever inside the same job.
EachJobHasOneWorker ==
  \A w, u \in Workers :
    w # u /\ Indexing(w) /\ Indexing(u) => my[w].ver # my[u].ver

\* A job that succeeded, failed or was cancelled keeps that status: a removal
\* that waited for the worker does not cancel what the worker has finished.
FinishedJobsStay ==
  [][\A v \in Versions : job[v] \in Finished => job'[v] = job[v]]_vars

\* Once removals stop arriving, every queued job is finished in the end, also
\* across the deadlocks that killed workers, as long as somebody starts them again.
JobsDrain ==
  <>[](\A r \in Retirers : pc[r] = "idle") =>
    \A v \in Versions : (job[v] = "pending") ~> (job[v] \in Finished)

\* No transaction is stuck for ever: whatever it waits for is released or
\* aborted.
TransactionsEnd ==
  \A t \in Txns : (pc[t] \notin {"idle", "dead"}) ~> (pc[t] \in {"idle", "dead"})

\* The abstraction: a document serves its current version if that has active
\* chunks, a version is spent once its job is finished, and one whose body the
\* worker extracts nothing from is blank.
served == [d \in Docs |->
             IF current[d] # 0 /\ active[current[d]] # {} THEN current[d] ELSE 0]
spent == {v \in Versions : job[v] \in Finished}
blank == {v \in Versions : job[v] # "none" /\ Content[vbody[v]] = {}}
Served == INSTANCE ServedIndex WITH gone <- retired

\* Searchers see the abstract index: versions are published whole and once, never
\* for a withdrawn document, and coming back publishes nothing by itself.
ImplementsServedIndex == Served!Spec

\* Partial results are written under a version that is not searchable.  (The code:
\* see the findings.)
PartialIndexIsHidden ==
  \A v \in Versions : job[v] = "failed" => active[v] = {}
=============================================================================
