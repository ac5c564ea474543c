---------------------------- MODULE IndexProofs ----------------------------
(***************************************************************************)
(* Proofs about the index: IndexJobs, for every number of documents,       *)
(* workers, removal and ingestion tasks, with failures, crashes and        *)
(* deadlock victims, then PageSync, for any number of pages and changes of *)
(* the wiki besides.                                                       *)
(***************************************************************************)
EXTENDS PageSync, TLAPS

\* Where a transaction of each kind can be.
PcInv ==
  /\ \A w \in Workers :
       pc[w] \in {"idle", "dead", "claim", "write", "deactivate", "complete"}
  /\ \A r \in Retirers : pc[r] \in {"idle", "cancel", "hide"}
  /\ \A i \in Writers : pc[i] \in {"idle", "ingest", "skip", "reactivate", "store"}

\* A version exists once it has a job, and has chunks in the index only once the
\* job is over.
VersionInv ==
  \A v \in Versions :
    /\ job[v] # "none" => vdoc[v] \in Docs /\ vbody[v] \in Bodies /\ v < next
    /\ vdoc[v] # NoDoc => job[v] # "none"
    /\ job[v] \in {"none", "pending", "cancelled"} => active[v] = {}

\* A worker works on a pending job nobody else works on, and if it means to make
\* the chunks active, the document is still not retired.
WorkerInv ==
  /\ \A w \in Workers : Indexing(w) =>
       /\ my[w].ver \in Versions
       /\ job[my[w].ver] = "pending"
       /\ my[w].doc = vdoc[my[w].ver]
  /\ \A w \in Workers :
       pc[w] \in {"deactivate", "complete"} /\ my[w].show => ~retired[my[w].doc]

\* The jobs a removal has taken are pending jobs of its document that nobody else
\* has; before it hides the chunks it has taken all of them.
RetirerInv ==
  /\ \A r \in Retirers :
       /\ pc[r] = "idle" => my[r].seen = {}
       /\ pc[r] \in {"cancel", "hide"} =>
            my[r].doc \in Docs /\ my[r].seen \subseteq PendingOf(my[r].doc)
       /\ pc[r] = "hide" => PendingOf(my[r].doc) \subseteq my[r].seen
       /\ \A w \in Workers : Indexing(w) => my[w].ver \notin my[r].seen
  /\ \A r, q \in Retirers : r # q => my[r].seen \cap my[q].seen = {}

\* A writer has reserved a version of its own, which is not in the tables yet.
WriterInv ==
  /\ \A i \in Writers : pc[i] # "idle" =>
       /\ my[i].ver \in Versions /\ my[i].ver < next /\ job[my[i].ver] = "none"
       /\ my[i].doc \in Docs /\ my[i].body \in Bodies
  /\ \A i, k \in Writers :
       i # k /\ pc[i] # "idle" /\ pc[k] # "idle" => my[i].ver # my[k].ver

IInv ==
  /\ TypeOK /\ PcInv /\ VersionInv /\ WorkerInv /\ EachJobHasOneWorker
  /\ RetirerInv /\ WriterInv /\ RetiredUnsearchable

LEMMA InitInv == Init => IInv
BY ConfigAssumption, NullAssumption
   DEF Init, IInv, TypeOK, PcInv, VersionInv, WorkerInv, EachJobHasOneWorker, RetirerInv,
       WriterInv, RetiredUnsearchable, Indexing, Nothing, Private, Versions, JobStatus, Txns, Places

-----------------------------------------------------------------------------
(***************************************************************************)
(* What a step of one kind of transaction leaves alone in the others.      *)
(***************************************************************************)

\* A transaction keeps its place and its private record.
Same(S) == \A t \in S : pc'[t] = pc[t] /\ my'[t] = my[t]

LEMMA LocalType ==
  ASSUME TypeOK, NEW t \in Txns, NEW p \in Places, NEW rec \in Private,
         pc' = [pc EXCEPT ![t] = p], my' = [my EXCEPT ![t] = rec],
         UNCHANGED tables, next' \in 1..(MaxVersion + 1)
  PROVE  TypeOK'
BY DEF TypeOK, tables

LEMMA WriterFrame ==
  ASSUME IInv, Same(Writers), next' = next,
         \A v \in Versions : job[v] = "none" => job'[v] = "none"
  PROVE  WriterInv'
BY DEF IInv, WriterInv, Same

LEMMA RetirerFrame ==
  ASSUME IInv, Same(Retirers), vdoc' = vdoc,
         \A v \in Versions : job'[v] = "pending" => job[v] = "pending",
         \A r \in Retirers : \A v \in my[r].seen : job'[v] = job[v],
         \A w \in Workers, r \in Retirers : Indexing(w)' => my'[w].ver \notin my[r].seen
  PROVE  RetirerInv'
<1>1. ASSUME NEW r \in Retirers
      PROVE  /\ pc'[r] = pc[r] /\ my'[r].doc = my[r].doc /\ my'[r].seen = my[r].seen
             /\ my[r].seen \subseteq Versions
             /\ pc[r] \in {"cancel", "hide"} =>
                  my[r].seen \subseteq {v \in Versions : vdoc[v] = my[r].doc /\ job[v] = "pending"}
             /\ pc[r] = "hide" =>
                  {v \in Versions : vdoc[v] = my[r].doc /\ job[v] = "pending"} \subseteq my[r].seen
  BY DEF Same, IInv, PcInv, RetirerInv, PendingOf, JobsOf
<1>2. \A r \in Retirers : pc[r] \in {"cancel", "hide"} => (my[r].seen \subseteq PendingOf(my[r].doc))'
  BY <1>1 DEF PendingOf, JobsOf
<1>3. \A r \in Retirers : pc[r] = "hide" => (PendingOf(my[r].doc) \subseteq my[r].seen)'
  BY <1>1 DEF PendingOf, JobsOf
<1>. QED
  BY <1>1, <1>2, <1>3 DEF IInv, RetirerInv

LEMMA WorkerFrame ==
  ASSUME IInv, Same(Workers),
         \A w \in Workers : Indexing(w) =>
            job'[my[w].ver] = "pending" /\ vdoc'[my[w].ver] = vdoc[my[w].ver],
         \A w \in Workers : Indexing(w) /\ my[w].show /\ ~retired[my[w].doc]
            => ~retired'[my[w].doc]
  PROVE  WorkerInv' /\ EachJobHasOneWorker'
BY DEF IInv, WorkerInv, EachJobHasOneWorker, Indexing, Same

-----------------------------------------------------------------------------
(***************************************************************************)
(* Workers.                                                                *)
(***************************************************************************)

\* A worker's statement that writes no committed row keeps the invariant if what
\* the worker then holds is a pending job that nobody else holds.
LEMMA WorkerLocal ==
  ASSUME IInv, NEW w \in Workers, NEW rec \in Private,
         NEW p \in {"idle", "dead", "claim", "write", "deactivate", "complete"},
         pc' = [pc EXCEPT ![w] = p], my' = [my EXCEPT ![w] = rec],
         UNCHANGED tables, next' = next,
         p \in {"write", "deactivate", "complete"} =>
           /\ rec.ver \in Versions /\ job[rec.ver] = "pending" /\ rec.doc = vdoc[rec.ver]
           /\ \A u \in Workers \ {w} : Indexing(u) => my[u].ver # rec.ver
           /\ \A r \in Retirers : rec.ver \notin my[r].seen,
         p \in {"deactivate", "complete"} /\ rec.show => ~retired[rec.doc]
  PROVE  IInv'
<1>1. w \in Txns /\ TypeOK /\ p \in Places
  BY DEF IInv, Txns, Places
<1>2. TypeOK'
  BY <1>1, LocalType DEF TypeOK
<1>3. /\ retired' = retired /\ vdoc' = vdoc /\ vbody' = vbody /\ job' = job /\ active' = active
  BY DEF tables
<1>4. Same(Workers \ {w}) /\ Same(Retirers) /\ Same(Writers) /\ pc'[w] = p /\ my'[w] = rec
  BY <1>1, TxnAssumption DEF TypeOK, Txns, Same
<1>5. PcInv' /\ VersionInv' /\ RetiredUnsearchable'
  BY <1>3, <1>4 DEF IInv, PcInv, VersionInv, RetiredUnsearchable, Same
<1>6. WorkerInv'
  BY <1>3, <1>4 DEF IInv, WorkerInv, Indexing, Same
<1>7. EachJobHasOneWorker'
  BY <1>4 DEF IInv, EachJobHasOneWorker, Indexing, Same
<1>8. \A u \in Workers, r \in Retirers : Indexing(u)' => my'[u].ver \notin my[r].seen
  BY <1>4 DEF IInv, RetirerInv, Indexing, Same
<1>9. RetirerInv' /\ WriterInv'
  BY <1>3, <1>4, <1>8, RetirerFrame, WriterFrame
<1>. QED
  BY <1>2, <1>5, <1>6, <1>7, <1>9 DEF IInv

\* The same for a removal: what it has taken are pending jobs of its document,
\* held by nobody else, and all of them when it goes on to hide the chunks.
LEMMA RetirerLocal ==
  ASSUME IInv, NEW r \in Retirers, NEW rec \in Private, NEW p \in {"idle", "cancel", "hide"},
         pc' = [pc EXCEPT ![r] = p], my' = [my EXCEPT ![r] = rec],
         UNCHANGED tables, next' = next,
         p = "idle" => rec.seen = {},
         p \in {"cancel", "hide"} => rec.doc \in Docs /\ rec.seen \subseteq PendingOf(rec.doc),
         p = "hide" => PendingOf(rec.doc) \subseteq rec.seen,
         \A u \in Workers : Indexing(u) => my[u].ver \notin rec.seen,
         \A q \in Retirers \ {r} : my[q].seen \cap rec.seen = {}
  PROVE  IInv'
<1>1. r \in Txns /\ TypeOK /\ p \in Places
  BY DEF IInv, Txns, Places
<1>2. TypeOK'
  BY <1>1, LocalType DEF TypeOK
<1>3. /\ retired' = retired /\ vdoc' = vdoc /\ vbody' = vbody /\ job' = job /\ active' = active
  BY DEF tables
<1>4. Same(Workers) /\ Same(Retirers \ {r}) /\ Same(Writers) /\ pc'[r] = p /\ my'[r] = rec
  BY <1>1, TxnAssumption DEF TypeOK, Txns, Same
<1>5. PcInv' /\ VersionInv' /\ RetiredUnsearchable'
  BY <1>3, <1>4 DEF IInv, PcInv, VersionInv, RetiredUnsearchable, Same
<1>6. WorkerInv' /\ EachJobHasOneWorker'
  BY <1>3, <1>4, WorkerFrame DEF IInv, WorkerInv
<1>7. \A d \in Docs : PendingOf(d)' = PendingOf(d)
  BY <1>3 DEF PendingOf, JobsOf
<1>8. \A u \in Workers : Indexing(u)' = Indexing(u) /\ my'[u].ver = my[u].ver
  BY <1>4 DEF Indexing, Same
<1>9. \A q \in Retirers \ {r} : pc'[q] = pc[q] /\ my'[q] = my[q]
  BY <1>4 DEF Same
<1>10. \A q \in Retirers : (pc[q] \in {"cancel", "hide"} =>
          my[q].doc \in Docs /\ my[q].seen \subseteq PendingOf(my[q].doc))'
  BY <1>3, <1>4, <1>9 DEF IInv, RetirerInv, PendingOf, JobsOf
<1>11. \A q \in Retirers : (pc[q] = "hide" => PendingOf(my[q].doc) \subseteq my[q].seen)'
  BY <1>3, <1>4, <1>9 DEF IInv, RetirerInv, PendingOf, JobsOf
<1>12. RetirerInv'
  BY <1>4, <1>8, <1>9, <1>10, <1>11 DEF IInv, RetirerInv
<1>13. WriterInv'
  BY <1>3, <1>4, WriterFrame
<1>. QED
  BY <1>2, <1>5, <1>6, <1>12, <1>13 DEF IInv

\* The same for a writer: its version is below next and not in the tables.
LEMMA WriterLocal ==
  ASSUME IInv, NEW i \in Writers, NEW rec \in Private,
         NEW p \in {"idle", "ingest", "skip", "reactivate", "store"},
         pc' = [pc EXCEPT ![i] = p], my' = [my EXCEPT ![i] = rec],
         UNCHANGED tables, next' \in 1..(MaxVersion + 1), next' >= next,
         p # "idle" =>
           /\ rec.ver \in Versions /\ rec.ver < next' /\ job[rec.ver] = "none"
           /\ rec.doc \in Docs /\ rec.body \in Bodies
           /\ \A k \in Writers \ {i} : pc[k] # "idle" => my[k].ver # rec.ver
  PROVE  IInv'
<1>1. i \in Txns /\ TypeOK /\ p \in Places
  BY DEF IInv, Txns, Places
<1>2. TypeOK'
  BY <1>1, LocalType
<1>3. /\ retired' = retired /\ vdoc' = vdoc /\ vbody' = vbody /\ job' = job /\ active' = active
  BY DEF tables
<1>4. Same(Workers) /\ Same(Retirers) /\ Same(Writers \ {i}) /\ pc'[i] = p /\ my'[i] = rec
  BY <1>1, TxnAssumption DEF TypeOK, Txns, Same
<1>5. PcInv' /\ RetiredUnsearchable'
  BY <1>3, <1>4 DEF IInv, PcInv, RetiredUnsearchable, Same
<1>6. VersionInv'
  BY <1>3, ConfigAssumption DEF IInv, VersionInv, TypeOK, Versions
<1>7. WorkerInv' /\ EachJobHasOneWorker'
  BY <1>3, <1>4, WorkerFrame DEF IInv, WorkerInv
<1>8. \A u \in Workers, r \in Retirers : Indexing(u)' => my'[u].ver \notin my[r].seen
  BY <1>4 DEF IInv, RetirerInv, Indexing, Same
<1>9. RetirerInv'
  BY <1>3, <1>4, <1>8, RetirerFrame
<1>10. \A k \in Writers \ {i} : pc'[k] = pc[k] /\ my'[k] = my[k]
  BY <1>4 DEF Same
<1>11. \A v \in Versions : v < next => v < next'
  BY <1>1, ConfigAssumption DEF TypeOK, Versions
<1>12. WriterInv'
  BY <1>3, <1>4, <1>10, <1>11 DEF IInv, WriterInv
<1>. QED
  BY <1>2, <1>5, <1>6, <1>7, <1>9, <1>12 DEF IInv

LEMMA NothingPrivate == Nothing \in Private
BY NullAssumption DEF Nothing, Private

-----------------------------------------------------------------------------
(***************************************************************************)
(* The statements that write no committed row.                             *)
(***************************************************************************)

\* A worker that is indexing holds its job alone.
LEMMA HeldAlone ==
  ASSUME IInv, NEW w \in Workers, Indexing(w)
  PROVE  /\ my[w].ver \in Versions /\ job[my[w].ver] = "pending" /\ my[w].doc = vdoc[my[w].ver]
         /\ \A u \in Workers \ {w} : Indexing(u) => my[u].ver # my[w].ver
         /\ \A r \in Retirers : my[w].ver \notin my[r].seen
         /\ my[w] \in Private /\ vdoc[my[w].ver] \in Docs /\ vbody[my[w].ver] \in Bodies
<1>1. my[w].ver \in Versions /\ job[my[w].ver] = "pending" /\ my[w].doc = vdoc[my[w].ver]
  BY DEF IInv, WorkerInv
<1>2. \A u \in Workers \ {w} : Indexing(u) => my[u].ver # my[w].ver
  BY DEF IInv, EachJobHasOneWorker
<1>3. \A r \in Retirers : my[w].ver \notin my[r].seen
  BY DEF IInv, RetirerInv
<1>. QED
  BY <1>1, <1>2, <1>3 DEF IInv, VersionInv, TypeOK, Txns

LEMMA ClaimStep ==
  ASSUME IInv, NEW w \in Workers, ClaimNextJob(w)
  PROVE  IInv'
<1>1. PICK v \in Versions :
        /\ job[v] = "pending" /\ JobFree(v)
        /\ my' = [my EXCEPT ![w].ver = v, ![w].doc = vdoc[v]]
  BY DEF ClaimNextJob, Claimable
<1>. DEFINE rec == [my[w] EXCEPT !.ver = v, !.doc = vdoc[v]]
<1>2. my[w] \in Private /\ vdoc[v] \in Docs \cup {NoDoc} /\ w \in Txns /\ my \in [Txns -> Private]
  BY DEF IInv, TypeOK, Txns
<1>3. rec \in Private /\ rec.ver = v /\ rec.doc = vdoc[v]
  BY <1>2 DEF Private
<1>4. my' = [my EXCEPT ![w] = rec]
  BY <1>1, <1>2
<1>5. /\ \A u \in Workers \ {w} : Indexing(u) => my[u].ver # v
      /\ \A r \in Retirers : v \notin my[r].seen
  BY <1>1 DEF JobFree, HoldsJob
<1>6. pc' = [pc EXCEPT ![w] = "write"] /\ UNCHANGED tables /\ next' = next
  BY DEF ClaimNextJob, Goto
<1>. HIDE DEF rec
<1>. QED
  BY <1>1, <1>3, <1>4, <1>5, <1>6, WorkerLocal

LEMMA ResolveStep ==
  ASSUME IInv, NEW w \in Workers, ResolveEmbeddingModel(w) \/ RestartWorker(w)
  PROVE  IInv'
<1>1. PICK p \in {"idle", "claim"} : pc' = [pc EXCEPT ![w] = p]
  BY DEF ResolveEmbeddingModel, RestartWorker, Goto
<1>2. my[w] \in Private /\ my' = [my EXCEPT ![w] = my[w]] /\ UNCHANGED tables /\ next' = next
  BY DEF ResolveEmbeddingModel, RestartWorker, IInv, TypeOK, Txns
<1>. QED
  BY <1>1, <1>2, WorkerLocal

LEMMA InsertStep ==
  ASSUME IInv, NEW w \in Workers, InsertChunk(w)
  PROVE  IInv'
<1>1. PICK c \in Content[vbody[my[w].ver]] : my' = [my EXCEPT ![w].wrote = @ \cup {c}]
  BY DEF InsertChunk
<1>. DEFINE rec == [my[w] EXCEPT !.wrote = @ \cup {c}]
<1>2. pc[w] = "write" /\ Indexing(w) /\ UNCHANGED <<tables, pc>> /\ next' = next
  BY DEF InsertChunk, Indexing
<1>3. c \in Chunks /\ my[w] \in Private
  BY <1>1, <1>2, HeldAlone, ConfigAssumption
<1>4. rec \in Private /\ rec.ver = my[w].ver /\ rec.doc = my[w].doc
  BY <1>3 DEF Private
<1>5. my' = [my EXCEPT ![w] = rec] /\ pc' = [pc EXCEPT ![w] = "write"]
  BY <1>1, <1>2 DEF IInv, TypeOK, Txns
<1>. HIDE DEF rec
<1>6. /\ rec.ver \in Versions /\ job[rec.ver] = "pending" /\ rec.doc = vdoc[rec.ver]
      /\ \A u \in Workers \ {w} : Indexing(u) => my[u].ver # rec.ver
      /\ \A r \in Retirers : rec.ver \notin my[r].seen
  BY <1>2, <1>4, HeldAlone
<1>7. UNCHANGED tables
  BY <1>2 DEF tables
<1>. QED
  BY <1>2, <1>4, <1>5, <1>6, <1>7, WorkerLocal

LEMMA StartStep ==
  ASSUME IInv, NEW w \in Workers, StartCompleting(w)
  PROVE  IInv'
<1>. DEFINE rec == [my[w] EXCEPT !.seen = {v \in JobsOf(my[w].doc) : rows[v] # {}},
                                 !.show = ~retired[my[w].doc]]
<1>1. pc[w] = "write" /\ Indexing(w) /\ UNCHANGED tables /\ next' = next
  BY DEF StartCompleting, Indexing
<1>2. my[w] \in Private /\ my[w].doc \in Docs
  BY <1>1, HeldAlone
<1>3. retired[my[w].doc] \in BOOLEAN
  BY <1>2 DEF IInv, TypeOK
<1>4. rec \in Private /\ rec.ver = my[w].ver /\ rec.doc = my[w].doc /\ rec.show = ~retired[my[w].doc]
  BY <1>2, <1>3 DEF Private, JobsOf
<1>5. my' = [my EXCEPT ![w] = rec] /\ pc' = [pc EXCEPT ![w] = "deactivate"]
  BY DEF StartCompleting, Goto, IInv, TypeOK, Txns
<1>. HIDE DEF rec
<1>6. /\ rec.ver \in Versions /\ job[rec.ver] = "pending" /\ rec.doc = vdoc[rec.ver]
      /\ \A u \in Workers \ {w} : Indexing(u) => my[u].ver # rec.ver
      /\ \A r \in Retirers : rec.ver \notin my[r].seen
  BY <1>1, <1>4, HeldAlone
<1>7. rec.show => ~retired[rec.doc]
  BY <1>3, <1>4
<1>. QED
  BY <1>1, <1>4, <1>5, <1>6, <1>7, WorkerLocal

LEMMA UpdateStep ==
  ASSUME IInv, NEW w \in Workers, UpdateChunks(w)
  PROVE  IInv'
<1>1. /\ pc[w] = "deactivate" /\ Indexing(w) /\ UNCHANGED tables /\ next' = next
      /\ pc' = [pc EXCEPT ![w] = "complete"]
  BY DEF UpdateChunks, Indexing, Goto
<1>2. my' = [my EXCEPT ![w] = my[w]]
  BY DEF UpdateChunks, IInv, TypeOK
<1>3. my[w].show => ~retired[my[w].doc]
  BY <1>1 DEF IInv, WorkerInv
<1>. QED
  BY <1>1, <1>2, <1>3, HeldAlone, WorkerLocal

LEMMA RetireStepInv ==
  ASSUME IInv, NEW r \in Retirers, NEW d \in Docs, RetireDocument(r, d)
  PROVE  IInv'
<1>. DEFINE rec == [my[r] EXCEPT !.doc = d]
<1>1. my[r] \in Private /\ my[r].seen = {}
  BY DEF RetireDocument, IInv, TypeOK, RetirerInv, Txns
<1>2. rec \in Private /\ rec.doc = d /\ rec.seen = {}
  BY <1>1 DEF Private
<1>3. my' = [my EXCEPT ![r] = rec]
  BY DEF RetireDocument, IInv, TypeOK, Txns
<1>4. pc' = [pc EXCEPT ![r] = "cancel"] /\ UNCHANGED tables /\ next' = next
  BY DEF RetireDocument, Goto
<1>. HIDE DEF rec
<1>. QED
  BY <1>2, <1>3, <1>4, RetirerLocal

LEMMA CancelStep ==
  ASSUME IInv, NEW r \in Retirers, CancelJob(r)
  PROVE  IInv'
<1>1. PICK v \in PendingOf(my[r].doc) :
        JobFree(v) /\ my' = [my EXCEPT ![r].seen = @ \cup {v}]
  BY DEF CancelJob
<1>. DEFINE rec == [my[r] EXCEPT !.seen = @ \cup {v}]
<1>2. my[r] \in Private /\ v \in Versions
  BY <1>1 DEF IInv, TypeOK, Txns, PendingOf, JobsOf
<1>3. rec \in Private /\ rec.doc = my[r].doc /\ rec.seen = my[r].seen \cup {v}
  BY <1>2 DEF Private
<1>4. my' = [my EXCEPT ![r] = rec] /\ pc' = [pc EXCEPT ![r] = "cancel"]
  BY <1>1 DEF CancelJob, IInv, TypeOK, Txns
<1>5. pc[r] = "cancel" /\ UNCHANGED tables /\ next' = next
  BY DEF CancelJob
<1>6. my[r].doc \in Docs /\ my[r].seen \subseteq PendingOf(my[r].doc)
  BY <1>5 DEF IInv, RetirerInv
<1>7. /\ \A u \in Workers : Indexing(u) => my[u].ver \notin rec.seen
      /\ \A q \in Retirers \ {r} : my[q].seen \cap rec.seen = {}
  BY <1>1, <1>3 DEF IInv, RetirerInv, JobFree, HoldsJob
<1>. HIDE DEF rec
<1>8. rec.doc \in Docs /\ rec.seen \subseteq PendingOf(rec.doc)
  BY <1>1, <1>3, <1>6
<1>9. UNCHANGED tables
  BY <1>5 DEF tables
<1>. QED
  BY <1>3, <1>4, <1>5, <1>7, <1>8, <1>9, RetirerLocal

LEMMA CancelledStep ==
  ASSUME IInv, NEW r \in Retirers, CancelledAllJobs(r)
  PROVE  IInv'
<1>1. /\ pc[r] = "cancel" /\ PendingOf(my[r].doc) \subseteq my[r].seen
      /\ pc' = [pc EXCEPT ![r] = "hide"] /\ UNCHANGED tables /\ next' = next
  BY DEF CancelledAllJobs, Goto
<1>2. my[r] \in Private /\ my' = [my EXCEPT ![r] = my[r]]
  BY DEF CancelledAllJobs, IInv, TypeOK, Txns
<1>3. /\ my[r].doc \in Docs /\ my[r].seen \subseteq PendingOf(my[r].doc)
      /\ \A u \in Workers : Indexing(u) => my[u].ver \notin my[r].seen
      /\ \A q \in Retirers \ {r} : my[q].seen \cap my[r].seen = {}
  BY <1>1 DEF IInv, RetirerInv
<1>. QED
  BY <1>1, <1>2, <1>3, RetirerLocal

\* The end of a worker's transaction, with nothing written.
LEMMA WorkerEnds ==
  ASSUME IInv, NEW w \in Workers, NEW p \in {"idle", "dead"}, End(w, p),
         UNCHANGED <<tables, next>>
  PROVE  IInv'
<1>1. /\ pc' = [pc EXCEPT ![w] = p] /\ my' = [my EXCEPT ![w] = Nothing]
      /\ UNCHANGED tables /\ next' = next
  BY DEF End, Goto, tables
<1>. QED
  BY <1>1, NothingPrivate, WorkerLocal

\* The same for a removal and for a writer.
LEMMA RetirerEnds ==
  ASSUME IInv, NEW r \in Retirers, End(r, "idle"), UNCHANGED <<tables, next>>
  PROVE  IInv'
<1>1. /\ pc' = [pc EXCEPT ![r] = "idle"] /\ my' = [my EXCEPT ![r] = Nothing]
      /\ UNCHANGED tables /\ next' = next
  BY DEF End, Goto, tables
<1>2. Nothing.seen = {}
  BY DEF Nothing
<1>. QED
  BY <1>1, <1>2, NothingPrivate, RetirerLocal

LEMMA WriterEnds ==
  ASSUME IInv, NEW i \in Writers, End(i, "idle"), UNCHANGED <<tables, next>>
  PROVE  IInv'
<1>1. /\ pc' = [pc EXCEPT ![i] = "idle"] /\ my' = [my EXCEPT ![i] = Nothing]
      /\ UNCHANGED tables /\ next' = next
  BY DEF End, Goto, tables
<1>2. next' \in 1..(MaxVersion + 1) /\ next' >= next
  BY <1>1, ConfigAssumption DEF IInv, TypeOK
<1>. QED
  BY <1>1, <1>2, NothingPrivate, WriterLocal

LEMMA RollbackStep ==
  ASSUME IInv, NEW t \in Txns, Rollback(t)
  PROVE  IInv'
<1>1. CASE t \in Workers
  BY <1>1, WorkerEnds DEF Rollback
<1>2. CASE t \in Retirers
  BY <1>2, TxnAssumption, RetirerEnds DEF Rollback
<1>3. CASE t \in Writers
  BY <1>3, TxnAssumption, WriterEnds DEF Rollback
<1>. QED
  BY <1>1, <1>2, <1>3 DEF Txns

\* A writer takes the next version number, which no row and no writer has.
LEMMA ReserveStep ==
  ASSUME IInv, NEW i \in Writers, NEW d \in Docs, NEW b \in Bodies,
         \/ UploadDocument(i, d, b)
         \/ \E force \in BOOLEAN : IngestDocument(i, d, b, force)
  PROVE  IInv'
<1>1. next <= MaxVersion
  BY DEF UploadDocument, IngestDocument
<1>2. next \in Versions
  BY <1>1, ConfigAssumption DEF IInv, TypeOK, Versions
<1>3. next' = next + 1 /\ UNCHANGED tables
  BY DEF UploadDocument, IngestDocument, tables
<1>4. PICK rec \in Private, p \in {"ingest", "store"} :
        /\ my' = [my EXCEPT ![i] = rec] /\ pc' = [pc EXCEPT ![i] = p]
        /\ rec.doc = d /\ rec.ver = next /\ rec.body = b
  <2>1. CASE UploadDocument(i, d, b)
    <3>. DEFINE up == [Nothing EXCEPT !.doc = d, !.ver = next, !.body = b]
    <3>1. up \in Private /\ up.doc = d /\ up.ver = next /\ up.body = b
      BY <1>2, NothingPrivate DEF Nothing, Private
    <3>2. my' = [my EXCEPT ![i] = up] /\ pc' = [pc EXCEPT ![i] = "store"]
      BY <2>1 DEF UploadDocument, Goto
    <3>. HIDE DEF up
    <3>. QED
      BY <3>1, <3>2
  <2>2. CASE \E force \in BOOLEAN : IngestDocument(i, d, b, force)
    <3>1. PICK same \in BOOLEAN :
            my' = [my EXCEPT ![i] = [Nothing EXCEPT !.doc = d, !.ver = next, !.body = b,
                                       !.sync = TRUE, !.same = same]]
      BY <2>2 DEF IngestDocument
    <3>. DEFINE in == [Nothing EXCEPT !.doc = d, !.ver = next, !.body = b,
                                      !.sync = TRUE, !.same = same]
    <3>2. in \in Private /\ in.doc = d /\ in.ver = next /\ in.body = b
      BY <1>2, NothingPrivate DEF Nothing, Private
    <3>3. my' = [my EXCEPT ![i] = in] /\ pc' = [pc EXCEPT ![i] = "ingest"]
      BY <2>2, <3>1 DEF IngestDocument, Goto
    <3>. HIDE DEF in
    <3>. QED
      BY <3>2, <3>3
  <2>. QED
    BY <2>1, <2>2
<1>5. job[next] = "none"
  BY <1>2 DEF IInv, VersionInv, Versions
<1>6. \A k \in Writers \ {i} : pc[k] # "idle" => my[k].ver # next
  BY <1>2 DEF IInv, WriterInv, Versions
<1>7. next' \in 1..(MaxVersion + 1) /\ next' >= next /\ next < next'
  BY <1>2, <1>3, ConfigAssumption DEF Versions
<1>. QED
  BY <1>2, <1>3, <1>4, <1>5, <1>6, <1>7, WriterLocal

LEMMA ReadStep ==
  ASSUME IInv, NEW i \in Writers, ReadRetired(i) \/ ReactivateDocument(i)
  PROVE  IInv'
<1>1. my[i] \in Private /\ i \in Txns /\ pc[i] # "idle"
  BY DEF ReadRetired, ReactivateDocument, IInv, TypeOK, Txns
<1>2. /\ my[i].ver \in Versions /\ my[i].ver < next /\ job[my[i].ver] = "none"
      /\ my[i].doc \in Docs /\ my[i].body \in Bodies
      /\ \A k \in Writers \ {i} : pc[k] # "idle" => my[k].ver # my[i].ver
  BY <1>1 DEF IInv, WriterInv
<1>3. UNCHANGED tables /\ next' = next
  BY DEF ReadRetired, ReactivateDocument, tables
<1>4. PICK p \in {"reactivate", "skip", "store"} : pc' = [pc EXCEPT ![i] = p]
  BY DEF ReadRetired, ReactivateDocument, Goto
<1>5. PICK rec \in Private :
        /\ my' = [my EXCEPT ![i] = rec]
        /\ rec.ver = my[i].ver /\ rec.doc = my[i].doc /\ rec.body = my[i].body
  <2>1. CASE ReadRetired(i)
    <3>1. my' = [my EXCEPT ![i] = my[i]]
      BY <2>1 DEF ReadRetired, IInv, TypeOK
    <3>. QED
      BY <3>1, <1>1
  <2>2. CASE ReactivateDocument(i)
    <3>. DEFINE rv == [my[i] EXCEPT !.revived = retired[my[i].doc]]
    <3>1. my' = [my EXCEPT ![i] = rv]
      BY <2>2, <1>1 DEF ReactivateDocument, IInv, TypeOK
    <3>2. retired[my[i].doc] \in BOOLEAN
      BY <1>2 DEF IInv, TypeOK
    <3>3. rv \in Private /\ rv.ver = my[i].ver /\ rv.doc = my[i].doc /\ rv.body = my[i].body
      BY <1>1, <3>2 DEF Private
    <3>. QED
      BY <3>1, <3>3
  <2>. QED
    BY <2>1, <2>2
<1>6. next' \in 1..(MaxVersion + 1) /\ next' >= next
  BY <1>3, ConfigAssumption DEF IInv, TypeOK
<1>. QED
  BY <1>2, <1>3, <1>4, <1>5, <1>6, WriterLocal

-----------------------------------------------------------------------------
(***************************************************************************)
(* The steps that commit rows.                                             *)
(***************************************************************************)

LEMMA EndType ==
  ASSUME TypeOK, NEW t \in Txns, End(t, "idle")
  PROVE  /\ pc' \in [Txns -> Places] /\ my' \in [Txns -> Private]
         /\ pc'[t] = "idle" /\ my'[t] = Nothing
         /\ \A u \in Txns \ {t} : pc'[u] = pc[u] /\ my'[u] = my[u]
BY NothingPrivate DEF TypeOK, End, Goto, Places

\* A worker that finishes its job, one way or the other, keeps the invariant if
\* the other versions' chunks can only become inactive and its own are active
\* only when the document is not retired or the job has failed.
LEMMA WorkerCommit ==
  ASSUME IInv, NEW w \in Workers, Indexing(w), End(w, "idle"),
         NEW s \in {"succeeded", "failed"}, job' = [job EXCEPT ![my[w].ver] = s],
         current' \in [Docs -> {0} \cup Versions], rows' \in [Versions -> SUBSET Chunks],
         active' \in [Versions -> SUBSET Chunks],
         \A u \in Versions \ {my[w].ver} : active'[u] \subseteq active[u],
         s = "succeeded" /\ active'[my[w].ver] # {} => ~retired[my[w].doc],
         UNCHANGED <<retired, source, vdoc, vbody, next>>
  PROVE  IInv'
<1>1. w \in Txns /\ TypeOK /\ job \in [Versions -> JobStatus]
  BY DEF IInv, Txns, TypeOK
<1>2. /\ my[w].ver \in Versions /\ job[my[w].ver] = "pending" /\ my[w].doc = vdoc[my[w].ver]
      /\ \A u \in Workers \ {w} : Indexing(u) => my[u].ver # my[w].ver
      /\ \A r \in Retirers : my[w].ver \notin my[r].seen
  BY HeldAlone
<1>3. /\ job'[my[w].ver] = s
      /\ \A u \in Versions \ {my[w].ver} : job'[u] = job[u]
  BY <1>1, <1>2
<1>4. /\ Same(Workers \ {w}) /\ Same(Retirers) /\ Same(Writers)
      /\ pc'[w] = "idle"
  BY <1>1, EndType, TxnAssumption DEF Txns, Same
<1>5. TypeOK'
  <2>1. job' \in [Versions -> JobStatus]
    BY <1>1 DEF JobStatus
  <2>. QED
    BY <1>1, <2>1, EndType DEF TypeOK
<1>6. PcInv'
  BY <1>4 DEF IInv, PcInv, Same
<1>7. VersionInv'
  BY <1>2, <1>3 DEF IInv, VersionInv
<1>8. \A u \in Workers \ {w} : pc'[u] = pc[u] /\ my'[u] = my[u]
  BY <1>4 DEF Same
<1>9. \A u \in Workers : Indexing(u)' => u # w /\ Indexing(u) /\ my'[u] = my[u]
  BY <1>4, <1>8 DEF Indexing
<1>10. \A u \in Workers : Indexing(u)' =>
         /\ my'[u].ver \in Versions
         /\ job'[my'[u].ver] = "pending"
         /\ my'[u].doc = vdoc'[my'[u].ver]
  BY <1>2, <1>3, <1>9, HeldAlone
<1>11. WorkerInv'
  BY <1>4, <1>8, <1>10 DEF IInv, WorkerInv
<1>12. EachJobHasOneWorker'
  BY <1>9 DEF IInv, EachJobHasOneWorker
<1>13. \A u \in Workers, r \in Retirers : Indexing(u)' => my'[u].ver \notin my[r].seen
  BY <1>9, HeldAlone
<1>14. \A r \in Retirers : \A v \in my[r].seen : job'[v] = job[v]
  <2>1. \A r \in Retirers : my[r].seen \subseteq Versions
    BY DEF IInv, PcInv, RetirerInv, PendingOf, JobsOf
  <2>. QED
    BY <1>2, <1>3, <2>1
<1>15. \A v \in Versions :
         /\ job'[v] = "pending" => job[v] = "pending"
         /\ job[v] = "none" => job'[v] = "none"
  BY <1>2, <1>3
<1>16. RetirerInv'
  BY <1>4, <1>13, <1>14, <1>15, RetirerFrame
<1>17. WriterInv'
  BY <1>4, <1>15, WriterFrame
<1>18. RetiredUnsearchable'
  BY <1>2, <1>3 DEF IInv, RetiredUnsearchable
<1>. QED
  BY <1>5, <1>6, <1>7, <1>11, <1>12, <1>16, <1>17, <1>18 DEF IInv

LEMMA CompleteStep ==
  ASSUME IInv, NEW w \in Workers, CompleteIndexing(w)
  PROVE  IInv'
<1>1. pc[w] = "complete" /\ Indexing(w)
  BY DEF CompleteIndexing, Indexing
<1>2. /\ my[w] \in Private /\ my[w].ver \in Versions /\ my[w].doc \in Docs
      /\ active \in [Versions -> SUBSET Chunks] /\ rows \in [Versions -> SUBSET Chunks]
      /\ current \in [Docs -> {0} \cup Versions]
  BY <1>1, HeldAlone DEF IInv, TypeOK
<1>3. my[w].wrote \in SUBSET Chunks
  BY <1>2 DEF Private
<1>4. /\ active' = [u \in Versions |->
                     IF u = my[w].ver THEN IF my[w].show THEN my[w].wrote ELSE {}
                     ELSE IF u \in my[w].seen THEN {} ELSE active[u]]
      /\ rows' = [rows EXCEPT ![my[w].ver] = my[w].wrote]
      /\ current' = [current EXCEPT ![my[w].doc] = my[w].ver]
      /\ job' = [job EXCEPT ![my[w].ver] = "succeeded"]
      /\ End(w, "idle") /\ UNCHANGED <<retired, source, vdoc, vbody, next>>
  BY DEF CompleteIndexing
<1>5. /\ active' \in [Versions -> SUBSET Chunks] /\ rows' \in [Versions -> SUBSET Chunks]
      /\ current' \in [Docs -> {0} \cup Versions]
      /\ \A u \in Versions \ {my[w].ver} : active'[u] \subseteq active[u]
      /\ active'[my[w].ver] # {} => my[w].show
  BY <1>2, <1>3, <1>4
<1>6. my[w].show => ~retired[my[w].doc]
  BY <1>1 DEF IInv, WorkerInv
<1>. QED
  BY <1>1, <1>4, <1>5, <1>6, WorkerCommit

LEMMA FailStep ==
  ASSUME IInv, NEW w \in Workers, MarkJobFailed(w)
  PROVE  IInv'
<1>1. Indexing(w)
  BY DEF MarkJobFailed, Indexing
<1>2. /\ my[w] \in Private /\ my[w].ver \in Versions
      /\ active \in [Versions -> SUBSET Chunks] /\ rows \in [Versions -> SUBSET Chunks]
      /\ current \in [Docs -> {0} \cup Versions]
  BY <1>1, HeldAlone DEF IInv, TypeOK
<1>3. my[w].wrote \in SUBSET Chunks
  BY <1>2 DEF Private
<1>4. /\ active' = [active EXCEPT ![my[w].ver] = my[w].wrote]
      /\ rows' = [rows EXCEPT ![my[w].ver] = my[w].wrote]
      /\ job' = [job EXCEPT ![my[w].ver] = "failed"] /\ current' = current
      /\ End(w, "idle") /\ UNCHANGED <<retired, source, vdoc, vbody, next>>
  BY DEF MarkJobFailed
<1>5. /\ active' \in [Versions -> SUBSET Chunks] /\ rows' \in [Versions -> SUBSET Chunks]
      /\ current' \in [Docs -> {0} \cup Versions]
      /\ \A u \in Versions \ {my[w].ver} : active'[u] \subseteq active[u]
  BY <1>2, <1>3, <1>4
<1>. QED
  BY <1>1, <1>4, <1>5, WorkerCommit

\* The removal's commit.  No worker that means to make the document's chunks
\* active is left: its job would be one of those the removal has taken.
LEMMA HideStep ==
  ASSUME IInv, NEW r \in Retirers, HideChunks(r)
  PROVE  IInv'
<1>. DEFINE d == my[r].doc
            S == my[r].seen
<1>1. /\ r \in Txns /\ TypeOK /\ pc[r] = "hide" /\ my[r] \in Private /\ End(r, "idle")
      /\ UNCHANGED <<current, source, vdoc, vbody, rows, next>>
  BY DEF HideChunks, IInv, Txns, TypeOK
<1>2. /\ retired' = [retired EXCEPT ![d] = TRUE]
      /\ job' = [v \in Versions |-> IF v \in S THEN "cancelled" ELSE job[v]]
      /\ active' = [v \in Versions |-> IF vdoc[v] = d THEN {} ELSE active[v]]
  BY DEF HideChunks
<1>3. d \in Docs /\ S = PendingOf(d)
  BY <1>1 DEF IInv, RetirerInv
<1>4. S = {v \in Versions : vdoc[v] = d /\ job[v] = "pending"}
  BY <1>3 DEF PendingOf, JobsOf
<1>. HIDE DEF d, S
<1>5. /\ Same(Workers) /\ Same(Retirers \ {r}) /\ Same(Writers)
      /\ pc'[r] = "idle" /\ my'[r].seen = {}
  BY <1>1, EndType, TxnAssumption DEF Txns, Same, Nothing
<1>6. TypeOK'
  <2>1. retired' \in [Docs -> BOOLEAN]
    BY <1>1, <1>2, <1>3 DEF TypeOK
  <2>2. job' \in [Versions -> JobStatus] /\ active' \in [Versions -> SUBSET Chunks]
    BY <1>1, <1>2 DEF TypeOK, JobStatus
  <2>. QED
    BY <1>1, <2>1, <2>2, EndType DEF TypeOK
<1>7. PcInv'
  BY <1>5 DEF IInv, PcInv, Same
<1>8. VersionInv'
  BY <1>1, <1>2, <1>4 DEF IInv, VersionInv
<1>9. \A w \in Workers : Indexing(w) =>
        /\ my[w].ver \in Versions /\ my[w].ver \notin S /\ my[w].doc = vdoc[my[w].ver]
        /\ job[my[w].ver] = "pending" /\ vdoc[my[w].ver] \in Docs
  BY HeldAlone DEF S
<1>10. \A w \in Workers : Indexing(w) => job'[my[w].ver] = "pending" /\ my[w].doc # d
  BY <1>2, <1>4, <1>9
<1>11. \A w \in Workers : Indexing(w) /\ ~retired[my[w].doc] => ~retired'[my[w].doc]
  BY <1>1, <1>2, <1>9, <1>10 DEF TypeOK
<1>12. WorkerInv' /\ EachJobHasOneWorker'
  BY <1>1, <1>5, <1>10, <1>11, WorkerFrame
<1>13. ASSUME NEW q \in Retirers \ {r}
       PROVE  /\ pc'[q] = pc[q] /\ my'[q] = my[q] /\ my[q].seen \cap S = {}
              /\ my[q].seen \subseteq Versions
              /\ pc[q] \in {"cancel", "hide"} =>
                   my[q].seen \subseteq {v \in Versions : vdoc[v] = my[q].doc /\ job[v] = "pending"}
              /\ pc[q] = "hide" =>
                   {v \in Versions : vdoc[v] = my[q].doc /\ job[v] = "pending"} \subseteq my[q].seen
  BY <1>5 DEF IInv, PcInv, RetirerInv, PendingOf, JobsOf, Same, S
<1>14. \A q \in Retirers : (pc[q] \in {"cancel", "hide"} =>
          my[q].doc \in Docs /\ my[q].seen \subseteq PendingOf(my[q].doc))'
  BY <1>1, <1>2, <1>5, <1>13 DEF IInv, RetirerInv, PendingOf, JobsOf
<1>15. \A q \in Retirers : (pc[q] = "hide" => PendingOf(my[q].doc) \subseteq my[q].seen)'
  BY <1>1, <1>2, <1>5, <1>13 DEF PendingOf, JobsOf
<1>16. \A w \in Workers : Indexing(w)' = Indexing(w) /\ my'[w] = my[w]
  BY <1>5 DEF Same, Indexing
<1>17. RetirerInv'
  BY <1>5, <1>13, <1>14, <1>15, <1>16 DEF IInv, RetirerInv
<1>18. WriterInv'
  BY <1>1, <1>2, <1>4, <1>5, WriterFrame
<1>19. RetiredUnsearchable'
  BY <1>1, <1>2, <1>4 DEF IInv, RetiredUnsearchable, TypeOK
<1>. QED
  BY <1>6, <1>7, <1>8, <1>12, <1>17, <1>18, <1>19 DEF IInv

LEMMA SkipStep ==
  ASSUME IInv, NEW i \in Writers, SkipUnchanged(i)
  PROVE  IInv'
<1>1. /\ i \in Txns /\ TypeOK /\ End(i, "idle") /\ pc[i] = "skip"
      /\ source' = [source EXCEPT ![my[i].doc] = my[i].body]
      /\ UNCHANGED <<retired, current, vdoc, vbody, job, active, rows, next>>
  BY DEF SkipUnchanged, IInv, Txns
<1>2. /\ Same(Workers) /\ Same(Retirers) /\ Same(Writers \ {i}) /\ pc'[i] = "idle"
  BY <1>1, EndType, TxnAssumption DEF Txns, Same
<1>3. my[i].doc \in Docs /\ my[i].body \in Bodies
  BY <1>1 DEF IInv, WriterInv
<1>4. TypeOK'
  BY <1>1, <1>3, EndType DEF TypeOK
<1>5. PcInv' /\ VersionInv' /\ RetiredUnsearchable'
  BY <1>1, <1>2 DEF IInv, PcInv, VersionInv, RetiredUnsearchable, Same
<1>6. WorkerInv' /\ EachJobHasOneWorker'
  BY <1>1, <1>2, WorkerFrame DEF IInv, WorkerInv
<1>7. \A w \in Workers, r \in Retirers : Indexing(w)' => my'[w].ver \notin my[r].seen
  BY <1>2 DEF IInv, RetirerInv, Indexing, Same
<1>8. RetirerInv'
  BY <1>1, <1>2, <1>7, RetirerFrame
<1>9. WriterInv'
  BY <1>1, <1>2 DEF IInv, WriterInv, Same
<1>. QED
  BY <1>4, <1>5, <1>6, <1>8, <1>9 DEF IInv

\* A writer's commit adds a pending job; the removals that have taken all jobs of
\* a document hold its row, and the writer has waited for them.
LEMMA CreateStep ==
  ASSUME IInv, NEW i \in Writers, CreateDocumentVersion(i)
  PROVE  IInv'
<1>. DEFINE d == my[i].doc
            v == my[i].ver
<1>1. /\ i \in Txns /\ TypeOK /\ pc[i] = "store" /\ DocFree(i, d) /\ End(i, "idle")
      /\ retired' = [retired EXCEPT ![d] = @ /\ ~my[i].revived]
      /\ vdoc' = [vdoc EXCEPT ![v] = d]
      /\ vbody' = [vbody EXCEPT ![v] = my[i].body]
      /\ job' = [job EXCEPT ![v] = "pending"]
      /\ source' = [source EXCEPT ![d] = IF my[i].sync THEN my[i].body ELSE @]
      /\ UNCHANGED <<current, active, rows, next>>
  BY DEF CreateDocumentVersion, IInv, Txns
<1>2. /\ v \in Versions /\ v < next /\ job[v] = "none" /\ d \in Docs /\ my[i].body \in Bodies
      /\ my[i] \in Private
      /\ \A k \in Writers \ {i} : pc[k] # "idle" => my[k].ver # v
  BY <1>1 DEF IInv, WriterInv, TypeOK
<1>3. /\ Same(Workers) /\ Same(Retirers) /\ Same(Writers \ {i}) /\ pc'[i] = "idle"
  BY <1>1, EndType, TxnAssumption DEF Txns, Same
<1>4. \A r \in Retirers : pc[r] = "hide" => my[r].doc # d
  BY <1>1, TxnAssumption DEF DocFree, HoldsDoc, Txns
<1>. HIDE DEF d, v
<1>5. /\ job'[v] = "pending" /\ vdoc'[v] = d /\ vbody'[v] = my[i].body
      /\ \A u \in Versions \ {v} : job'[u] = job[u] /\ vdoc'[u] = vdoc[u] /\ vbody'[u] = vbody[u]
      /\ \A e \in Docs : retired'[e] => retired[e]
  BY <1>1, <1>2 DEF TypeOK
<1>6. TypeOK'
  <2>1. retired' \in [Docs -> BOOLEAN]
    <3>1. my[i].revived \in BOOLEAN /\ retired[d] \in BOOLEAN
      BY <1>1, <1>2 DEF Private, TypeOK
    <3>. QED
      BY <1>1, <1>2, <3>1 DEF TypeOK
  <2>2. /\ job' \in [Versions -> JobStatus] /\ vdoc' \in [Versions -> Docs \cup {NoDoc}]
        /\ vbody' \in [Versions -> Bodies \cup {NoBody}]
        /\ source' \in [Docs -> Bodies \cup {NoBody}]
    BY <1>1, <1>2 DEF TypeOK, JobStatus
  <2>. QED
    BY <1>1, <2>1, <2>2, EndType DEF TypeOK
<1>7. PcInv'
  BY <1>3 DEF IInv, PcInv, Same
<1>8. active[v] = {} /\ vdoc[v] = NoDoc
  BY <1>2 DEF IInv, VersionInv, TypeOK
<1>9. VersionInv'
  BY <1>1, <1>2, <1>5, <1>8 DEF IInv, VersionInv
<1>10. \A w \in Workers : Indexing(w) =>
         /\ my[w].ver # v /\ my[w].ver \in Versions /\ job[my[w].ver] = "pending"
         /\ my[w].doc = vdoc[my[w].ver] /\ vdoc[my[w].ver] \in Docs
  BY <1>2, HeldAlone
<1>11. WorkerInv' /\ EachJobHasOneWorker'
  BY <1>3, <1>5, <1>10, WorkerFrame
<1>12. ASSUME NEW q \in Retirers
       PROVE  /\ pc'[q] = pc[q] /\ my'[q] = my[q]
              /\ pc[q] \in {"cancel", "hide"} =>
                   my[q].seen \subseteq {u \in Versions : vdoc[u] = my[q].doc /\ job[u] = "pending"}
              /\ pc[q] = "hide" =>
                   {u \in Versions : vdoc[u] = my[q].doc /\ job[u] = "pending"} \subseteq my[q].seen
  BY <1>3 DEF IInv, RetirerInv, PendingOf, JobsOf, Same
<1>13. \A q \in Retirers : (pc[q] \in {"cancel", "hide"} =>
          my[q].doc \in Docs /\ my[q].seen \subseteq PendingOf(my[q].doc))'
  BY <1>2, <1>5, <1>12 DEF IInv, RetirerInv, PendingOf, JobsOf
<1>14. \A q \in Retirers : (pc[q] = "hide" => PendingOf(my[q].doc) \subseteq my[q].seen)'
  BY <1>4, <1>5, <1>12 DEF PendingOf, JobsOf
<1>15. \A w \in Workers : Indexing(w)' = Indexing(w) /\ my'[w] = my[w]
  BY <1>3 DEF Same, Indexing
<1>16. RetirerInv'
  BY <1>12, <1>13, <1>14, <1>15 DEF IInv, RetirerInv
<1>17. \A k \in Writers \ {i} : pc'[k] = pc[k] /\ my'[k] = my[k]
  BY <1>3 DEF Same
<1>18. WriterInv'
  BY <1>1, <1>2, <1>3, <1>5, <1>17 DEF IInv, WriterInv
<1>19. RetiredUnsearchable'
  BY <1>1, <1>5, <1>8 DEF IInv, RetiredUnsearchable, TypeOK
<1>. QED
  BY <1>6, <1>7, <1>9, <1>11, <1>16, <1>18, <1>19 DEF IInv

-----------------------------------------------------------------------------
(***************************************************************************)
(* The theorems.                                                           *)
(***************************************************************************)

\* The invariant is inductive.
LEMMA NextInv ==
  ASSUME IInv, [Next]_vars
  PROVE  IInv'
<1>1. CASE \E w \in Workers : WorkerStep(w) \/ MarkJobFailed(w) \/ RestartWorker(w)
  <2>1. PICK w \in Workers : WorkerStep(w) \/ MarkJobFailed(w) \/ RestartWorker(w)
    BY <1>1
  <2>2. CASE FindNoJob(w)
    BY <2>2, WorkerEnds DEF FindNoJob
  <2>. QED
    BY <2>1, <2>2, ResolveStep, ClaimStep, InsertStep, StartStep, UpdateStep, CompleteStep,
       FailStep DEF WorkerStep
<1>2. CASE \E r \in Retirers : RetireStep(r) \/ \E d \in Docs : RetireDocument(r, d)
  BY <1>2, RetireStepInv, CancelStep, CancelledStep, HideStep DEF RetireStep
<1>3. CASE \E i \in Writers : WriteStep(i)
  BY <1>3, ReadStep, SkipStep, CreateStep DEF WriteStep
<1>4. CASE \E i \in Writers, d \in Docs, b \in Bodies :
             \/ UploadDocument(i, d, b)
             \/ \E force \in BOOLEAN : IngestDocument(i, d, b, force)
  BY <1>4, ReserveStep
<1>5. CASE \E t \in Txns : AbortDeadlocked(t) \/ Crash(t)
  BY <1>5, RollbackStep DEF AbortDeadlocked, Crash
<1>6. CASE UNCHANGED vars
  BY <1>6 DEF vars, tables, IInv, TypeOK, PcInv, VersionInv, WorkerInv, EachJobHasOneWorker,
     RetirerInv, WriterInv, RetiredUnsearchable, Indexing, PendingOf, JobsOf
<1>. QED
  BY <1>1, <1>2, <1>3, <1>4, <1>5, <1>6 DEF Next

\* The invariant holds in every reachable state.
LEMMA Inductive == Spec => []IInv
<1>. QED
  BY InitInv, NextInv, PTL DEF Spec

\* The index tables hold what the code's types and constraints say they hold, and
\* every transaction is at a place of its own kind.
THEOREM TypeCorrect == Spec => []TypeOK
<1>1. IInv => TypeOK
  BY DEF IInv
<1>. QED
  BY <1>1, Inductive, PTL

\* Nothing of a retired document is searchable but what a failed job has left,
\* with any number of removals, workers, models and re-ingestions racing, and
\* with crashes and deadlock victims.
THEOREM RetirementHolds == Spec => []RetiredUnsearchable
<1>1. IInv => RetiredUnsearchable
  BY DEF IInv
<1>. QED
  BY <1>1, Inductive, PTL

\* FOR UPDATE SKIP LOCKED: no two workers are ever inside the same job.
THEOREM OneWorkerPerJob == Spec => []EachJobHasOneWorker
<1>1. IInv => EachJobHasOneWorker
  BY DEF IInv
<1>. QED
  BY <1>1, Inductive, PTL

\* A finished job keeps its status: a worker finishes only pending jobs and a
\* removal cancels only pending jobs, though both act on what they read earlier.
THEOREM FinishedJobsKept == Spec => FinishedJobsStay
<1>1. ASSUME IInv, [Next]_vars, NEW v \in Versions, job[v] \in Finished
      PROVE  job'[v] = job[v]
  <2>1. \A w \in Workers : Indexing(w) => job[my[w].ver] = "pending"
    BY <1>1, HeldAlone
  <2>2. \A r \in Retirers : \A u \in my[r].seen : job[u] = "pending"
    BY <1>1 DEF IInv, PcInv, RetirerInv, PendingOf, JobsOf
  <2>3. \A i \in Writers : pc[i] # "idle" => job[my[i].ver] = "none"
    BY <1>1 DEF IInv, WriterInv
  <2>4. job \in [Versions -> JobStatus]
    BY <1>1 DEF IInv, TypeOK
  <2>5. CASE job' = job
    BY <2>5
  <2>6. CASE \E w \in Workers : CompleteIndexing(w) \/ MarkJobFailed(w)
    BY <1>1, <2>1, <2>4, <2>6 DEF CompleteIndexing, MarkJobFailed, Indexing, Finished
  <2>7. CASE \E r \in Retirers : HideChunks(r)
    BY <1>1, <2>2, <2>7 DEF HideChunks, Finished
  <2>8. CASE \E i \in Writers : CreateDocumentVersion(i)
    BY <1>1, <2>3, <2>4, <2>8 DEF CreateDocumentVersion, Finished
  <2>. QED
    BY <1>1, <2>5, <2>6, <2>7, <2>8
       DEF Next, vars, tables, WorkerStep, RetireStep, WriteStep, RestartWorker, RetireDocument,
           ResolveEmbeddingModel, ClaimNextJob, FindNoJob, InsertChunk, StartCompleting,
           UpdateChunks, CancelJob, CancelledAllJobs, ReadRetired, SkipUnchanged,
           ReactivateDocument, UploadDocument, IngestDocument, AbortDeadlocked, Crash, Rollback
<1>2. IInv /\ [Next]_vars =>
        [\A v \in Versions : job[v] \in Finished => job'[v] = job[v]]_vars
  BY <1>1
<1>. QED
  BY <1>2, Inductive, PTL DEF Spec, FinishedJobsStay

-----------------------------------------------------------------------------
(***************************************************************************)
(* What search gets from the index tables when all workers embed with one  *)
(* model, so that the lock on the model's row makes them take turns; and   *)
(* the proof that IndexJobs implements ServedIndex.                        *)
(***************************************************************************)

OneModel == \A w, u \in Workers : ModelOf[w] = ModelOf[u]

Completing(w) == pc[w] \in {"deactivate", "complete"}

\* One worker at a time is inside a transaction.
TurnInv ==
  \A w, u \in Workers : w # u => pc[w] \in {"idle", "dead"} \/ pc[u] \in {"idle", "dead"}

\* Rows come with the end of a job; the current version of a document is an indexed
\* one of that document.
RowInv ==
  /\ \A v \in Versions :
       /\ active[v] \subseteq rows[v]
       /\ job[v] \in {"none", "pending", "cancelled"} => rows[v] = {}
  /\ \A d \in Docs : current[d] # 0 =>
       job[current[d]] = "succeeded" /\ vdoc[current[d]] = d

\* What a completing worker has seen is what there still is; and if it has found the
\* document retired, nothing of it is shown, and it is still retired or has come back
\* with another job.
CompletingInv ==
  \A w \in Workers : Completing(w) =>
    /\ my[w].wrote = Content[vbody[my[w].ver]]
    /\ my[w].seen = {v \in JobsOf(my[w].doc) : rows[v] # {}}
    /\ ~my[w].show =>
         /\ \A v \in JobsOf(my[w].doc) : job[v] = "succeeded" => active[v] = {}
         /\ retired[my[w].doc] \/ \E v \in PendingOf(my[w].doc) : v # my[w].ver

ServeInv ==
  TurnInv /\ RowInv /\ CompletingInv /\ ServedIsCurrentAndWhole /\ LiveIsServedOrQueued

-----------------------------------------------------------------------------
(***************************************************************************)
(* Steps that leave what search reads alone.                               *)
(***************************************************************************)

content == <<retired, current, vdoc, vbody, job, active, rows>>

\* A step is one of the four that commit, or it leaves the content of the index as
\* it is.
LEMMA StepKinds ==
  ASSUME [Next]_vars
  PROVE  \/ UNCHANGED content
         \/ \E w \in Workers : CompleteIndexing(w) \/ MarkJobFailed(w)
         \/ \E r \in Retirers : HideChunks(r)
         \/ \E i \in Writers : CreateDocumentVersion(i)
<1>1. CASE \E w \in Workers : WorkerStep(w) \/ MarkJobFailed(w) \/ RestartWorker(w)
  BY <1>1 DEF content, tables, WorkerStep, RestartWorker, ResolveEmbeddingModel, ClaimNextJob,
     FindNoJob, InsertChunk, StartCompleting, UpdateChunks
<1>2. CASE \E r \in Retirers : RetireStep(r) \/ \E d \in Docs : RetireDocument(r, d)
  BY <1>2 DEF content, tables, RetireStep, RetireDocument, CancelJob, CancelledAllJobs
<1>3. CASE \E i \in Writers : WriteStep(i)
  BY <1>3 DEF content, tables, WriteStep, ReadRetired, SkipUnchanged, ReactivateDocument
<1>4. CASE \E i \in Writers, d \in Docs, b \in Bodies :
             \/ UploadDocument(i, d, b)
             \/ \E force \in BOOLEAN : IngestDocument(i, d, b, force)
  BY <1>4 DEF content, tables, UploadDocument, IngestDocument
<1>5. CASE \E t \in Txns : AbortDeadlocked(t) \/ Crash(t)
  BY <1>5 DEF content, tables, AbortDeadlocked, Crash, Rollback
<1>6. CASE UNCHANGED vars
  BY <1>6 DEF content, vars, tables
<1> QED
  BY <1>1, <1>2, <1>3, <1>4, <1>5, <1>6 DEF Next

LEMMA ContentFrame ==
  ASSUME ServeInv, UNCHANGED content
  PROVE  RowInv' /\ ServedIsCurrentAndWhole' /\ LiveIsServedOrQueued'
BY DEF content, ServeInv, RowInv, ServedIsCurrentAndWhole, LiveIsServedOrQueued, Known,
       JobsOf, PendingOf

\* A step of a transaction moves no other.
Alone(t) == \A u \in Txns \ {t} : pc'[u] = pc[u] /\ my'[u] = my[u]

LEMMA EndAlone ==
  ASSUME TypeOK, NEW t \in Txns, NEW p \in Places, End(t, p)
  PROVE  Alone(t)
BY DEF TypeOK, End, Goto, Alone

LEMMA WorkerAlone ==
  ASSUME TypeOK, NEW w \in Workers, WorkerStep(w) \/ MarkJobFailed(w) \/ RestartWorker(w)
  PROVE  Alone(w)
<1>1. w \in Txns
  BY DEF Txns
<1>2. CASE ResolveEmbeddingModel(w) \/ RestartWorker(w) \/ UpdateChunks(w)
  BY <1>1, <1>2 DEF ResolveEmbeddingModel, RestartWorker, UpdateChunks, Goto, TypeOK, Alone
<1>3. CASE ClaimNextJob(w)
  BY <1>1, <1>3 DEF ClaimNextJob, Goto, TypeOK, Alone
<1>4. CASE InsertChunk(w)
  BY <1>1, <1>4 DEF InsertChunk, TypeOK, Alone
<1>5. CASE StartCompleting(w)
  BY <1>1, <1>5 DEF StartCompleting, Goto, TypeOK, Alone
<1>6. CASE FindNoJob(w) \/ CompleteIndexing(w) \/ MarkJobFailed(w)
  <2>1. End(w, "idle")
    BY <1>6 DEF FindNoJob, CompleteIndexing, MarkJobFailed
  <2> QED
    BY <1>1, <2>1, EndAlone DEF Places
<1> QED
  BY <1>2, <1>3, <1>4, <1>5, <1>6 DEF WorkerStep

LEMMA RetirerAlone ==
  ASSUME TypeOK, NEW r \in Retirers, RetireStep(r) \/ \E d \in Docs : RetireDocument(r, d)
  PROVE  Alone(r)
<1>1. r \in Txns
  BY DEF Txns
<1>2. CASE CancelJob(r) \/ CancelledAllJobs(r)
  BY <1>1, <1>2 DEF CancelJob, CancelledAllJobs, Goto, TypeOK, Alone
<1>3. CASE HideChunks(r)
  BY <1>1, <1>3, EndAlone DEF HideChunks, Places
<1>4. CASE \E d \in Docs : RetireDocument(r, d)
  BY <1>1, <1>4 DEF RetireDocument, Goto, TypeOK, Alone
<1> QED
  BY <1>2, <1>3, <1>4 DEF RetireStep

LEMMA WriterAlone ==
  ASSUME TypeOK, NEW i \in Writers,
         \/ WriteStep(i)
         \/ \E d \in Docs, b \in Bodies :
              UploadDocument(i, d, b) \/ \E force \in BOOLEAN : IngestDocument(i, d, b, force)
  PROVE  Alone(i)
<1>1. i \in Txns
  BY DEF Txns
<1>2. CASE ReadRetired(i) \/ ReactivateDocument(i)
  BY <1>1, <1>2 DEF ReadRetired, ReactivateDocument, Goto, TypeOK, Alone
<1>3. CASE SkipUnchanged(i) \/ CreateDocumentVersion(i)
  <2>1. End(i, "idle")
    BY <1>3 DEF SkipUnchanged, CreateDocumentVersion
  <2> QED
    BY <1>1, <2>1, EndAlone DEF Places
<1>4. CASE \E d \in Docs, b \in Bodies : UploadDocument(i, d, b)
  BY <1>1, <1>4 DEF UploadDocument, Goto, TypeOK, Alone
<1>5. CASE \E d \in Docs, b \in Bodies, force \in BOOLEAN : IngestDocument(i, d, b, force)
  BY <1>1, <1>5 DEF IngestDocument, Goto, TypeOK, Alone
<1> QED
  BY <1>2, <1>3, <1>4, <1>5 DEF WriteStep

\* Where a step of another process finds and leaves a worker.
LEMMA WorkersStay ==
  ASSUME IInv, Next, NEW w \in Workers
  PROVE  \/ pc'[w] = pc[w] /\ my'[w] = my[w]
         \/ WorkerStep(w) \/ MarkJobFailed(w) \/ RestartWorker(w) \/ Rollback(w)
<1>1. w \in Txns /\ TypeOK /\ \A t \in Txns \ {w} : Alone(t) => pc'[w] = pc[w] /\ my'[w] = my[w]
  BY DEF Txns, IInv, Alone
<1>2. CASE \E u \in Workers : WorkerStep(u) \/ MarkJobFailed(u) \/ RestartWorker(u)
  BY <1>1, <1>2, WorkerAlone DEF Txns
<1>3. CASE \E r \in Retirers : RetireStep(r) \/ \E d \in Docs : RetireDocument(r, d)
  BY <1>1, <1>3, RetirerAlone, TxnAssumption DEF Txns
<1>4. CASE \/ \E i \in Writers : WriteStep(i)
           \/ \E i \in Writers, d \in Docs, b \in Bodies :
                UploadDocument(i, d, b) \/ \E force \in BOOLEAN : IngestDocument(i, d, b, force)
  BY <1>1, <1>4, WriterAlone, TxnAssumption DEF Txns
<1>5. CASE \E t \in Txns : Rollback(t)
  BY <1>1, <1>5, EndAlone DEF Rollback, Places
<1> QED
  BY <1>2, <1>3, <1>4, <1>5 DEF Next, AbortDeadlocked, Crash

\* The lock on the model's row makes the workers take turns.
LEMMA TurnStep ==
  ASSUME OneModel, IInv, TurnInv, [Next]_vars
  PROVE  TurnInv'
<1>1. CASE UNCHANGED vars
  BY <1>1 DEF vars, TurnInv
<1>2. CASE Next
  <2>1. ASSUME NEW w \in Workers, pc'[w] \notin {"idle", "dead"}, pc[w] \in {"idle", "dead"}
        PROVE  ResolveEmbeddingModel(w)
    BY <1>2, <2>1, WorkersStay
       DEF WorkerStep, ClaimNextJob, FindNoJob, InsertChunk, StartCompleting, UpdateChunks,
           CompleteIndexing, MarkJobFailed, RestartWorker, Rollback, End, Goto, IInv, TypeOK, Txns
  <2>2. ASSUME NEW w \in Workers, NEW u \in Workers, w # u,
               pc'[w] \notin {"idle", "dead"}, pc'[u] \notin {"idle", "dead"}
        PROVE  FALSE
    <3>1. CASE ResolveEmbeddingModel(w)
      BY <2>2, <3>1 DEF ResolveEmbeddingModel, HoldsModel, OneModel, Goto, IInv, TypeOK, Txns
    <3>2. CASE ResolveEmbeddingModel(u)
      BY <2>2, <3>2 DEF ResolveEmbeddingModel, HoldsModel, OneModel, Goto, IInv, TypeOK, Txns
    <3> QED
      BY <2>1, <2>2, <3>1, <3>2 DEF TurnInv
  <2> QED
    BY <2>2 DEF TurnInv
<1> QED
  BY <1>1, <1>2

-----------------------------------------------------------------------------
(***************************************************************************)
(* A worker before its commit.                                             *)
(***************************************************************************)

\* As long as the content of the index stays, a completing worker's view of it does.
LEMMA CompletingFrame ==
  ASSUME IInv, ServeInv, [Next]_vars, UNCHANGED content
  PROVE  CompletingInv'
<1> SUFFICES ASSUME NEW w \in Workers, Completing(w)'
             PROVE  /\ my'[w].wrote = Content[vbody[my'[w].ver]]
                    /\ my'[w].seen = {v \in JobsOf(my'[w].doc) : rows[v] # {}}
                    /\ ~my'[w].show =>
                         /\ \A v \in JobsOf(my'[w].doc) : job[v] = "succeeded" => active[v] = {}
                         /\ \/ retired[my'[w].doc]
                            \/ \E v \in PendingOf(my'[w].doc) : v # my'[w].ver
  BY DEF CompletingInv, content, JobsOf, PendingOf
<1>1. CASE pc'[w] = pc[w] /\ my'[w] = my[w]
  BY <1>1 DEF ServeInv, CompletingInv, Completing
<1>2. CASE StartCompleting(w)
  <2>1. /\ pc[w] = "write" /\ w \in Txns /\ my[w] \in Private
        /\ my[w].wrote = Content[vbody[my[w].ver]]
        /\ my' = [my EXCEPT ![w].seen = {v \in JobsOf(my[w].doc) : rows[v] # {}},
                            ![w].show = ~retired[my[w].doc]]
    BY <1>2 DEF StartCompleting, IInv, TypeOK, Txns
  <2>2. /\ my'[w].ver = my[w].ver /\ my'[w].doc = my[w].doc /\ my'[w].wrote = my[w].wrote
        /\ my'[w].seen = {v \in JobsOf(my[w].doc) : rows[v] # {}}
        /\ my'[w].show = ~retired[my[w].doc]
    BY <2>1 DEF IInv, TypeOK, Private
  <2>3. my[w].doc \in Docs /\ my[w].doc # NoDoc
    BY <2>1, HeldAlone, NullAssumption DEF Indexing
  <2>4. retired[my[w].doc] => \A v \in JobsOf(my[w].doc) : job[v] = "succeeded" => active[v] = {}
    BY <2>3 DEF IInv, RetiredUnsearchable, JobsOf
  <2>5. retired[my[w].doc] \in BOOLEAN
    BY <2>3 DEF IInv, TypeOK
  <2> QED
    BY <2>1, <2>2, <2>4, <2>5
<1>3. CASE UpdateChunks(w)
  BY <1>3 DEF UpdateChunks, ServeInv, CompletingInv, Completing
<1>4. ~(CompleteIndexing(w) \/ MarkJobFailed(w))
  BY HeldAlone, ConfigAssumption DEF content, CompleteIndexing, MarkJobFailed, Indexing, IInv, TypeOK
<1>5. CASE ResolveEmbeddingModel(w) \/ ClaimNextJob(w) \/ FindNoJob(w) \/ InsertChunk(w)
           \/ RestartWorker(w) \/ Rollback(w)
  BY <1>5 DEF Completing, ResolveEmbeddingModel, ClaimNextJob, FindNoJob, InsertChunk, RestartWorker,
     Rollback, End, Goto, IInv, TypeOK, Txns
<1>6. CASE UNCHANGED vars
  BY <1>1, <1>6 DEF vars
<1> QED
  BY <1>1, <1>2, <1>3, <1>4, <1>5, <1>6, WorkersStay DEF WorkerStep

-----------------------------------------------------------------------------
(***************************************************************************)
(* The four commits.                                                       *)
(***************************************************************************)

LEMMA InitServe == Init => ServeInv
BY NullAssumption
   DEF Init, ServeInv, TurnInv, RowInv, CompletingInv, Completing, ServedIsCurrentAndWhole,
       LiveIsServedOrQueued, Known, Txns

\* What a worker's commit does to the versions of its document and to the others.
LEMMA CompleteEffect ==
  ASSUME IInv, ServeInv, NEW w \in Workers, CompleteIndexing(w)
  PROVE  LET v == my[w].ver
             d == my[w].doc
         IN /\ v \in Versions /\ d \in Docs /\ vdoc[v] = d /\ job[v] = "pending"
            /\ job' = [job EXCEPT ![v] = "succeeded"]
            /\ current' = [current EXCEPT ![d] = v]
            /\ rows'[v] = Content[vbody[v]]
            /\ active'[v] = IF my[w].show THEN Content[vbody[v]] ELSE {}
            /\ \A u \in Versions \ {v} :
                 /\ rows'[u] = rows[u]
                 /\ active'[u] = IF vdoc[u] = d THEN {} ELSE active[u]
            /\ UNCHANGED <<retired, vdoc, vbody>>
<1> DEFINE v == my[w].ver
           d == my[w].doc
<1>1. Indexing(w) /\ Completing(w)
  BY DEF CompleteIndexing, Indexing, Completing
<1>2. /\ v \in Versions /\ d \in Docs /\ vdoc[v] = d /\ job[v] = "pending"
      /\ rows \in [Versions -> SUBSET Chunks]
  BY <1>1, HeldAlone DEF IInv, TypeOK
<1>3. /\ my[w].wrote = Content[vbody[v]]
      /\ my[w].seen = {u \in Versions : vdoc[u] = d /\ rows[u] # {}}
  BY <1>1 DEF ServeInv, CompletingInv, JobsOf
<1>4. \A u \in Versions : active[u] \subseteq rows[u]
  BY DEF ServeInv, RowInv
<1>5. /\ rows' = [rows EXCEPT ![v] = my[w].wrote]
      /\ active' = [u \in Versions |->
                      IF u = v THEN IF my[w].show THEN my[w].wrote ELSE {}
                      ELSE IF u \in my[w].seen THEN {} ELSE active[u]]
      /\ current' = [current EXCEPT ![d] = v]
      /\ job' = [job EXCEPT ![v] = "succeeded"]
      /\ UNCHANGED <<retired, vdoc, vbody>>
  BY DEF CompleteIndexing
<1> HIDE DEF v, d
<1>6. \A u \in Versions \ {v} : active'[u] = IF vdoc[u] = d THEN {} ELSE active[u]
  BY <1>2, <1>3, <1>4, <1>5
<1>7. /\ rows'[v] = Content[vbody[v]]
      /\ active'[v] = IF my[w].show THEN Content[vbody[v]] ELSE {}
      /\ \A u \in Versions \ {v} : rows'[u] = rows[u]
  BY <1>2, <1>3, <1>5
<1> QED
  BY <1>2, <1>5, <1>6, <1>7 DEF v, d

\* When a worker that is indexing commits, no other is completing.
LEMMA NoneCompleting ==
  ASSUME IInv, TurnInv, NEW w \in Workers, Indexing(w), End(w, "idle")
  PROVE  \A u \in Workers : ~Completing(u)'
BY DEF TurnInv, Indexing, End, Goto, Completing, IInv, TypeOK, Txns

LEMMA CompleteServe ==
  ASSUME IInv, ServeInv, NEW w \in Workers, CompleteIndexing(w)
  PROVE  RowInv' /\ CompletingInv' /\ ServedIsCurrentAndWhole' /\ LiveIsServedOrQueued'
<1> DEFINE v == my[w].ver
           d == my[w].doc
<1>1. /\ v \in Versions /\ d \in Docs /\ vdoc[v] = d /\ job[v] = "pending"
      /\ job' = [job EXCEPT ![v] = "succeeded"]
      /\ current' = [current EXCEPT ![d] = v]
      /\ rows'[v] = Content[vbody[v]]
      /\ active'[v] = IF my[w].show THEN Content[vbody[v]] ELSE {}
      /\ \A u \in Versions \ {v} :
           /\ rows'[u] = rows[u]
           /\ active'[u] = IF vdoc[u] = d THEN {} ELSE active[u]
      /\ UNCHANGED <<retired, vdoc, vbody>>
  BY CompleteEffect
<1>2. /\ job \in [Versions -> JobStatus] /\ current \in [Docs -> {0} \cup Versions]
      /\ RowInv /\ ServedIsCurrentAndWhole /\ LiveIsServedOrQueued
  BY DEF IInv, TypeOK, ServeInv
<1>3. Indexing(w) /\ Completing(w) /\ End(w, "idle")
  BY DEF CompleteIndexing, Indexing, Completing
<1>4. ~my[w].show => retired[d] \/ \E u \in Versions : vdoc[u] = d /\ job[u] = "pending" /\ u # v
  BY <1>3 DEF ServeInv, CompletingInv, PendingOf, JobsOf
<1> HIDE DEF v, d
<1>5. /\ job'[v] = "succeeded" /\ \A u \in Versions \ {v} : job'[u] = job[u]
      /\ current'[d] = v /\ \A e \in Docs \ {d} : current'[e] = current[e] /\ current[e] # v
  BY <1>1, <1>2 DEF RowInv, Versions
<1>6. RowInv'
  BY <1>1, <1>2, <1>5 DEF RowInv
<1>7. CompletingInv'
  BY <1>3, NoneCompleting DEF ServeInv, CompletingInv
<1>8. ServedIsCurrentAndWhole'
  BY <1>1, <1>2, <1>5 DEF ServedIsCurrentAndWhole, IInv, VersionInv
<1>9. ASSUME NEW e \in Docs, Known(e)', ~retired'[e]
      PROVE  (\/ PendingOf(e) # {}
              \/ current[e] # 0 /\ active[current[e]] = Content[vbody[current[e]]]
              \/ \E u \in JobsOf(e) : job[u] = "failed")'
  <2>1. CASE e = d
    <3>1. CASE my[w].show
      BY <1>1, <1>5, <2>1, <3>1 DEF Versions
    <3>2. CASE ~my[w].show
      BY <1>1, <1>4, <1>5, <1>9, <2>1, <3>2 DEF PendingOf, JobsOf
    <3> QED
      BY <3>1, <3>2
  <2>2. CASE e # d
    <3>1. \/ \E u \in Versions : vdoc[u] = e /\ job[u] = "pending"
          \/ current[e] # 0 /\ active[current[e]] = Content[vbody[current[e]]]
          \/ \E u \in Versions : vdoc[u] = e /\ job[u] = "failed"
      BY <1>1, <1>2, <1>9 DEF LiveIsServedOrQueued, Known, PendingOf, JobsOf
    <3>2. CASE current[e] # 0 /\ active[current[e]] = Content[vbody[current[e]]]
      BY <1>1, <1>2, <1>5, <2>2, <3>2 DEF RowInv
    <3> QED
      BY <1>1, <1>5, <2>2, <3>1, <3>2 DEF PendingOf, JobsOf
  <2> QED
    BY <2>1, <2>2
<1> QED
  BY <1>6, <1>7, <1>8, <1>9 DEF LiveIsServedOrQueued

LEMMA FailServe ==
  ASSUME IInv, ServeInv, NEW w \in Workers, MarkJobFailed(w)
  PROVE  RowInv' /\ CompletingInv' /\ ServedIsCurrentAndWhole' /\ LiveIsServedOrQueued'
<1> DEFINE v == my[w].ver
<1>1. Indexing(w) /\ End(w, "idle")
  BY DEF MarkJobFailed, Indexing
<1>2. /\ v \in Versions /\ job[v] = "pending"
      /\ job \in [Versions -> JobStatus] /\ current \in [Docs -> {0} \cup Versions]
      /\ rows \in [Versions -> SUBSET Chunks] /\ active \in [Versions -> SUBSET Chunks]
      /\ RowInv /\ ServedIsCurrentAndWhole /\ LiveIsServedOrQueued
  BY <1>1, HeldAlone DEF IInv, TypeOK, ServeInv
<1>3. /\ rows' = [rows EXCEPT ![v] = my[w].wrote]
      /\ active' = [active EXCEPT ![v] = my[w].wrote]
      /\ job' = [job EXCEPT ![v] = "failed"]
      /\ UNCHANGED <<retired, current, vdoc, vbody>>
  BY DEF MarkJobFailed
<1> HIDE DEF v
<1>4. /\ job'[v] = "failed" /\ active'[v] = rows'[v]
      /\ \A u \in Versions \ {v} : job'[u] = job[u] /\ rows'[u] = rows[u] /\ active'[u] = active[u]
      /\ \A e \in Docs : current[e] # v
  BY <1>2, <1>3 DEF RowInv, Versions
<1>5. RowInv' /\ ServedIsCurrentAndWhole'
  BY <1>2, <1>3, <1>4 DEF RowInv, ServedIsCurrentAndWhole
<1>6. CompletingInv'
  BY <1>1, NoneCompleting DEF ServeInv, CompletingInv
<1>7. LiveIsServedOrQueued'
  BY <1>2, <1>3, <1>4 DEF LiveIsServedOrQueued, Known, PendingOf, JobsOf
<1> QED
  BY <1>5, <1>6, <1>7

\* The removal's commit: a completing worker's job is not one of those it has taken,
\* which are all there are of its document.
LEMMA HideServe ==
  ASSUME IInv, ServeInv, NEW r \in Retirers, HideChunks(r)
  PROVE  RowInv' /\ CompletingInv' /\ ServedIsCurrentAndWhole' /\ LiveIsServedOrQueued'
<1> DEFINE d == my[r].doc
           S == my[r].seen
<1>1. /\ retired' = [retired EXCEPT ![d] = TRUE]
      /\ job' = [v \in Versions |-> IF v \in S THEN "cancelled" ELSE job[v]]
      /\ active' = [v \in Versions |-> IF vdoc[v] = d THEN {} ELSE active[v]]
      /\ UNCHANGED <<current, vdoc, vbody, rows>>
      /\ pc[r] = "hide" /\ End(r, "idle") /\ TypeOK
  BY DEF HideChunks, IInv
<1>2. d \in Docs /\ S = {v \in Versions : vdoc[v] = d /\ job[v] = "pending"}
  BY <1>1 DEF IInv, RetirerInv, PendingOf, JobsOf
<1>3. RowInv /\ CompletingInv /\ ServedIsCurrentAndWhole /\ LiveIsServedOrQueued
  BY DEF ServeInv
<1> HIDE DEF d, S
<1>4. /\ retired'[d] /\ \A e \in Docs \ {d} : retired'[e] = retired[e]
      /\ \A v \in Versions : job[v] # "pending" \/ vdoc[v] # d => job'[v] = job[v]
      /\ \A v \in Versions : vdoc[v] = d /\ job[v] = "pending" => job'[v] = "cancelled"
      /\ \A v \in Versions : active'[v] = IF vdoc[v] = d THEN {} ELSE active[v]
  BY <1>1, <1>2 DEF TypeOK
<1>5. RowInv'
  BY <1>1, <1>3, <1>4 DEF RowInv, TypeOK
<1>6. ServedIsCurrentAndWhole'
  BY <1>1, <1>2, <1>3, <1>4 DEF ServedIsCurrentAndWhole
<1>7. LiveIsServedOrQueued'
  <2>1. ASSUME NEW e \in Docs \ {d}, Known(e), ~retired[e]
        PROVE  (\/ \E u \in Versions : vdoc[u] = e /\ job[u] = "pending"
                \/ current[e] # 0 /\ active[current[e]] = Content[vbody[current[e]]]
                \/ \E u \in Versions : vdoc[u] = e /\ job[u] = "failed")'
    <3>1. CASE current[e] # 0 /\ active[current[e]] = Content[vbody[current[e]]]
      BY <1>1, <1>3, <1>4, <3>1 DEF RowInv, TypeOK
    <3> QED
      BY <1>1, <1>3, <1>4, <2>1, <3>1 DEF LiveIsServedOrQueued, PendingOf, JobsOf
  <2>2. ASSUME NEW e \in Docs, Known(e)', ~retired'[e]
        PROVE  (\/ PendingOf(e) # {}
                \/ current[e] # 0 /\ active[current[e]] = Content[vbody[current[e]]]
                \/ \E u \in JobsOf(e) : job[u] = "failed")'
    <3>1. e \in Docs \ {d} /\ Known(e) /\ ~retired[e]
      BY <1>1, <1>4, <2>2 DEF Known
    <3> QED
      BY <2>1, <3>1 DEF PendingOf, JobsOf
  <2> QED
    BY <2>2 DEF LiveIsServedOrQueued
<1>8. ASSUME NEW w \in Workers, Completing(w)'
      PROVE  /\ Completing(w) /\ my'[w] = my[w] /\ my[w].doc \in Docs \ {d}
             /\ my[w].ver \in Versions
  <2>1. pc'[w] = pc[w] /\ my'[w] = my[w]
    BY <1>1, TxnAssumption DEF End, Goto, TypeOK, Txns
  <2>2. Indexing(w) /\ Completing(w)
    BY <1>8, <2>1 DEF Completing, Indexing
  <2>3. /\ my[w].ver \in Versions /\ job[my[w].ver] = "pending" /\ my[w].doc = vdoc[my[w].ver]
        /\ my[w].ver \notin S /\ my[w].doc \in Docs
    BY <2>2, HeldAlone DEF S
  <2> QED
    BY <1>2, <2>1, <2>2, <2>3
<1>9. CompletingInv'
  <2>1. ASSUME NEW w \in Workers, Completing(w)'
        PROVE  (/\ my[w].wrote = Content[vbody[my[w].ver]]
                /\ my[w].seen = {v \in JobsOf(my[w].doc) : rows[v] # {}}
                /\ ~my[w].show =>
                     /\ \A v \in JobsOf(my[w].doc) : job[v] = "succeeded" => active[v] = {}
                     /\ retired[my[w].doc] \/ \E v \in PendingOf(my[w].doc) : v # my[w].ver)'
    BY <1>1, <1>3, <1>4, <1>8, <2>1, SMTT(30) DEF CompletingInv, JobsOf, PendingOf
  <2> QED
    BY <2>1 DEF CompletingInv
<1> QED
  BY <1>5, <1>6, <1>7, <1>9

\* A writer's commit adds a job, and so a version without rows.
LEMMA CreateServe ==
  ASSUME IInv, ServeInv, NEW i \in Writers, CreateDocumentVersion(i)
  PROVE  RowInv' /\ CompletingInv' /\ ServedIsCurrentAndWhole' /\ LiveIsServedOrQueued'
<1> DEFINE d == my[i].doc
           v == my[i].ver
<1>1. /\ pc[i] = "store" /\ End(i, "idle") /\ TypeOK
      /\ retired' = [retired EXCEPT ![d] = @ /\ ~my[i].revived]
      /\ vdoc' = [vdoc EXCEPT ![v] = d]
      /\ vbody' = [vbody EXCEPT ![v] = my[i].body]
      /\ job' = [job EXCEPT ![v] = "pending"]
      /\ UNCHANGED <<current, active, rows>>
  BY DEF CreateDocumentVersion, IInv
<1>2. v \in Versions /\ job[v] = "none" /\ d \in Docs /\ vdoc[v] = NoDoc
  BY <1>1 DEF IInv, WriterInv, VersionInv, TypeOK
<1>3. RowInv /\ CompletingInv /\ ServedIsCurrentAndWhole /\ LiveIsServedOrQueued
  BY DEF ServeInv
<1> HIDE DEF d, v
<1>4. /\ job'[v] = "pending" /\ vdoc'[v] = d /\ rows[v] = {} /\ active[v] = {}
      /\ \A u \in Versions \ {v} : job'[u] = job[u] /\ vdoc'[u] = vdoc[u] /\ vbody'[u] = vbody[u]
      /\ \A e \in Docs \ {d} : retired'[e] = retired[e]
      /\ \A e \in Docs : current[e] # 0 => current[e] \in Versions \ {v}
  BY <1>1, <1>2, <1>3 DEF TypeOK, RowInv
<1>5. RowInv'
  BY <1>1, <1>3, <1>4 DEF RowInv
<1>6. ServedIsCurrentAndWhole'
  BY <1>1, <1>3, <1>4 DEF ServedIsCurrentAndWhole
<1>7. LiveIsServedOrQueued'
  <2>1. ASSUME NEW e \in Docs \ {d}, Known(e)', ~retired[e]
        PROVE  (\/ \E u \in Versions : vdoc[u] = e /\ job[u] = "pending"
                \/ current[e] # 0 /\ active[current[e]] = Content[vbody[current[e]]]
                \/ \E u \in Versions : vdoc[u] = e /\ job[u] = "failed")'
    <3>1. Known(e)
      BY <1>4, <2>1 DEF Known
    <3> QED
      BY <1>1, <1>2, <1>3, <1>4, <2>1, <3>1 DEF LiveIsServedOrQueued, PendingOf, JobsOf
  <2> QED
    BY <1>2, <1>4, <2>1 DEF LiveIsServedOrQueued, PendingOf, JobsOf
<1>8. ASSUME NEW w \in Workers, Completing(w)'
      PROVE  /\ Completing(w) /\ my'[w] = my[w] /\ my[w].doc \in Docs
             /\ my[w].ver \in Versions \ {v}
  <2>1. pc'[w] = pc[w] /\ my'[w] = my[w]
    BY <1>1, TxnAssumption DEF End, Goto, TypeOK, Txns
  <2>2. Indexing(w) /\ Completing(w)
    BY <1>8, <2>1 DEF Completing, Indexing
  <2> QED
    BY <1>2, <2>1, <2>2, HeldAlone
<1>9. CompletingInv'
  <2>1. ASSUME NEW w \in Workers, Completing(w)'
        PROVE  (/\ my[w].wrote = Content[vbody[my[w].ver]]
                /\ my[w].seen = {u \in JobsOf(my[w].doc) : rows[u] # {}}
                /\ ~my[w].show =>
                     /\ \A u \in JobsOf(my[w].doc) : job[u] = "succeeded" => active[u] = {}
                     /\ retired[my[w].doc] \/ \E u \in PendingOf(my[w].doc) : u # my[w].ver)'
    <3>1. /\ my[w].wrote = Content[vbody[my[w].ver]]
          /\ my[w].seen = {u \in JobsOf(my[w].doc) : rows[u] # {}}
          /\ ~my[w].show =>
               /\ \A u \in JobsOf(my[w].doc) : job[u] = "succeeded" => active[u] = {}
               /\ retired[my[w].doc] \/ \E u \in PendingOf(my[w].doc) : u # my[w].ver
      BY <1>3, <1>8, <2>1 DEF CompletingInv
    <3>2. {u \in JobsOf(my[w].doc) : rows[u] # {}}' = {u \in JobsOf(my[w].doc) : rows[u] # {}}
      BY <1>1, <1>2, <1>4, <1>8, <2>1, NullAssumption DEF JobsOf
    <3>3. \A u \in Versions : vdoc'[u] = my[w].doc /\ job'[u] = "succeeded" =>
             vdoc[u] = my[w].doc /\ job[u] = "succeeded"
      BY <1>4
    <3>4. \A u \in Versions \ {v} : vdoc[u] = my[w].doc /\ job[u] = "pending" =>
             vdoc'[u] = my[w].doc /\ job'[u] = "pending"
      BY <1>4
    <3>5. v \in Versions /\ vdoc[v] # my[w].doc
      BY <1>2, <1>8, <2>1, NullAssumption
    <3>6. retired[my[w].doc] => retired'[my[w].doc] \/ my[w].doc = d
      BY <1>4, <1>8, <2>1
    <3>7. ~my'[w].show =>
            /\ \A u \in JobsOf(my[w].doc)' : job'[u] = "succeeded" => active'[u] = {}
            /\ retired'[my'[w].doc] \/ \E u \in PendingOf(my[w].doc)' : u # my'[w].ver
      BY <1>1, <1>4, <1>8, <2>1, <3>1, <3>3, <3>4, <3>5, <3>6 DEF JobsOf, PendingOf
    <3> QED
      BY <1>4, <1>8, <2>1, <3>1, <3>2, <3>7
  <2> QED
    BY <2>1 DEF CompletingInv
<1> QED
  BY <1>5, <1>6, <1>7, <1>9

LEMMA StepServe ==
  ASSUME OneModel, IInv, ServeInv, [Next]_vars
  PROVE  ServeInv'
<1>1. TurnInv'
  BY TurnStep DEF ServeInv
<1>2. CASE UNCHANGED content
  BY <1>1, <1>2, ContentFrame, CompletingFrame DEF ServeInv
<1> QED
  BY <1>1, <1>2, StepKinds, CompleteServe, FailServe, HideServe, CreateServe DEF ServeInv

LEMMA ServeAlways == OneModel => (Spec => []ServeInv)
<1> SUFFICES ASSUME OneModel PROVE Spec => []ServeInv
  OBVIOUS
<1>1. IInv /\ ServeInv /\ [Next]_vars => ServeInv'
  BY StepServe
<1> QED
  BY <1>1, InitServe, Inductive, PTL DEF Spec

-----------------------------------------------------------------------------
(***************************************************************************)
(* What search gets, and the refinement of ServedIndex.                    *)
(***************************************************************************)

\* With one model, what search reads of indexed documents is the whole of the
\* current version and nothing else.
THEOREM OneVersionIsServed == OneModel => (Spec => []ServedIsCurrentAndWhole)
<1>1. ServeInv => ServedIsCurrentAndWhole
  BY DEF ServeInv
<1> QED
  BY <1>1, ServeAlways, PTL

\* With one model, no document that is not retired is absent from search unless a
\* job is waiting that will make it present or one has failed.
THEOREM NoDocumentIsLost == OneModel => (Spec => []LiveIsServedOrQueued)
<1>1. ServeInv => LiveIsServedOrQueued
  BY DEF ServeInv
<1> QED
  BY <1>1, ServeAlways, PTL

LEMMA InitServed == Init => Served!Init
BY DEF Init, Served!Init, served, spent, blank, Finished

AbstractStep == [Served!Next]_<<served, retired, blank, spent>>

LEMMA StutterServed ==
  ASSUME UNCHANGED content
  PROVE  AbstractStep
BY DEF content, AbstractStep, served, spent, blank

\* A worker's commit publishes its version, or gives it up when the document had
\* been retired when the worker looked.
LEMMA CompleteServed ==
  ASSUME IInv, ServeInv, NEW w \in Workers, CompleteIndexing(w)
  PROVE  AbstractStep
<1> DEFINE v == my[w].ver
           d == my[w].doc
<1>1. /\ v \in Versions /\ d \in Docs /\ vdoc[v] = d /\ job[v] = "pending"
      /\ job' = [job EXCEPT ![v] = "succeeded"]
      /\ current' = [current EXCEPT ![d] = v]
      /\ active'[v] = IF my[w].show THEN Content[vbody[v]] ELSE {}
      /\ \A u \in Versions \ {v} : active'[u] = IF vdoc[u] = d THEN {} ELSE active[u]
      /\ UNCHANGED <<retired, vdoc, vbody>>
  BY CompleteEffect
<1>2. /\ job \in [Versions -> JobStatus] /\ current \in [Docs -> {0} \cup Versions]
      /\ retired \in [Docs -> BOOLEAN]
      /\ RowInv
  BY DEF IInv, TypeOK, ServeInv
<1>3. Indexing(w) /\ Completing(w)
  BY DEF CompleteIndexing, Indexing, Completing
<1>4. /\ my[w].show => ~retired[d]
      /\ ~my[w].show => \A u \in Versions : vdoc[u] = d /\ job[u] = "succeeded" => active[u] = {}
  BY <1>3 DEF ServeInv, CompletingInv, IInv, WorkerInv, JobsOf, Completing
<1> HIDE DEF v, d
<1>5. v \notin spent /\ spent' = spent \cup {v} /\ blank' = blank
  BY <1>1, <1>2 DEF spent, blank, Finished
<1>6. current'[d] = v /\ v # 0 /\ \A e \in Docs \ {d} : current'[e] = current[e] /\ current[e] # v
  BY <1>1, <1>2 DEF RowInv, Versions
<1>7. \A e \in Docs \ {d} : current[e] # 0 => current[e] \in Versions /\ vdoc[current[e]] # d
  BY <1>2 DEF RowInv
<1>8. \A e \in Docs \ {d} : served'[e] = served[e]
  BY <1>1, <1>6, <1>7 DEF served
<1>9. CASE my[w].show
  <2>1. served'[d] = IF v \in blank THEN 0 ELSE v
    BY <1>1, <1>6, <1>9 DEF served, blank
  <2>2. served' = [served EXCEPT ![d] = IF v \in blank THEN 0 ELSE v]
    <3>1. served = [e \in Docs |-> served[e]] /\ served' = [e \in Docs |-> served'[e]]
      BY DEF served
    <3> QED
      BY <1>1, <1>8, <2>1, <3>1
  <2>3. Served!Publish(d, v)
    BY <1>1, <1>4, <1>5, <1>9, <2>2 DEF Served!Publish
  <2> QED
    BY <1>1, <2>3 DEF AbstractStep, Served!Next
<1>10. CASE ~my[w].show
  <2>1. served[d] = 0
    BY <1>1, <1>2, <1>4, <1>10 DEF served, RowInv
  <2>2. served'[d] = 0
    BY <1>1, <1>6, <1>10 DEF served
  <2>3. served' = served
    BY <1>8, <2>1, <2>2 DEF served
  <2>4. Served!GiveUp(v)
    BY <1>1, <1>5, <2>3 DEF Served!GiveUp
  <2> QED
    BY <1>1, <2>4 DEF AbstractStep, Served!Next
<1> QED
  BY <1>9, <1>10

LEMMA FailServed ==
  ASSUME IInv, ServeInv, NEW w \in Workers, MarkJobFailed(w)
  PROVE  AbstractStep
<1> DEFINE v == my[w].ver
<1>1. Indexing(w)
  BY DEF MarkJobFailed, Indexing
<1>2. /\ v \in Versions /\ job[v] = "pending"
      /\ job \in [Versions -> JobStatus] /\ current \in [Docs -> {0} \cup Versions]
      /\ active \in [Versions -> SUBSET Chunks]
      /\ RowInv
  BY <1>1, HeldAlone DEF IInv, TypeOK, ServeInv
<1>3. /\ active' = [active EXCEPT ![v] = my[w].wrote]
      /\ job' = [job EXCEPT ![v] = "failed"]
      /\ UNCHANGED <<retired, current, vdoc, vbody>>
  BY DEF MarkJobFailed
<1> HIDE DEF v
<1>4. v \notin spent /\ spent' = spent \cup {v} /\ blank' = blank
  BY <1>2, <1>3 DEF spent, blank, Finished
<1>5. \A e \in Docs : current[e] # 0 => active'[current[e]] = active[current[e]]
  BY <1>2, <1>3 DEF RowInv
<1>6. served' = served
  BY <1>3, <1>5 DEF served
<1>7. Served!GiveUp(v)
  BY <1>3, <1>4, <1>6 DEF Served!GiveUp
<1> QED
  BY <1>2, <1>7 DEF AbstractStep, Served!Next

\* A removal's commit withdraws its document.
LEMMA HideServed ==
  ASSUME IInv, ServeInv, NEW r \in Retirers, HideChunks(r)
  PROVE  AbstractStep
<1> DEFINE d == my[r].doc
           S == my[r].seen
<1>1. /\ retired' = [retired EXCEPT ![d] = TRUE]
      /\ job' = [v \in Versions |-> IF v \in S THEN "cancelled" ELSE job[v]]
      /\ active' = [v \in Versions |-> IF vdoc[v] = d THEN {} ELSE active[v]]
      /\ UNCHANGED <<current, vdoc, vbody>>
      /\ pc[r] = "hide"
  BY DEF HideChunks
<1>2. d \in Docs /\ S = {v \in Versions : vdoc[v] = d /\ job[v] = "pending"}
  BY <1>1 DEF IInv, RetirerInv, PendingOf, JobsOf
<1>3. RowInv /\ current \in [Docs -> {0} \cup Versions]
  BY DEF ServeInv, IInv, TypeOK
<1> HIDE DEF d, S
<1>4. spent \subseteq spent' /\ spent' \subseteq Versions
  BY <1>1 DEF spent, Finished
<1>5. blank' = blank
  BY <1>1, <1>2 DEF blank
<1>6. \A e \in Docs : current[e] # 0 =>
         active'[current[e]] = IF e = d THEN {} ELSE active[current[e]]
  BY <1>1, <1>3 DEF RowInv
<1>7. served' = [served EXCEPT ![d] = 0]
  BY <1>1, <1>2, <1>6 DEF served
<1>8. Served!Withdraw(d)
  BY <1>1, <1>4, <1>5, <1>7 DEF Served!Withdraw
<1> QED
  BY <1>2, <1>8 DEF AbstractStep, Served!Next

\* A writer's commit restores a document it has found retired, or just adds to what
\* is stored; neither changes what is served.
LEMMA CreateServed ==
  ASSUME IInv, ServeInv, NEW i \in Writers, CreateDocumentVersion(i)
  PROVE  AbstractStep
<1> DEFINE d == my[i].doc
           v == my[i].ver
<1>1. /\ pc[i] = "store"
      /\ retired' = [retired EXCEPT ![d] = @ /\ ~my[i].revived]
      /\ vbody' = [vbody EXCEPT ![v] = my[i].body]
      /\ job' = [job EXCEPT ![v] = "pending"]
      /\ UNCHANGED <<current, active>>
  BY DEF CreateDocumentVersion
<1>2. v \in Versions /\ job[v] = "none" /\ d \in Docs /\ TypeOK
  BY <1>1 DEF IInv, WriterInv
<1> HIDE DEF d, v
<1>3. served' = served
  BY <1>1 DEF served
<1>4. spent' = spent /\ v \notin spent
  BY <1>1, <1>2 DEF spent, Finished, TypeOK
<1>5. blank \subseteq blank' /\ blank' \ blank \subseteq {v}
  BY <1>1, <1>2 DEF blank, TypeOK
<1>6. Served!Take
  BY <1>4, <1>5 DEF Served!Take
<1>7. CASE retired[d] /\ my[i].revived
  <2>1. Served!Restore(d)
    BY <1>1, <1>2, <1>3, <1>4, <1>6, <1>7 DEF Served!Restore, TypeOK
  <2> QED
    BY <1>2, <2>1 DEF AbstractStep, Served!Next
<1>8. CASE ~(retired[d] /\ my[i].revived)
  <2>1. retired[d] \in BOOLEAN /\ retired \in [Docs -> BOOLEAN]
    BY <1>2 DEF TypeOK
  <2>2. retired' = retired
    BY <1>1, <1>2, <1>8, <2>1
  <2>3. Served!Store
    BY <1>3, <1>4, <1>6, <2>2 DEF Served!Store
  <2> QED
    BY <2>3 DEF AbstractStep, Served!Next
<1> QED
  BY <1>7, <1>8

\* With one model, the index tables and their transactions implement the index that
\* searchers were promised.
THEOREM IndexIsServed == OneModel => (Spec => ImplementsServedIndex)
<1> SUFFICES ASSUME OneModel PROVE Spec => ImplementsServedIndex
  OBVIOUS
<1>1. IInv /\ ServeInv /\ [Next]_vars => AbstractStep
  BY StepKinds, StutterServed, CompleteServed, FailServed, HideServed, CreateServed
<1>2. IInv /\ ServeInv /\ [Next]_vars => [Served!Next]_<<served, retired, blank, spent>>
  BY <1>1 DEF AbstractStep
<1> QED
  BY <1>2, InitServed, Inductive, ServeAlways, PTL DEF Spec, ImplementsServedIndex, Served!Spec

-----------------------------------------------------------------------------
(***************************************************************************)
(* PageSync: the page around the tables.                                   *)
(***************************************************************************)

Got == [doc: Docs, body: Bodies, time: 0..MaxChanges]

FrontTyped ==
  /\ wiki \in [Docs -> Page] /\ changes \in 0..MaxChanges /\ removals \subseteq Docs
  /\ stamp \in [Docs -> 0..MaxChanges]
  /\ got \in [Writers -> Got \cup {Nobody}]
  /\ overlap \subseteq Writers /\ mixed \subseteq Docs

\* A text that page d had at that time, and still has if no later edit is known.
Genuine(d, body, time) ==
  time <= wiki[d].time /\ (time = wiki[d].time => body = wiki[d].body)

\* updatedAt stands for the body, of what is fetched and of what is recorded.
TimeInv ==
  /\ \A d \in Docs : wiki[d].time <= changes
  /\ \A d \in Docs : source[d] # NoBody => Genuine(d, source[d], stamp[d])
  /\ \A i \in Writers : got[i] # Nobody => Genuine(got[i].doc, got[i].body, got[i].time)

\* An ingest stores what was fetched for it.
WriteInv ==
  \A i \in Writers : pc[i] # "idle" =>
    /\ got[i] # Nobody /\ my[i].doc = got[i].doc /\ my[i].body = got[i].body /\ my[i].sync
    /\ pc[i] = "skip" => my[i].same

\* An ingest that has met no other of its page has the latest version of the page,
\* and what it has read of the source row is still so.
AloneInv ==
  \A i \in Writers : pc[i] # "idle" /\ i \notin overlap =>
    /\ \A v \in JobsOf(my[i].doc) : v < my[i].ver
    /\ \A j \in Writers \ {i} : pc[j] # "idle" => my[j].doc # my[i].doc
    /\ my[i].same => source[my[i].doc] = my[i].body

\* The newest version has been indexed, and with it the page is done.
Settled(d, m) ==
  /\ PendingOf(d) = {} /\ current[d] = m
  /\ \/ retired[d]
     \/ active[m] = Content[vbody[m]] /\ \A v \in JobsOf(d) \ {m} : active[v] = {}

\* The newest version m of page d has the body that the source row has, and it is the
\* last to be indexed: whoever indexes it has found every older job done or locked by
\* a removal.
Newest(d, m) ==
  /\ m \in JobsOf(d) /\ \A v \in JobsOf(d) : v <= m
  /\ vbody[m] = source[d]
  /\ job[m] = "cancelled" => retired[d]
  /\ job[m] = "succeeded" => Settled(d, m)
  /\ \A w \in Workers, v \in PendingOf(d) \ {m} :
       Indexing(w) /\ my[w].ver = m => \E r \in Retirers : v \in my[r].seen

NewestInv ==
  \A d \in Docs \ mixed : source[d] # NoBody => \E m \in Versions : Newest(d, m)

FrontInv == FrontTyped /\ TimeInv /\ WriteInv /\ AloneInv

PageInv == IInv /\ ServeInv /\ FrontInv /\ NewestInv

LEMMA InitPage == PageInit => PageInv
<1> SUFFICES ASSUME PageInit PROVE PageInv
  OBVIOUS
<1>1. IInv /\ ServeInv
  BY InitInv, InitServe DEF PageInit
<1>2. FrontTyped
  BY PageAssumption DEF PageInit, FrontTyped, Page
<1>3. /\ \A d \in Docs : source[d] = NoBody /\ wiki[d].time = 0
      /\ \A i \in Writers : pc[i] = "idle" /\ got[i] = Nobody
  BY DEF PageInit, Init, Txns
<1>4. TimeInv /\ WriteInv /\ AloneInv /\ NewestInv
  BY <1>3 DEF TimeInv, WriteInv, AloneInv, NewestInv, PageInit
<1> QED
  BY <1>1, <1>2, <1>4 DEF PageInv, FrontInv

-----------------------------------------------------------------------------
(***************************************************************************)
(* What the steps do.                                                      *)
(***************************************************************************)

Elsewhere ==
  /\ UNCHANGED <<wiki, changes, stamp, got, overlap, mixed>> /\ removals' \subseteq removals
  /\ \/ \E w \in Workers : WorkerStep(w) \/ MarkJobFailed(w) \/ RestartWorker(w)
     \/ \E r \in Retirers : RetireStep(r) \/ \E d \in Docs : RetireDocument(r, d)

WikiStep ==
  \E d \in Docs : \/ \E b \in Bodies : Edit(d, b)
                  \/ Remove(d) \/ Publish(d) \/ LoseRemoval(d)

LEMMA PageSteps ==
  ASSUME [PageNext]_allVars
  PROVE  \/ UNCHANGED allVars \/ WikiStep \/ Elsewhere
         \/ \E i \in Writers : \/ \E d \in Docs : Fetch(i, d)
                               \/ BeginIngest(i) \/ IngestStep(i) \/ CommitIngest(i)
         \/ \E t \in Txns : RollbackFront(t)
<1>1. CASE \E w \in Workers : Index(w) \/ FailJob(w) \/ Restart(w)
  BY <1>1 DEF Elsewhere, Index, FailJob, Restart, front
<1>2. CASE \E r \in Retirers : \/ FinishRetiring(r)
                               \/ \E d \in Docs : RetireForEvent(r, d) \/ Prune(r, d)
  BY <1>2 DEF Elsewhere, FinishRetiring, RetireForEvent, Prune, front
<1> QED
  BY <1>1, <1>2 DEF PageNext, WikiStep, Ingest

\* Whatever happens to a page is a step of IndexJobs, or none.
LEMMA PageIsIndex ==
  ASSUME FrontTyped, [PageNext]_allVars
  PROVE  [Next]_vars
<1>1. CASE UNCHANGED allVars \/ WikiStep \/ \E i \in Writers, d \in Docs : Fetch(i, d)
  BY <1>1 DEF allVars, WikiStep, Edit, Remove, Publish, LoseRemoval, Change, Fetch
<1>2. CASE Elsewhere
  BY <1>2 DEF Elsewhere, Next
<1>3. ASSUME NEW i \in Writers, BeginIngest(i)
      PROVE  Next
  <2>1. got[i].doc \in Docs /\ got[i].body \in Bodies /\ IngestDocument(i, got[i].doc, got[i].body, FALSE)
    BY <1>3 DEF BeginIngest, FrontTyped, Got
  <2> QED
    BY <2>1 DEF Next
<1>4. ASSUME NEW i \in Writers, IngestStep(i) \/ CommitIngest(i)
      PROVE  Next
  BY <1>4 DEF IngestStep, CommitIngest, Next, WriteStep
<1>5. ASSUME NEW t \in Txns, RollbackFront(t)
      PROVE  Next
  BY <1>5 DEF RollbackFront, Next
<1> QED
  BY <1>1, <1>2, <1>3, <1>4, <1>5, PageSteps

-----------------------------------------------------------------------------
(***************************************************************************)
(* The wiki, the fetches and the ingests.                                  *)
(***************************************************************************)

LEMMA WikiFront ==
  ASSUME PageInv, WikiStep
  PROVE  FrontInv'
<1>1. /\ UNCHANGED <<vars, stamp, got, overlap, mixed>>
      /\ removals' \subseteq Docs
      /\ changes' \in 0..MaxChanges
      /\ wiki' \in [Docs -> Page]
      /\ \A d \in Docs : \/ wiki'[d].time = changes'
                         \/ wiki'[d].time = wiki[d].time /\ wiki'[d].body = wiki[d].body
      /\ changes' = changes + 1 \/ (changes' = changes /\ wiki' = wiki)
  <2>1. FrontTyped
    BY DEF PageInv, FrontInv
  <2>2. PICK d \in Docs : (\E b \in Bodies : Edit(d, b)) \/ Remove(d) \/ Publish(d) \/ LoseRemoval(d)
    BY DEF WikiStep
  <2>3. CASE LoseRemoval(d)
    BY <2>1, <2>3 DEF LoseRemoval, FrontTyped
  <2>4. ASSUME NEW page \in Page, Change(d, page), removals' \subseteq Docs,
               page.time = changes + 1 \/ (page.time = wiki[d].time /\ page.body = wiki[d].body)
        PROVE  <1>1!:
    BY <2>1, <2>4, PageAssumption DEF Change, FrontTyped
  <2>5. /\ wiki[d] \in Page
        /\ changes < MaxChanges => changes + 1 \in 0..MaxChanges
        /\ removals \subseteq Docs
    BY <2>1, PageAssumption DEF FrontTyped
  <2>6. CASE Remove(d) \/ Publish(d)
    <3>1. /\ [wiki[d] EXCEPT !.listed = FALSE] \in Page /\ [wiki[d] EXCEPT !.listed = TRUE] \in Page
      BY <2>5 DEF Page
    <3>4. removals' \subseteq Docs
      BY <2>5, <2>6 DEF Remove, Publish
    <3>2. PICK listed \in BOOLEAN : Change(d, [wiki[d] EXCEPT !.listed = listed])
      BY <2>6 DEF Remove, Publish
    <3>3. /\ [wiki[d] EXCEPT !.listed = listed].time = wiki[d].time
          /\ [wiki[d] EXCEPT !.listed = listed].body = wiki[d].body
      BY <2>5 DEF Page
    <3> QED
      BY <2>4, <3>1, <3>2, <3>3, <3>4
  <2>7. ASSUME NEW b \in Bodies, Edit(d, b) PROVE <1>1!:
    <3> DEFINE page == [body |-> b, time |-> changes + 1, listed |-> TRUE]
    <3>1. changes + 1 \in 0..MaxChanges
      BY <2>5, <2>7 DEF Edit, Change
    <3>2. page \in Page /\ page.time = changes + 1
      BY <3>1 DEF Page
    <3>3. Change(d, page) /\ removals' \subseteq Docs
      BY <2>5, <2>7 DEF Edit
    <3> HIDE DEF page
    <3> QED
      BY <2>4, <3>2, <3>3
  <2> QED
    BY <2>2, <2>3, <2>6, <2>7
<1>2. FrontTyped /\ TimeInv
  BY DEF PageInv, FrontInv
<1>3. FrontTyped'
  BY <1>1, <1>2 DEF FrontTyped
<1>4. \A d \in Docs : wiki[d].time \in Nat /\ wiki'[d].time \in Nat /\ wiki'[d].time <= changes'
                      /\ wiki[d].time <= changes
  BY <1>1, <1>2, <1>3, PageAssumption DEF FrontTyped, Page, TimeInv
<1>5. \A d \in Docs, body \in Bodies, time \in 0..MaxChanges :
        Genuine(d, body, time) => Genuine(d, body, time)'
  BY <1>1, <1>2, <1>4, PageAssumption DEF Genuine, FrontTyped
<1>6. TimeInv'
  <2>1. \A d \in Docs : source[d] # NoBody => Genuine(d, source[d], stamp[d])'
    <3>1. \A d \in Docs : stamp[d] \in 0..MaxChanges /\ source[d] \in Bodies \cup {NoBody}
      BY <1>2 DEF FrontTyped, PageInv, IInv, TypeOK
    <3> QED
      BY <1>1, <1>2, <1>5, <3>1 DEF TimeInv, vars, tables
  <2>2. \A i \in Writers : got[i] # Nobody => Genuine(got[i].doc, got[i].body, got[i].time)'
    <3>1. \A i \in Writers : got[i] # Nobody =>
             got[i].doc \in Docs /\ got[i].body \in Bodies /\ got[i].time \in 0..MaxChanges
      BY <1>2 DEF FrontTyped, Got
    <3> QED
      BY <1>1, <1>2, <1>5, <3>1 DEF TimeInv
  <2> QED
    BY <1>1, <1>4, <2>1, <2>2 DEF TimeInv, Genuine, vars, tables
<1>7. WriteInv' /\ AloneInv'
  BY <1>1 DEF PageInv, FrontInv, WriteInv, AloneInv, JobsOf, vars, tables
<1> QED
  BY <1>3, <1>6, <1>7 DEF FrontInv

LEMMA FetchFront ==
  ASSUME PageInv, NEW i \in Writers, NEW d \in Docs, Fetch(i, d)
  PROVE  FrontInv'
<1>1. /\ UNCHANGED <<vars, wiki, changes, removals, stamp, overlap, mixed>>
      /\ pc[i] = "idle"
      /\ got' = [got EXCEPT ![i] = [doc |-> d, body |-> wiki[d].body, time |-> wiki[d].time]]
  BY DEF Fetch
<1>2. FrontTyped /\ TimeInv /\ WriteInv /\ AloneInv
  BY DEF PageInv, FrontInv
<1>3. FrontTyped'
  BY <1>1, <1>2 DEF FrontTyped, Page, Got
<1>4. TimeInv'
  BY <1>1, <1>2, PageAssumption DEF TimeInv, Genuine, FrontTyped, Page, vars, tables
<1>5. WriteInv' /\ AloneInv'
  BY <1>1, <1>2 DEF WriteInv, AloneInv, FrontTyped, JobsOf, vars, tables
<1> QED
  BY <1>3, <1>4, <1>5 DEF FrontInv

LEMMA BeginFront ==
  ASSUME PageInv, NEW i \in Writers, BeginIngest(i)
  PROVE  FrontInv'
<1> DEFINE d == got[i].doc
           b == got[i].body
<1>1. /\ got[i] # Nobody /\ pc[i] = "idle" /\ next \in Versions
      /\ my' = [my EXCEPT ![i] = [Nothing EXCEPT !.doc = d, !.ver = next, !.body = b,
                                    !.sync = TRUE, !.same = source[d] = b /\ ~FALSE]]
      /\ pc' = [pc EXCEPT ![i] = "ingest"]
      /\ overlap' = IF Others(i) = {} THEN overlap ELSE overlap \cup {i} \cup Others(i)
      /\ UNCHANGED <<tables, wiki, changes, removals, stamp, got, mixed>>
  BY DEF BeginIngest, IngestDocument, Goto, PageInv, IInv, TypeOK, Versions
<1>2. FrontTyped /\ TimeInv /\ WriteInv /\ AloneInv /\ TypeOK /\ i \in Txns
  BY DEF PageInv, FrontInv, IInv, Txns
<1>3. d \in Docs /\ b \in Bodies
  BY <1>1, <1>2 DEF FrontTyped, Got
<1>4. /\ my'[i].doc = d /\ my'[i].ver = next /\ my'[i].body = b /\ my'[i].sync
      /\ my'[i].same => source[d] = b
      /\ pc'[i] = "ingest"
      /\ \A k \in Writers \ {i} : my'[k] = my[k] /\ pc'[k] = pc[k]
  BY <1>1, <1>2 DEF TypeOK, Nothing, Txns
<1>5. Others(i) = {j \in Writers \ {i} : my[j].doc = d}
  BY DEF Others
<1>6. FrontTyped'
  BY <1>1, <1>2, <1>5 DEF FrontTyped
<1>7. TimeInv'
  BY <1>1, <1>2 DEF TimeInv, Genuine, tables
<1>8. WriteInv'
  BY <1>1, <1>2, <1>4 DEF WriteInv
<1>9. \A v \in JobsOf(d) : v < next
  BY <1>3, NullAssumption DEF JobsOf, PageInv, IInv, VersionInv
<1> HIDE DEF d, b
<1>10. AloneInv'
  <2> SUFFICES ASSUME NEW k \in Writers, pc'[k] # "idle", k \notin overlap'
               PROVE  /\ \A v \in JobsOf(my[k].doc)' : v < my'[k].ver
                      /\ \A j \in Writers \ {k} : pc'[j] # "idle" => my'[j].doc # my'[k].doc
                      /\ my'[k].same => source'[my'[k].doc] = my'[k].body
    BY DEF AloneInv
  <2>1. k \notin overlap
    BY <1>1
  <2>2. CASE k = i
    <3>1. Others(i) = {}
      BY <1>1, <2>2
    <3>2. JobsOf(my[i].doc)' = JobsOf(d)
      BY <1>1, <1>4 DEF JobsOf, tables
    <3> QED
      BY <1>1, <1>4, <1>5, <1>9, <2>2, <3>1, <3>2 DEF tables
  <2>3. CASE k # i
    <3>1. my[k].doc # d
      BY <1>1, <1>5, <2>3
    <3>2. my'[k] = my[k] /\ pc[k] # "idle" /\ JobsOf(my[k].doc)' = JobsOf(my[k].doc)
      BY <1>1, <1>4, <2>3 DEF JobsOf, tables
    <3> QED
      BY <1>1, <1>2, <1>4, <2>1, <2>3, <3>1, <3>2 DEF AloneInv, tables
  <2> QED
    BY <2>2, <2>3
<1> QED
  BY <1>6, <1>7, <1>8, <1>10 DEF FrontInv

LEMMA IngestFront ==
  ASSUME PageInv, NEW i \in Writers, IngestStep(i)
  PROVE  FrontInv'
<1>1. /\ UNCHANGED <<tables, wiki, changes, removals, stamp, got, overlap, mixed>>
      /\ pc[i] # "idle"
      /\ \A k \in Writers \ {i} : my'[k] = my[k] /\ pc'[k] = pc[k]
      /\ my'[i].doc = my[i].doc /\ my'[i].ver = my[i].ver /\ my'[i].body = my[i].body
      /\ my'[i].sync = my[i].sync /\ my'[i].same = my[i].same
      /\ pc'[i] = "skip" => my[i].same
  <2>1. TypeOK /\ i \in Txns
    BY DEF PageInv, IInv, Txns
  <2>2. CASE ReadRetired(i)
    BY <2>1, <2>2 DEF IngestStep, ReadRetired, Goto, TypeOK, Txns, front
  <2>3. CASE ReactivateDocument(i)
    BY <2>1, <2>3 DEF IngestStep, ReactivateDocument, Goto, TypeOK, Txns, Private, front
  <2> QED
    BY <2>2, <2>3 DEF IngestStep, front
<1>2. FrontTyped /\ TimeInv /\ WriteInv /\ AloneInv
  BY DEF PageInv, FrontInv
<1>3. FrontTyped' /\ TimeInv'
  BY <1>1, <1>2 DEF FrontTyped, TimeInv, Genuine, tables
<1>4. WriteInv'
  BY <1>1, <1>2 DEF WriteInv
<1>5. \A k \in Writers : my'[k].doc = my[k].doc /\ my'[k].ver = my[k].ver /\ my'[k].body = my[k].body
                         /\ my'[k].same = my[k].same /\ (pc'[k] # "idle" => pc[k] # "idle")
  BY <1>1
<1>6. AloneInv'
  BY <1>1, <1>2, <1>5 DEF AloneInv, JobsOf, tables
<1> QED
  BY <1>3, <1>4, <1>6 DEF FrontInv

\* What both ways to commit have in common.
LEMMA CommitEffect ==
  ASSUME PageInv, NEW i \in Writers, CommitIngest(i)
  PROVE  LET d == my[i].doc
         IN /\ pc[i] # "idle" /\ d \in Docs /\ my[i].body \in Bodies /\ my[i].body # NoBody
            /\ got[i] # Nobody /\ got[i] \in Got /\ got[i].doc = d /\ got[i].body = my[i].body
            /\ source' = [source EXCEPT ![d] = my[i].body]
            /\ stamp' = [stamp EXCEPT ![d] = got[i].time]
            /\ got' = [got EXCEPT ![i] = Nobody] /\ overlap' = overlap \ {i}
            /\ i \in overlap => mixed' = mixed \cup {d}
            /\ i \notin overlap /\ CreateDocumentVersion(i) => mixed' = mixed \ {d}
            /\ i \notin overlap /\ SkipUnchanged(i) => mixed' = mixed
            /\ UNCHANGED <<wiki, changes, removals>>
            /\ pc' = [pc EXCEPT ![i] = "idle"] /\ my' = [my EXCEPT ![i] = Nothing]
<1>1. pc[i] \in {"skip", "store"} /\ pc[i] # "idle"
  BY DEF CommitIngest, SkipUnchanged, CreateDocumentVersion
<1>2. /\ my[i].doc \in Docs /\ my[i].body \in Bodies /\ my[i].body # NoBody /\ my[i].sync
      /\ got[i] # Nobody /\ got[i].doc = my[i].doc /\ got[i].body = my[i].body
      /\ got[i] \in Got
  BY <1>1, NullAssumption DEF PageInv, IInv, WriterInv, FrontInv, WriteInv, FrontTyped
<1>3. CASE SkipUnchanged(i)
  BY <1>1, <1>2, <1>3 DEF CommitIngest, SkipUnchanged, CreateDocumentVersion, End, Goto
<1>4. CASE CreateDocumentVersion(i)
  BY <1>1, <1>2, <1>4 DEF CommitIngest, SkipUnchanged, CreateDocumentVersion, End, Goto
<1> QED
  BY <1>3, <1>4 DEF CommitIngest

LEMMA CommitFront ==
  ASSUME PageInv, NEW i \in Writers, CommitIngest(i)
  PROVE  FrontInv'
<1> DEFINE d == my[i].doc
<1>1. /\ pc[i] # "idle" /\ d \in Docs /\ my[i].body \in Bodies /\ my[i].body # NoBody
      /\ got[i] # Nobody /\ got[i] \in Got /\ got[i].doc = d /\ got[i].body = my[i].body
      /\ source' = [source EXCEPT ![d] = my[i].body]
      /\ stamp' = [stamp EXCEPT ![d] = got[i].time]
      /\ got' = [got EXCEPT ![i] = Nobody] /\ overlap' = overlap \ {i}
      /\ UNCHANGED <<wiki, changes, removals>>
      /\ pc' = [pc EXCEPT ![i] = "idle"] /\ my' = [my EXCEPT ![i] = Nothing]
  BY CommitEffect
<1>2. mixed' \subseteq mixed \cup {d}
  BY CommitEffect DEF CommitIngest
<1>3. FrontTyped /\ TimeInv /\ WriteInv /\ AloneInv /\ TypeOK /\ i \in Txns
  BY DEF PageInv, FrontInv, IInv, Txns
<1>4. \A k \in Writers \ {i} : my'[k] = my[k] /\ pc'[k] = pc[k] /\ got'[k] = got[k]
  BY <1>1, <1>3 DEF TypeOK, FrontTyped, Txns
<1>5. pc'[i] = "idle" /\ got'[i] = Nobody
  BY <1>1, <1>3 DEF TypeOK, FrontTyped
<1>6. /\ \A v \in Versions : vdoc'[v] = vdoc[v] \/ (v = my[i].ver /\ vdoc'[v] = d)
      /\ vdoc[my[i].ver] = NoDoc
  <2>1. vdoc \in [Versions -> Docs \cup {NoDoc}] /\ my[i].ver \in Versions
        /\ vdoc[my[i].ver] = NoDoc
    BY <1>1, <1>3 DEF TypeOK, PageInv, IInv, WriterInv, VersionInv
  <2>2. vdoc' = vdoc \/ vdoc' = [vdoc EXCEPT ![my[i].ver] = d]
    BY DEF CommitIngest, SkipUnchanged, CreateDocumentVersion
  <2> QED
    BY <2>1, <2>2
<1> HIDE DEF d
<1>7. FrontTyped'
  BY <1>1, <1>2, <1>3 DEF FrontTyped, Got
<1>8. TimeInv'
  <2>1. \A e \in Docs \ {d} : source'[e] = source[e] /\ stamp'[e] = stamp[e]
    BY <1>1, <1>3 DEF TypeOK, FrontTyped
  <2>2. source'[d] = my[i].body /\ stamp'[d] = got[i].time
    BY <1>1, <1>3 DEF TypeOK, FrontTyped
  <2>3. Genuine(d, my[i].body, got[i].time)
    BY <1>1, <1>3 DEF TimeInv
  <2>4. \A e \in Docs : source'[e] # NoBody => Genuine(e, source'[e], stamp'[e])
    BY <1>3, <2>1, <2>2, <2>3 DEF TimeInv
  <2> QED
    BY <1>1, <1>3, <1>4, <1>5, <2>4 DEF TimeInv, Genuine
<1>9. WriteInv'
  BY <1>3, <1>4, <1>5 DEF WriteInv
<1>10. AloneInv'
  <2> SUFFICES ASSUME NEW k \in Writers, pc'[k] # "idle", k \notin overlap'
               PROVE  /\ \A v \in JobsOf(my[k].doc)' : v < my'[k].ver
                      /\ \A j \in Writers \ {k} : pc'[j] # "idle" => my'[j].doc # my'[k].doc
                      /\ my'[k].same => source'[my'[k].doc] = my'[k].body
    BY DEF AloneInv
  <2>1. k # i /\ k \notin overlap /\ my'[k] = my[k] /\ pc[k] # "idle"
    BY <1>1, <1>4, <1>5
  <2>2. my[k].doc # d
    BY <1>1, <1>3, <2>1 DEF AloneInv, d
  <2>3. JobsOf(my[k].doc)' = JobsOf(my[k].doc)
    <3>1. my[k].doc # NoDoc
      BY <2>1, NullAssumption DEF PageInv, IInv, WriterInv
    <3> QED
      BY <1>6, <2>1, <2>2, <3>1 DEF JobsOf
  <2>4. my[k].doc \in Docs /\ source'[my[k].doc] = source[my[k].doc]
    BY <1>1, <1>3, <2>1, <2>2 DEF TypeOK, PageInv, IInv, WriterInv
  <2> QED
    BY <1>3, <1>4, <1>5, <2>1, <2>3, <2>4 DEF AloneInv
<1> QED
  BY <1>7, <1>8, <1>9, <1>10 DEF FrontInv

-----------------------------------------------------------------------------
(***************************************************************************)
(* The workers, the removals and the rollbacks.                            *)
(***************************************************************************)

LEMMA ElsewhereFront ==
  ASSUME PageInv, Elsewhere
  PROVE  FrontInv'
<1>1. TypeOK /\ FrontTyped /\ TimeInv /\ WriteInv /\ AloneInv
  BY DEF PageInv, FrontInv, IInv
<1>2. UNCHANGED <<source, vdoc>> /\ \E t \in Workers \cup Retirers : Alone(t)
  <2>1. CASE \E w \in Workers : WorkerStep(w) \/ MarkJobFailed(w) \/ RestartWorker(w)
    <3>1. UNCHANGED <<source, vdoc>>
      BY <2>1 DEF tables, WorkerStep, RestartWorker, ResolveEmbeddingModel, ClaimNextJob, FindNoJob,
         InsertChunk, StartCompleting, UpdateChunks, CompleteIndexing, MarkJobFailed
    <3> QED
      BY <1>1, <2>1, <3>1, WorkerAlone
  <2>2. CASE \E r \in Retirers : RetireStep(r) \/ \E d \in Docs : RetireDocument(r, d)
    <3>1. UNCHANGED <<source, vdoc>>
      BY <2>2 DEF tables, RetireStep, RetireDocument, CancelJob, CancelledAllJobs, HideChunks
    <3> QED
      BY <1>1, <2>2, <3>1, RetirerAlone
  <2> QED
    BY <2>1, <2>2 DEF Elsewhere
<1>3. \A i \in Writers : pc'[i] = pc[i] /\ my'[i] = my[i]
  BY <1>2, TxnAssumption DEF Alone, Txns
<1>4. UNCHANGED <<wiki, changes, stamp, got, overlap, mixed>> /\ removals' \subseteq removals
  BY DEF Elsewhere
<1>5. FrontTyped' /\ TimeInv'
  BY <1>1, <1>2, <1>4 DEF FrontTyped, TimeInv, Genuine
<1>6. WriteInv' /\ AloneInv'
  BY <1>1, <1>2, <1>3, <1>4 DEF WriteInv, AloneInv, JobsOf
<1> QED
  BY <1>5, <1>6 DEF FrontInv

LEMMA RollbackFrontInv ==
  ASSUME PageInv, NEW t \in Txns, RollbackFront(t)
  PROVE  FrontInv'
<1>1. TypeOK /\ FrontTyped /\ TimeInv /\ WriteInv /\ AloneInv
  BY DEF PageInv, FrontInv, IInv
<1>2. /\ End(t, IF t \in Workers THEN "dead" ELSE "idle") /\ UNCHANGED tables
      /\ got' = [i \in Writers |-> IF i = t THEN Nobody ELSE got[i]]
      /\ overlap' = overlap \ {t}
      /\ UNCHANGED <<wiki, changes, removals, stamp>>
  BY DEF RollbackFront, AbortDeadlocked, Crash, Rollback
<1>3. \A i \in Writers : IF i = t THEN pc'[i] = "idle" /\ got'[i] = Nobody
                         ELSE pc'[i] = pc[i] /\ my'[i] = my[i] /\ got'[i] = got[i]
  BY <1>1, <1>2, TxnAssumption DEF End, Goto, TypeOK, Txns
<1>4. mixed' \subseteq Docs
  <2>1. ASSUME t \in Retirers, HeldBack(t) PROVE my[t].doc \in Docs
    <3>1. my[t].seen # {}
      BY <2>1 DEF HeldBack
    <3> QED
      BY <2>1, <3>1 DEF PageInv, IInv, PcInv, RetirerInv
  <2> QED
    BY <1>1, <2>1 DEF RollbackFront, FrontTyped
<1>5. FrontTyped'
  BY <1>1, <1>2, <1>4 DEF FrontTyped
<1>6. TimeInv'
  BY <1>1, <1>2, <1>3 DEF TimeInv, Genuine, tables
<1>7. WriteInv'
  BY <1>1, <1>3 DEF WriteInv
<1>8. AloneInv'
  BY <1>1, <1>2, <1>3 DEF AloneInv, JobsOf, tables
<1> QED
  BY <1>5, <1>6, <1>7, <1>8 DEF FrontInv

-----------------------------------------------------------------------------
(***************************************************************************)
(* The newest version of a page.                                           *)
(***************************************************************************)

\* A page that a step does not touch: whoever indexes its newest version did so
\* before, and the removals that hold its jobs still do.
Untouched(d) ==
  /\ \A v \in Versions : vdoc'[v] = d <=> vdoc[v] = d
  /\ \A v \in JobsOf(d) : vbody'[v] = vbody[v] /\ job'[v] = job[v] /\ active'[v] = active[v]
  /\ source'[d] = source[d] /\ current'[d] = current[d] /\ retired'[d] = retired[d]

KeepsHolding(d, m) ==
  \A w \in Workers : Indexing(w)' /\ my'[w].ver = m =>
    /\ Indexing(w) /\ my[w].ver = m
    /\ \A r \in Retirers, v \in PendingOf(d) \ {m} : v \in my[r].seen => v \in my'[r].seen

LEMMA NewestKept ==
  ASSUME NEW d \in Docs, NEW m \in Versions, Newest(d, m), Untouched(d), KeepsHolding(d, m)
  PROVE  Newest(d, m)'
<1>1. JobsOf(d)' = JobsOf(d)
  BY DEF JobsOf, Untouched
<1>2. PendingOf(d)' = PendingOf(d)
  BY <1>1 DEF PendingOf, Untouched
<1>3. m \in JobsOf(d)
  BY DEF Newest
<1>4. Settled(d, m) => Settled(d, m)'
  BY <1>1, <1>2, <1>3 DEF Settled, Untouched
<1>5. \A w \in Workers, v \in PendingOf(d)' \ {m} :
        Indexing(w)' /\ my'[w].ver = m => \E r \in Retirers : v \in my'[r].seen
  BY <1>2 DEF KeepsHolding, Newest
<1> QED
  BY <1>1, <1>3, <1>4, <1>5 DEF Newest, Untouched

\* Nothing of the tables changes, and no worker begins with a job.
LEMMA NewestSame ==
  ASSUME NewestInv, UNCHANGED <<content, source>>, mixed \subseteq mixed',
         \A w \in Workers : Indexing(w)' => Indexing(w) /\ my'[w].ver = my[w].ver,
         \A r \in Retirers : my[r].seen \subseteq my'[r].seen
  PROVE  NewestInv'
<1> SUFFICES ASSUME NEW d \in Docs \ mixed', source'[d] # NoBody
             PROVE  \E m \in Versions : Newest(d, m)'
  BY DEF NewestInv
<1>1. PICK m \in Versions : Newest(d, m)
  BY DEF NewestInv
<1>2. Untouched(d)
  BY DEF Untouched, content
<1>3. KeepsHolding(d, m)
  BY DEF KeepsHolding
<1> QED
  BY <1>1, <1>2, <1>3, NewestKept

\* The claim takes the oldest job that is free: older ones of the page are locked,
\* and since workers take turns, by a removal.
LEMMA ClaimNewest ==
  ASSUME PageInv, NEW w \in Workers, ClaimNextJob(w), UNCHANGED mixed
  PROVE  NewestInv'
<1> SUFFICES ASSUME NEW d \in Docs \ mixed, source[d] # NoBody
             PROVE  \E m \in Versions : Newest(d, m)'
  BY DEF NewestInv, ClaimNextJob, tables
<1>1. PICK m \in Versions : Newest(d, m)
  BY DEF PageInv, NewestInv
<1>2. UNCHANGED tables /\ pc[w] = "claim" /\ TypeOK /\ w \in Txns /\ Alone(w)
  BY WorkerAlone DEF ClaimNextJob, PageInv, IInv, Txns, WorkerStep
<1>3. PICK c \in Claimable : (\A u \in Claimable : c <= u) /\ my'[w].ver = c
  BY <1>2 DEF ClaimNextJob, TypeOK
<1>4. \A u \in Workers \ {w} : pc'[u] = pc[u] /\ my'[u] = my[u]
  BY <1>2 DEF Alone, Txns
<1>5. \A r \in Retirers : my'[r] = my[r]
  BY <1>2, TxnAssumption DEF Alone, Txns
<1>6. JobsOf(d)' = JobsOf(d) /\ PendingOf(d)' = PendingOf(d)
  BY <1>2 DEF JobsOf, PendingOf, tables
<1>7. ASSUME c = m, NEW v \in PendingOf(d) \ {m}
      PROVE  \E r \in Retirers : v \in my[r].seen
  <2>1. v \in Versions /\ job[v] = "pending" /\ v < m
    BY <1>1, <1>7 DEF PendingOf, JobsOf, Newest, Versions
  <2>2. v \notin Claimable
    BY <1>3, <1>7, <2>1 DEF Versions
  <2>3. PICK t \in Workers \cup Retirers : HoldsJob(t, v)
    BY <2>1, <2>2 DEF Claimable, JobFree
  <2>4. \A u \in Workers : ~Indexing(u)
    BY <1>2 DEF PageInv, ServeInv, TurnInv, Indexing
  <2> QED
    BY <2>3, <2>4 DEF HoldsJob
<1>8. \A u \in Workers, v \in PendingOf(d)' \ {m} :
        Indexing(u)' /\ my'[u].ver = m => \E r \in Retirers : v \in my'[r].seen
  <2> SUFFICES ASSUME NEW u \in Workers, NEW v \in PendingOf(d) \ {m}, Indexing(u)', my'[u].ver = m
               PROVE  \E r \in Retirers : v \in my[r].seen
    BY <1>5, <1>6
  <2>1. CASE u = w
    BY <1>3, <1>7, <2>1
  <2>2. CASE u # w
    BY <1>1, <1>4, <2>2 DEF Newest, Indexing
  <2> QED
    BY <2>1, <2>2
<1>9. Newest(d, m)'
  BY <1>1, <1>2, <1>6, <1>8 DEF Newest, Settled, tables
<1> QED
  BY <1>9

LEMMA WorkNewest ==
  ASSUME PageInv, UNCHANGED mixed, NEW w \in Workers, WorkerStep(w) \/ RestartWorker(w),
         ~CompleteIndexing(w)
  PROVE  NewestInv'
<1>1. TypeOK /\ NewestInv /\ w \in Txns /\ Alone(w)
  BY WorkerAlone DEF PageInv, IInv, Txns
<1>2. CASE ClaimNextJob(w)
  BY <1>2, ClaimNewest
<1>3. CASE ~ClaimNextJob(w)
  <2>1. UNCHANGED tables
    BY <1>3 DEF WorkerStep, RestartWorker, ResolveEmbeddingModel, FindNoJob, InsertChunk,
       StartCompleting, UpdateChunks
  <2>2. Indexing(w)' => Indexing(w) /\ my'[w].ver = my[w].ver
    <3>1. CASE ResolveEmbeddingModel(w) \/ RestartWorker(w) \/ FindNoJob(w)
      BY <1>1, <3>1 DEF ResolveEmbeddingModel, RestartWorker, FindNoJob, End, Goto, TypeOK, Indexing
    <3>2. CASE InsertChunk(w)
      BY <1>1, <3>2 DEF InsertChunk, TypeOK, Indexing
    <3>3. CASE StartCompleting(w)
      BY <1>1, <3>3 DEF StartCompleting, Goto, TypeOK, Indexing
    <3>4. CASE UpdateChunks(w)
      BY <1>1, <3>4 DEF UpdateChunks, Goto, TypeOK, Indexing
    <3> QED
      BY <1>3, <3>1, <3>2, <3>3, <3>4 DEF WorkerStep
  <2>3. \A u \in Workers : Indexing(u)' => Indexing(u) /\ my'[u].ver = my[u].ver
    BY <1>1, <2>2 DEF Alone, Txns, Indexing
  <2>4. \A r \in Retirers : my[r].seen \subseteq my'[r].seen
    BY <1>1, TxnAssumption DEF Alone, Txns
  <2> QED
    BY <1>1, <2>1, <2>3, <2>4, NewestSame DEF content, tables
<1> QED
  BY <1>2, <1>3

\* The job that completes is the newest one only if no other is left: one that had
\* been skipped is locked by a removal, which has the document's row as well.
LEMMA CompleteNewest ==
  ASSUME PageInv, UNCHANGED mixed, NEW w \in Workers, CompleteIndexing(w)
  PROVE  NewestInv'
<1> SUFFICES ASSUME NEW d \in Docs \ mixed, source[d] # NoBody
             PROVE  \E m \in Versions : Newest(d, m)'
  BY DEF NewestInv, CompleteIndexing
<1>1. PICK m \in Versions : Newest(d, m)
  BY DEF PageInv, NewestInv
<1> DEFINE v == my[w].ver
           e == my[w].doc
<1>2. /\ v \in Versions /\ e \in Docs /\ vdoc[v] = e /\ job[v] = "pending"
      /\ job' = [job EXCEPT ![v] = "succeeded"]
      /\ current' = [current EXCEPT ![e] = v]
      /\ active'[v] = IF my[w].show THEN Content[vbody[v]] ELSE {}
      /\ \A u \in Versions \ {v} : active'[u] = IF vdoc[u] = e THEN {} ELSE active[u]
      /\ UNCHANGED <<retired, vdoc, vbody>>
  BY CompleteEffect DEF PageInv
<1>3. /\ pc[w] = "complete" /\ DocFree(w, e) /\ End(w, "idle") /\ UNCHANGED source
      /\ Indexing(w) /\ Completing(w)
  BY DEF CompleteIndexing, Indexing, Completing
<1>4. /\ TypeOK /\ w \in Txns
      /\ ~my[w].show => retired[e] \/ \E u \in PendingOf(e) : u # v
  BY <1>3 DEF PageInv, IInv, ServeInv, CompletingInv, Txns
<1>5. \A u \in Workers : ~Indexing(u)'
  BY <1>3, <1>4 DEF PageInv, ServeInv, TurnInv, Indexing, End, Goto, TypeOK
<1> HIDE DEF v, e
<1>6. CASE d # e
  <2>1. Untouched(d)
    BY <1>2, <1>3, <1>4, <1>6 DEF Untouched, JobsOf, TypeOK
  <2>2. KeepsHolding(d, m)
    BY <1>5 DEF KeepsHolding
  <2> QED
    BY <1>1, <2>1, <2>2, NewestKept
<1>7. CASE d = e
  <2>1. JobsOf(d)' = JobsOf(d) /\ v \in PendingOf(d) /\ m \in JobsOf(d)
    BY <1>1, <1>2, <1>7 DEF JobsOf, PendingOf, Newest
  <2>2. ASSUME v # m
        PROVE  Newest(d, m)'
    <3>1. job[m] # "succeeded" /\ job'[m] = job[m]
      BY <1>1, <1>2, <1>4, <2>1, <2>2 DEF Newest, Settled, TypeOK
    <3> QED
      BY <1>1, <1>2, <1>3, <1>5, <2>1, <3>1 DEF Newest
  <2>3. ASSUME v = m
        PROVE  Newest(d, m)'
    <3>1. ASSUME NEW u \in PendingOf(d), u # m
          PROVE  FALSE
      <4>1. PICK r \in Retirers : u \in my[r].seen
        BY <1>1, <1>3, <2>3, <3>1 DEF Newest, v
      <4>2. pc[r] \in {"cancel", "hide"} /\ vdoc[u] = my[r].doc
        BY <4>1 DEF PageInv, IInv, PcInv, RetirerInv, PendingOf, JobsOf
      <4>3. HoldsDoc(r, e) /\ r \in Txns /\ r # w
        BY <1>7, <3>1, <4>2, TxnAssumption DEF HoldsDoc, PendingOf, JobsOf, Txns
      <4> QED
        BY <1>3, <4>3 DEF DocFree
    <3>2. job'[m] = "succeeded" /\ \A u \in Versions \ {m} : job'[u] = job[u]
      BY <1>2, <1>4, <2>3 DEF TypeOK
    <3>3. PendingOf(d)' = {}
      BY <1>2, <3>1, <3>2 DEF PendingOf, JobsOf
    <3>4. current'[d] = m
      BY <1>2, <1>4, <1>7, <2>3 DEF TypeOK
    <3>5. retired[d] \/ my[w].show
      BY <1>4, <1>7, <2>3, <3>1
    <3>6. retired'[d] \/ (active'[m] = Content[vbody'[m]] /\ \A u \in JobsOf(d) \ {m} : active'[u] = {})
      BY <1>2, <1>7, <2>3, <3>5 DEF JobsOf
    <3>7. Settled(d, m)'
      BY <2>1, <3>3, <3>4, <3>6 DEF Settled
    <3> QED
      BY <1>1, <1>2, <1>3, <1>5, <2>1, <3>2, <3>7 DEF Newest
  <2> QED
    BY <2>2, <2>3
<1> QED
  BY <1>6, <1>7

LEMMA FailNewest ==
  ASSUME PageInv, UNCHANGED mixed, NEW w \in Workers, MarkJobFailed(w)
  PROVE  NewestInv'
<1> SUFFICES ASSUME NEW d \in Docs \ mixed, source[d] # NoBody
             PROVE  \E m \in Versions : Newest(d, m)'
  BY DEF NewestInv, MarkJobFailed
<1>1. PICK m \in Versions : Newest(d, m)
  BY DEF PageInv, NewestInv
<1> DEFINE v == my[w].ver
<1>2. /\ active' = [active EXCEPT ![v] = my[w].wrote]
      /\ job' = [job EXCEPT ![v] = "failed"]
      /\ End(w, "idle") /\ Indexing(w)
      /\ UNCHANGED <<retired, current, source, vdoc, vbody>>
  BY DEF MarkJobFailed, Indexing
<1>3. v \in Versions /\ job[v] = "pending" /\ TypeOK /\ w \in Txns
  BY <1>2, HeldAlone DEF PageInv, IInv, Txns
<1>4. \A u \in Workers : ~Indexing(u)'
  BY <1>2, <1>3 DEF PageInv, ServeInv, TurnInv, Indexing, End, Goto, TypeOK
<1> HIDE DEF v
<1>5. JobsOf(d)' = JobsOf(d) /\ m \in JobsOf(d)
  BY <1>1, <1>2 DEF JobsOf, Newest
<1>6. CASE vdoc[v] # d
  <2>1. Untouched(d)
    BY <1>2, <1>3, <1>6 DEF Untouched, JobsOf, TypeOK
  <2>2. KeepsHolding(d, m)
    BY <1>4 DEF KeepsHolding
  <2> QED
    BY <1>1, <2>1, <2>2, NewestKept
<1>7. CASE vdoc[v] = d
  <2>1. v \in PendingOf(d)
    BY <1>3, <1>7 DEF PendingOf, JobsOf
  <2>2. job'[m] \notin {"succeeded", "cancelled"} \/ (job'[m] = "cancelled" /\ job[m] = "cancelled")
    BY <1>1, <1>2, <1>3, <2>1 DEF Newest, Settled, TypeOK
  <2> QED
    BY <1>1, <1>2, <1>4, <1>5, <2>2 DEF Newest
<1> QED
  BY <1>6, <1>7

\* A removal that commits has all jobs of the page and retires it.
LEMMA HideNewest ==
  ASSUME PageInv, UNCHANGED mixed, NEW r \in Retirers, HideChunks(r)
  PROVE  NewestInv'
<1> SUFFICES ASSUME NEW d \in Docs \ mixed, source[d] # NoBody
             PROVE  \E m \in Versions : Newest(d, m)'
  BY DEF NewestInv, HideChunks
<1>1. PICK m \in Versions : Newest(d, m)
  BY DEF PageInv, NewestInv
<1> DEFINE e == my[r].doc
<1>2. /\ retired' = [retired EXCEPT ![e] = TRUE]
      /\ job' = [v \in Versions |-> IF v \in my[r].seen THEN "cancelled" ELSE job[v]]
      /\ active' = [v \in Versions |-> IF vdoc[v] = e THEN {} ELSE active[v]]
      /\ UNCHANGED <<current, source, vdoc, vbody>>
      /\ pc[r] = "hide" /\ End(r, "idle")
  BY DEF HideChunks
<1>3. e \in Docs /\ my[r].seen = PendingOf(e) /\ TypeOK /\ r \in Txns
  BY <1>2 DEF PageInv, IInv, RetirerInv, Txns
<1>4. /\ \A w \in Workers : pc'[w] = pc[w] /\ my'[w] = my[w]
      /\ \A q \in Retirers \ {r} : my'[q] = my[q]
  BY <1>2, <1>3, EndAlone, TxnAssumption DEF Alone, Txns, Places
<1> HIDE DEF e
<1>5. CASE d # e
  <2>1. Untouched(d)
    BY <1>2, <1>3, <1>5 DEF Untouched, JobsOf, PendingOf, TypeOK
  <2>2. KeepsHolding(d, m)
    BY <1>3, <1>4, <1>5 DEF KeepsHolding, Indexing, JobsOf, PendingOf
  <2> QED
    BY <1>1, <2>1, <2>2, NewestKept
<1>6. CASE d = e
  <2>1. JobsOf(d)' = JobsOf(d) /\ m \in JobsOf(d) /\ retired'[d]
    BY <1>1, <1>2, <1>3, <1>6 DEF JobsOf, Newest, TypeOK
  <2>2. PendingOf(d)' = {}
    BY <1>2, <1>3, <1>6 DEF PendingOf, JobsOf
  <2>3. job'[m] = "succeeded" => current'[d] = m
    BY <1>1, <1>2, <2>1 DEF Newest, Settled
  <2> QED
    BY <1>1, <1>2, <2>1, <2>2, <2>3 DEF Newest, Settled
<1> QED
  BY <1>5, <1>6

LEMMA RetireNewest ==
  ASSUME PageInv, UNCHANGED mixed, NEW r \in Retirers,
         RetireStep(r) \/ \E d \in Docs : RetireDocument(r, d)
  PROVE  NewestInv'
<1>1. TypeOK /\ NewestInv /\ r \in Txns /\ Alone(r)
  BY RetirerAlone DEF PageInv, IInv, Txns
<1>2. CASE HideChunks(r)
  BY <1>2, HideNewest
<1>3. CASE ~HideChunks(r)
  <2>1. UNCHANGED tables
    BY <1>3 DEF RetireStep, RetireDocument, CancelJob, CancelledAllJobs
  <2>2. my[r].seen \subseteq my'[r].seen
    BY <1>1, <1>3 DEF RetireStep, RetireDocument, CancelJob, CancelledAllJobs, TypeOK, Private
  <2>3. \A w \in Workers : pc'[w] = pc[w] /\ my'[w] = my[w]
    BY <1>1, TxnAssumption DEF Alone, Txns
  <2>4. \A q \in Retirers : my[q].seen \subseteq my'[q].seen
    BY <1>1, <2>2 DEF Alone, Txns
  <2> QED
    BY <1>1, <2>1, <2>3, <2>4, NewestSame DEF content, tables, Indexing
<1> QED
  BY <1>2, <1>3

\* A removal that is broken off lets go of its jobs; where the newest version is
\* being indexed meanwhile, that is recorded.
LEMMA RollbackNewest ==
  ASSUME PageInv, NEW t \in Txns, RollbackFront(t)
  PROVE  NewestInv'
<1> SUFFICES ASSUME NEW d \in Docs \ mixed', source[d] # NoBody
             PROVE  \E m \in Versions : Newest(d, m)'
  BY DEF NewestInv, RollbackFront, AbortDeadlocked, Crash, Rollback, tables
<1>1. /\ End(t, IF t \in Workers THEN "dead" ELSE "idle") /\ UNCHANGED tables
      /\ mixed' = IF t \in Retirers /\ HeldBack(t) THEN mixed \cup {my[t].doc} ELSE mixed
  BY DEF RollbackFront, AbortDeadlocked, Crash, Rollback
<1>2. TypeOK
  BY DEF PageInv, IInv
<1>3. \A u \in Txns \ {t} : pc'[u] = pc[u] /\ my'[u] = my[u]
  BY <1>1, <1>2 DEF End, Goto, TypeOK
<1>4. PICK m \in Versions : Newest(d, m)
  BY <1>1 DEF PageInv, NewestInv
<1>5. Untouched(d)
  BY <1>1 DEF Untouched, tables
<1>6. KeepsHolding(d, m)
  <2> SUFFICES ASSUME NEW w \in Workers, Indexing(w)', my'[w].ver = m
               PROVE  /\ Indexing(w) /\ my[w].ver = m
                      /\ \A r \in Retirers, v \in PendingOf(d) \ {m} :
                           v \in my[r].seen => v \in my'[r].seen
    BY DEF KeepsHolding
  <2>1. w # t
    BY <1>1, <1>2 DEF End, Goto, TypeOK, Indexing
  <2>2. Indexing(w) /\ my[w].ver = m
    BY <1>3, <2>1 DEF Txns, Indexing
  <2>3. my[w].doc = d
    BY <1>4, <2>2, HeldAlone DEF PageInv, Newest, JobsOf
  <2>4. ASSUME NEW r \in Retirers, NEW v \in PendingOf(d) \ {m}, v \in my[r].seen
        PROVE  v \in my'[r].seen
    <3>1. my[r].doc = d
      BY <2>4 DEF PageInv, IInv, PcInv, RetirerInv, PendingOf, JobsOf
    <3>2. v < m
      BY <1>4, <2>4 DEF Newest, PendingOf, JobsOf, Versions
    <3>3. r # t
      BY <1>1, <2>2, <2>3, <2>4, <3>1, <3>2 DEF HeldBack
    <3> QED
      BY <1>3, <2>4, <3>3 DEF Txns
  <2> QED
    BY <2>2, <2>4
<1> QED
  BY <1>4, <1>5, <1>6, NewestKept

\* What a writer does before it commits moves nobody else.
LEMMA WriterNewest ==
  ASSUME PageInv, NEW i \in Writers,
         BeginIngest(i) \/ IngestStep(i) \/ \E d \in Docs : Fetch(i, d)
  PROVE  NewestInv'
<1>1. TypeOK /\ NewestInv /\ FrontTyped
  BY DEF PageInv, FrontInv, IInv
<1>2. CASE \E d \in Docs : Fetch(i, d)
  BY <1>1, <1>2, NewestSame DEF Fetch, content, vars, tables, Indexing
<1>3. CASE BeginIngest(i) \/ IngestStep(i)
  <2>1. Alone(i) /\ UNCHANGED <<tables, mixed>>
    <3>1. CASE BeginIngest(i)
      <4>1. IngestDocument(i, got[i].doc, got[i].body, FALSE) /\ got[i].doc \in Docs /\ got[i].body \in Bodies
        BY <1>1, <3>1 DEF BeginIngest, FrontTyped, Got
      <4> QED
        BY <1>1, <3>1, <4>1, WriterAlone DEF BeginIngest, IngestDocument
    <3>2. CASE IngestStep(i)
      BY <1>1, <3>2, WriterAlone DEF IngestStep, WriteStep, ReadRetired, ReactivateDocument, front
    <3> QED
      BY <1>3, <3>1, <3>2
  <2>2. \A t \in Workers \cup Retirers : pc'[t] = pc[t] /\ my'[t] = my[t]
    BY <2>1, TxnAssumption DEF Alone, Txns
  <2> QED
    BY <1>1, <2>1, <2>2, NewestSame DEF content, tables, Indexing
<1> QED
  BY <1>2, <1>3

\* A version that is stored by an ingest that was alone is the newest; an ingest that
\* finds nothing new records what is there.
LEMMA CommitNewest ==
  ASSUME PageInv, NEW i \in Writers, CommitIngest(i)
  PROVE  NewestInv'
<1>0. PICK e \in Docs : e = my[i].doc
  BY CommitEffect
<1>1. /\ pc[i] # "idle" /\ e \in Docs /\ my[i].body \in Bodies /\ my[i].body # NoBody
      /\ source' = [source EXCEPT ![e] = my[i].body]
      /\ i \in overlap => mixed' = mixed \cup {e}
      /\ i \notin overlap /\ CreateDocumentVersion(i) => mixed' = mixed \ {e}
      /\ i \notin overlap /\ SkipUnchanged(i) => mixed' = mixed
      /\ pc' = [pc EXCEPT ![i] = "idle"] /\ my' = [my EXCEPT ![i] = Nothing]
  BY <1>0, CommitEffect
<1>2. TypeOK /\ NewestInv /\ WriteInv /\ AloneInv /\ i \in Txns
  BY DEF PageInv, FrontInv, IInv, Txns
<1>3. \A t \in Workers \cup Retirers : pc'[t] = pc[t] /\ my'[t] = my[t]
  BY <1>1, <1>2, TxnAssumption DEF TypeOK
<1>4. ASSUME NEW d \in Docs \ mixed', source'[d] # NoBody, d # e
      PROVE  \E m \in Versions : Newest(d, m)'
  <2>1. source'[d] = source[d] /\ d \notin mixed
    BY <1>0, <1>1, <1>2, <1>4 DEF TypeOK, CommitIngest
  <2>2. PICK m \in Versions : Newest(d, m)
    BY <1>2, <1>4, <2>1 DEF NewestInv
  <2>3. Untouched(d)
    <3>1. CASE SkipUnchanged(i)
      BY <2>1, <3>1 DEF SkipUnchanged, Untouched
    <3>2. CASE CreateDocumentVersion(i)
      <4>1. my[i].ver \in Versions /\ vdoc[my[i].ver] = NoDoc
        BY <1>1, <1>2 DEF PageInv, IInv, WriterInv, VersionInv, TypeOK
      <4> QED
        BY <1>0, <1>1, <1>2, <1>4, <2>1, <3>2, <4>1, NullAssumption
           DEF CreateDocumentVersion, Untouched, JobsOf, TypeOK
    <3> QED
      BY <3>1, <3>2 DEF CommitIngest
  <2>4. KeepsHolding(d, m)
    BY <1>3 DEF KeepsHolding, Indexing
  <2> QED
    BY <2>2, <2>3, <2>4, NewestKept
<1>5. ASSUME e \notin mixed'
      PROVE  \E m \in Versions : Newest(e, m)'
  <2>1. i \notin overlap
    BY <1>1, <1>5
  <2>2. CASE SkipUnchanged(i)
    <3>1. source[e] = my[i].body /\ e \notin mixed
      BY <1>0, <1>1, <1>2, <1>5, <2>1, <2>2 DEF AloneInv, WriteInv, SkipUnchanged
    <3>2. PICK m \in Versions : Newest(e, m)
      BY <1>1, <1>2, <3>1 DEF NewestInv
    <3>3. source'[e] = source[e]
      BY <1>1, <1>2, <3>1 DEF TypeOK
    <3>4. Untouched(e)
      BY <2>2, <3>3 DEF SkipUnchanged, Untouched
    <3>5. KeepsHolding(e, m)
      BY <1>3 DEF KeepsHolding, Indexing
    <3> QED
      BY <1>1, <3>2, <3>4, <3>5, NewestKept
  <2>3. CASE CreateDocumentVersion(i)
    <3>0. PICK m \in Versions : m = my[i].ver
      BY <1>1 DEF PageInv, IInv, WriterInv
    <3>1. /\ m \in Versions /\ job[m] = "none"
          /\ \A v \in JobsOf(e) : v < m
      BY <1>0, <1>1, <1>2, <2>1, <3>0 DEF AloneInv, PageInv, IInv, WriterInv
    <3>2. /\ vdoc' = [vdoc EXCEPT ![m] = e]
          /\ vbody' = [vbody EXCEPT ![m] = my[i].body]
          /\ job' = [job EXCEPT ![m] = "pending"]
      BY <1>0, <2>3, <3>0 DEF CreateDocumentVersion
    <3>3. m \in JobsOf(e)' /\ \A v \in JobsOf(e)' : v <= m
      BY <1>2, <3>1, <3>2 DEF JobsOf, TypeOK, Versions
    <3>4. vbody'[m] = source'[e] /\ job'[m] = "pending"
      BY <1>1, <1>2, <3>1, <3>2 DEF TypeOK
    <3>5. \A w \in Workers : Indexing(w)' => my'[w].ver # m
      BY <1>3, <3>1, HeldAlone DEF PageInv, Indexing
    <3>6. Newest(e, m)'
      BY <3>3, <3>4, <3>5 DEF Newest
    <3> QED
      BY <3>1, <3>6
  <2> QED
    BY <2>2, <2>3 DEF CommitIngest
<1> QED
  BY <1>4, <1>5 DEF NewestInv

LEMMA WikiNewest ==
  ASSUME PageInv, WikiStep \/ UNCHANGED allVars
  PROVE  NewestInv'
<1>1. UNCHANGED <<vars, mixed>>
  BY DEF WikiStep, Edit, Remove, Publish, LoseRemoval, Change, allVars, front
<1> QED
  BY <1>1, NewestSame DEF PageInv, content, vars, tables, Indexing

-----------------------------------------------------------------------------
(***************************************************************************)
(* The theorem.                                                            *)
(***************************************************************************)

LEMMA PageStepInv ==
  ASSUME OneModel, PageInv, [PageNext]_allVars
  PROVE  PageInv'
<1>1. IInv' /\ ServeInv'
  BY PageIsIndex, NextInv, StepServe DEF PageInv, FrontInv
<1>2. CASE UNCHANGED allVars
  <2>1. FrontInv'
    BY <1>2 DEF PageInv, allVars, front, vars, tables, FrontInv, FrontTyped, TimeInv, Genuine,
       WriteInv, AloneInv, JobsOf
  <2> QED
    BY <1>1, <1>2, <2>1, WikiNewest DEF PageInv
<1>3. CASE WikiStep
  BY <1>1, <1>3, WikiFront, WikiNewest DEF PageInv
<1>4. CASE Elsewhere
  <2>1. NewestInv'
    BY <1>4, WorkNewest, CompleteNewest, FailNewest, RetireNewest DEF Elsewhere
  <2> QED
    BY <1>1, <1>4, <2>1, ElsewhereFront DEF PageInv
<1>5. ASSUME NEW i \in Writers,
             (\E d \in Docs : Fetch(i, d)) \/ BeginIngest(i) \/ IngestStep(i) \/ CommitIngest(i)
      PROVE  PageInv'
  BY <1>1, <1>5, FetchFront, BeginFront, IngestFront, CommitFront, WriterNewest, CommitNewest
     DEF PageInv
<1>6. ASSUME NEW t \in Txns, RollbackFront(t)
      PROVE  PageInv'
  BY <1>1, <1>6, RollbackFrontInv, RollbackNewest DEF PageInv
<1> QED
  BY <1>2, <1>3, <1>4, <1>5, <1>6, PageSteps

\* What the backfill takes for unchanged is served as the wiki has it, once the page's
\* jobs are done: with any number of overlapping ingests, late and lost webhooks,
\* removals that are aborted and workers that fail or die, but for the pages that the
\* code is known to leave as they are.
THEOREM UnchangedServed == OneModel => (PageSpec => []UnchangedIsServed)
<1> SUFFICES ASSUME OneModel PROVE PageSpec => []UnchangedIsServed
  OBVIOUS
<1>1. PageInv => UnchangedIsServed
  <2> SUFFICES ASSUME PageInv, NEW d \in Docs, PendingOf(d) = {}, IsUnchanged(d),
                      wiki[d].listed, ~Excused(d)
               PROVE  ServedAsListed(d)
    BY DEF UnchangedIsServed
  <2>1. source[d] # NoBody /\ ~retired[d] /\ d \notin mixed /\ source[d] = wiki[d].body
    BY DEF IsUnchanged, Excused, PageInv, FrontInv, TimeInv, Genuine
  <2>2. PICK m \in Versions : Newest(d, m)
    BY <2>1 DEF PageInv, NewestInv
  <2>3. m \in JobsOf(d) /\ vdoc[m] = d /\ vbody[m] = wiki[d].body /\ m > 0
    BY <2>1, <2>2 DEF Newest, JobsOf, Versions
  <2>4. job[m] # "none" /\ job[m] # "pending" /\ job[m] # "cancelled"
    BY <2>1, <2>2, <2>3, NullAssumption DEF Newest, PendingOf, PageInv, IInv, VersionInv
  <2>5. job[m] # "failed"
    <3> SUFFICES ASSUME job[m] = "failed" PROVE FALSE
      OBVIOUS
    <3>1. current[d] \in {0} \cup Versions
      BY DEF PageInv, IInv, TypeOK
    <3>2. current[d] # 0 => current[d] \in JobsOf(d) /\ job[current[d]] = "succeeded"
      BY <3>1 DEF PageInv, ServeInv, RowInv, JobsOf
    <3>3. current[d] < m
      BY <2>2, <2>3, <3>1, <3>2 DEF Newest, Versions
    <3> QED
      BY <2>3, <3>3 DEF Excused
  <2>6. job[m] = "succeeded"
    BY <2>4, <2>5 DEF PageInv, IInv, TypeOK, JobStatus
  <2>7. /\ current[d] = m /\ active[m] = Content[vbody[m]]
        /\ \A v \in JobsOf(d) \ {m} : active[v] = {}
    BY <2>1, <2>2, <2>6 DEF Newest, Settled
  <2> QED
    BY <2>3, <2>7 DEF ServedAsListed
<1>2. PageInv /\ [PageNext]_allVars => PageInv'
  BY PageStepInv
<1> QED
  BY <1>1, <1>2, InitPage, PTL DEF PageSpec

=============================================================================
