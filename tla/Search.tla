------------------------------- MODULE Search -------------------------------
(***************************************************************************)
(* One search: execute_search inside its connection, and the request for   *)
(* the text around a hit, while workers index, pages are removed, restored *)
(* and moved between collections.                                          *)
(*                                                                         *)
(* A row is <<version, position>>.  An indexing transaction is what        *)
(* IndexJobs leaves of it for a reader: it takes its model's row lock and  *)
(* a job, sees the rows it will hide, and commits.  The database's ranking *)
(* is given: per query, the order of all rows by distance, the rows that   *)
(* match its words, and the order of these.  What PostgreSQL does with     *)
(* ties is one such order.                                                 *)
(***************************************************************************)
EXTENDS Ranking, SequencesExt

CONSTANTS
  Docs, Versions,
  DocOf,        \* DocOf[v]: the document of version v
  Size,         \* how many chunks a version has
  Collections,  \* collection ids
  Local,        \* the collection of a document that was uploaded: no source row
  Home,         \* Home[d]: where each document is at first
  Unknown,      \* a NULL collection_id
  Models, NoModel,
  Workers, Requests,
  ModelOf,      \* the model a worker or the API is configured with
  Queries,      \* what is asked
  Nearer,       \* Nearer[k]: the order of all rows by their distance to query k
  Matching,     \* Matching[k]: the rows with words of query k
  Fitter,       \* Fitter[k]: their order by ts_rank_cd
  Scopes,       \* the SearchScopes that callers have
  TopK,         \* top_k
  Multiplier, Minimum,  \* search_candidate_multiplier, search_candidate_minimum
  RrfK,         \* rrf_k
  MaxMoves,     \* bound: how often pages are moved, removed or restored
  NoOne         \* nobody holds a lock

Rows == Versions \X (1..Size)
Modes == {"hybrid", "vector", "keyword"}

ASSUME SearchAssumption ==
  /\ Versions \subseteq Nat \ {0} /\ IsFiniteSet(Versions) /\ Size \in Nat \ {0}
  /\ DocOf \in [Versions -> Docs]
  /\ Home \in [Docs -> Collections \cup {Local, Unknown}]
  /\ {Local, Unknown} \cap Collections = {} /\ Local # Unknown /\ NoModel \notin Models
  /\ ModelOf \in [Workers \cup Requests -> Models]
  /\ \A k \in Queries :
       IsOrder(Nearer[k], Rows) /\ Matching[k] \subseteq Rows /\ IsOrder(Fitter[k], Matching[k])
  /\ Scopes \subseteq [local: BOOLEAN, allowed: SUBSET Collections]
  /\ TopK \in Nat \ {0} /\ Multiplier \in Nat \ {0} /\ Minimum \in Nat /\ RrfK \in Nat
  /\ Workers \cap Requests = {} /\ NoOne \notin Workers \cup Requests

VARIABLES
  rows,    \* rows[v]: how many rows version v has; a job that failed left fewer
  active,  \* versions whose rows have active = TRUE
  by,      \* by[v]: the model whose vectors v has, when its job is finished
  gone,    \* [Docs -> BOOLEAN]: retired
  coll,    \* [Docs -> collection]: document_sources.collection_id
  moves,   \* how many removals, restorations and moves there have been
  lock,    \* [Models -> who]: the embedding_models row lock
  task,    \* [Workers -> [ver, sees, show]]: the job each worker is in
  req,     \* [Requests -> Request]
  past     \* history: [Requests -> what could be found since it was asked]

index == <<rows, active, by, gone, coll, moves, task>>
vars == <<index, lock, req, past>>

NoTask == [ver |-> 0, sees |-> {}, show |-> FALSE, at |-> "idle"]
NotAsked == [at |-> "idle", query |-> 0, scope |-> [local |-> FALSE, allowed |-> {}],
             mode |-> "hybrid", vector |-> <<>>, keyword |-> <<>>, answer |-> <<>>,
             warned |-> FALSE, hit |-> <<>>, around |-> {}]
Nothing == [was |-> {}, stayed |-> Rows, models |-> {}]

VersionsOf(d) == {v \in Versions : DocOf[v] = d}

\* The rows of document_chunks, and those with active = TRUE.
Stored == {r \in Rows : r[2] <= rows[r[1]]}
Active == {r \in Stored : r[1] \in active}

\* Mutant: a page whose collection is not known is treated like a local document.
InScopeNullLocal(r, scope) ==
  \/ coll[DocOf[r[1]]] \in {Local, Unknown} /\ scope.local
  \/ coll[DocOf[r[1]]] \in scope.allowed

\* The scope condition of both arms: = ANY is never true of NULL.
InScope(r, scope) ==
  \/ coll[DocOf[r[1]]] = Local /\ scope.local
  \/ coll[DocOf[r[1]]] \in scope.allowed

Running(q) == req[q].at \notin {"idle", "done", "failed", "read"}

Init ==
  /\ rows = [v \in Versions |-> 0]
  /\ active = {}
  /\ by = [v \in Versions |-> NoModel]
  /\ gone = [d \in Docs |-> FALSE]
  /\ coll = Home
  /\ moves = 0
  /\ lock = [m \in Models |-> NoOne]
  /\ task = [w \in Workers |-> NoTask]
  /\ req = [q \in Requests |-> NotAsked]
  /\ past = [q \in Requests |-> Nothing]

-----------------------------------------------------------------------------
(***************************************************************************)
(* The index: workers, removals, and pages that move.                      *)
(***************************************************************************)

Release(t) == lock' = [m \in Models |-> IF lock[m] = t THEN NoOne ELSE lock[m]]

\* Versions whose job can be claimed.
Pending == {v \in Versions : by[v] = NoModel /\ \A w \in Workers : task[w].ver # v}

ResolveEmbeddingModel(w) ==
  /\ task[w].at = "idle"
  /\ lock[ModelOf[w]] = NoOne
  /\ task' = [task EXCEPT ![w].at = "claim"]
  /\ lock' = [lock EXCEPT ![ModelOf[w]] = w]
  /\ UNCHANGED <<rows, active, by, gone, coll, moves, req>>

ClaimNextJob(w) ==
  /\ task[w].at = "claim"
  /\ \E v \in Pending :
       /\ \A u \in Pending : v <= u
       /\ task' = [task EXCEPT ![w].ver = v, ![w].at = "write"]
  /\ UNCHANGED <<rows, active, by, gone, coll, moves, lock, req>>

\* Mutant: the worker keeps its transaction open while it polls.
FindNoJobHolding(w) ==
  /\ task[w].at = "claim"
  /\ UNCHANGED <<index, lock, req>>

\* The next version need not have been stored yet: the worker polls again and again.
FindNoJob(w) ==
  /\ task[w].at = "claim"
  /\ task' = [task EXCEPT ![w] = NoTask]
  /\ Release(w)
  /\ UNCHANGED <<rows, active, by, gone, coll, moves, req>>

\* The snapshot of complete_indexing's UPDATE.
StartCompleting(w) ==
  LET d == DocOf[task[w].ver] IN
  /\ task[w].at = "write"
  /\ task' = [task EXCEPT ![w].at = "complete", ![w].show = ~gone[d],
                          ![w].sees = VersionsOf(d) \cap active]
  /\ UNCHANGED <<rows, active, by, gone, coll, moves, lock, req>>

CompleteIndexing(w) ==
  /\ task[w].at = "complete"
  /\ rows' = [rows EXCEPT ![task[w].ver] = Size]
  /\ active' = (active \ task[w].sees) \cup {v \in {task[w].ver} : task[w].show}
  /\ by' = [by EXCEPT ![task[w].ver] = ModelOf[w]]
  /\ task' = [task EXCEPT ![w] = NoTask]
  /\ Release(w)
  /\ UNCHANGED <<gone, coll, moves, req>>

\* The rows that were inserted before the failure stay, active.
MarkJobFailed(w) ==
  /\ task[w].at = "write"
  /\ \E n \in 0..(Size - 1) : rows' = [rows EXCEPT ![task[w].ver] = n]
  /\ active' = active \cup {task[w].ver}
  /\ by' = [by EXCEPT ![task[w].ver] = ModelOf[w]]
  /\ task' = [task EXCEPT ![w] = NoTask]
  /\ Release(w)
  /\ UNCHANGED <<gone, coll, moves, req>>

\* Removing waits for the workers that are inside a job of the document.
RetireDocument(d) ==
  /\ moves < MaxMoves
  /\ \A w \in Workers : task[w].at \in {"write", "complete"} => DocOf[task[w].ver] # d
  /\ coll[d] # Local
  /\ gone' = [gone EXCEPT ![d] = TRUE]
  /\ active' = active \ VersionsOf(d)
  /\ moves' = moves + 1
  /\ UNCHANGED <<rows, by, coll, task, lock, req>>

\* A page synced again: it may be in another collection, or in none that is known.
SyncPage(d, c) ==
  /\ moves < MaxMoves
  /\ coll[d] # Local
  /\ coll[d] # c \/ gone[d]
  /\ coll' = [coll EXCEPT ![d] = c]
  /\ gone' = [gone EXCEPT ![d] = FALSE]
  /\ moves' = moves + 1
  /\ UNCHANGED <<rows, active, by, task, lock, req>>

-----------------------------------------------------------------------------
(***************************************************************************)
(* A search.  Each statement sees what is committed when it starts.        *)
(***************************************************************************)

\* Mutant: the rows are cut before those out of scope are dropped.
ArmCutFirst(some, order, models, scope, limit) ==
  LET first == ToSet(Ranked({r \in some \cap Active : by[r[1]] \in models}, order, limit))
  IN Ranked({r \in first : InScope(r, scope)}, order, limit)

\* The arms: filtered, ordered, cut.
Arm(some, order, models, scope, limit) ==
  Ranked({r \in some \cap Active : InScope(r, scope) /\ by[r[1]] \in models}, order, limit)

VectorArm(q, limit) ==
  Arm(Rows, Nearer[req[q].query], {ModelOf[q]}, req[q].scope, limit)

KeywordArm(q, limit) ==
  Arm(Matching[req[q].query], Fitter[req[q].query], Models, req[q].scope, limit)

Candidates == IF TopK * Multiplier < Minimum THEN Minimum ELSE TopK * Multiplier

\* Where an arm has a row; 0 where it has not.
Rank(arm, r) == IF \E i \in DOMAIN arm : arm[i] = r
                THEN CHOOSE i \in DOMAIN arm : arm[i] = r ELSE 0

\* Mutant: the second arm's weight replaces the first's.
ScoreOfLast(vector, keyword, r) ==
  <<1, RrfK + (IF Rank(keyword, r) # 0 THEN Rank(keyword, r) ELSE Rank(vector, r))>>

\* The sum of 1 / (RrfK + rank) over the arms that have the row, as a fraction.
Score(vector, keyword, r) ==
  LET v == RrfK + Rank(vector, r)
      k == RrfK + Rank(keyword, r)
  IN IF Rank(vector, r) = 0 THEN <<1, k>>
     ELSE IF Rank(keyword, r) = 0 THEN <<1, v>> ELSE <<v + k, v * k>>

\* When a row is met: the vector arm is gone through first.
Met(vector, keyword, r) ==
  IF Rank(vector, r) # 0 THEN Rank(vector, r) ELSE Len(vector) + Rank(keyword, r)

Above(x, y) == x[1] * y[2] > y[1] * x[2]

\* sorted is stable: equal scores stay in the order in which rows were met.
Better(vector, keyword, r, s) ==
  LET x == Score(vector, keyword, r)
      y == Score(vector, keyword, s)
  IN Above(x, y) \/ (~Above(y, x) /\ Met(vector, keyword, r) < Met(vector, keyword, s))

Fused(vector, keyword) ==
  LET met == ToSet(vector) \cup ToSet(keyword)
  IN Ranked(met, {p \in met \X met : Better(vector, keyword, p[1], p[2])}, TopK)

\* Mutant: embedding_coverage counts the chunks that were superseded, too.
CoverageOfAll == {by[r[1]] : r \in Stored}

Coverage == {by[r[1]] : r \in Active}

Ask(q, k, scope, mode) ==
  /\ req[q].at = "idle"
  /\ req' = [req EXCEPT ![q] = [NotAsked EXCEPT
               !.query = k, !.scope = scope, !.mode = mode,
               !.at = IF mode = "keyword" THEN "keyword" ELSE "resolve"]]
  /\ UNCHANGED <<index, lock>>

\* Mutant: the model's row is read and not locked.
ResolveUnlocked(q) ==
  /\ req[q].at = "resolve"
  /\ req' = [req EXCEPT ![q].at = "vector"]
  /\ UNCHANGED <<index, lock>>

\* resolve_embedding_model_id: the upsert waits for the row and keeps it locked.
ResolveModel(q) ==
  /\ req[q].at = "resolve"
  /\ lock[ModelOf[q]] = NoOne
  /\ lock' = [lock EXCEPT ![ModelOf[q]] = q]
  /\ req' = [req EXCEPT ![q].at = "vector"]
  /\ UNCHANGED index

\* With an answer the connection closes; without one the reason is looked for.
Finish(q, answer) ==
  IF answer = <<>> /\ req[q].mode # "keyword"
  THEN req' = [req EXCEPT ![q].at = "explain"] /\ UNCHANGED lock
  ELSE req' = [req EXCEPT ![q].at = "done", ![q].answer = answer] /\ Release(q)

SearchChunks(q) ==
  /\ req[q].at = "vector"
  /\ IF req[q].mode = "vector" THEN Finish(q, VectorArm(q, TopK))
     ELSE /\ req' = [req EXCEPT ![q].at = "keyword",
                                ![q].vector = VectorArm(q, Candidates)]
          /\ UNCHANGED lock
  /\ UNCHANGED index

SearchChunksKeyword(q) ==
  /\ req[q].at = "keyword"
  /\ IF req[q].mode = "keyword" THEN Finish(q, KeywordArm(q, TopK))
     ELSE /\ req' = [req EXCEPT ![q].at = "fuse",
                                ![q].keyword = KeywordArm(q, Candidates)]
          /\ UNCHANGED lock
  /\ UNCHANGED index

Fuse(q) ==
  /\ req[q].at = "fuse"
  /\ Finish(q, Fused(req[q].vector, req[q].keyword))
  /\ UNCHANGED index

\* embedding_mismatch.
Explain(q) ==
  /\ req[q].at = "explain"
  /\ req' = [req EXCEPT ![q].at = "done",
                        ![q].warned = Coverage # {} /\ ModelOf[q] \notin Coverage]
  /\ Release(q)
  /\ UNCHANGED index

\* An exception, or the process dies: the transaction is rolled back.
Fail(q) ==
  /\ Running(q)
  /\ req' = [req EXCEPT ![q] = [NotAsked EXCEPT !.at = "failed"]]
  /\ Release(q)
  /\ UNCHANGED index

\* Mutant: the rows around a hit are looked for in the document that is served.
ContextServed(q, hit) ==
  {r \in Active : InScope(r, req[q].scope) /\ DocOf[r[1]] = DocOf[hit[1]] /\ r[2] - hit[2] \in -1..1}

\* The rows either side, whether active or not.
Context(q, hit) ==
  {r \in Stored : InScope(r, req[q].scope) /\ r[1] = hit[1] /\ r[2] - hit[2] \in -1..1}

GetChunkContext(q) ==
  /\ req[q].at = "done"
  /\ \E hit \in ToSet(req[q].answer) :
       req' = [req EXCEPT ![q] = [NotAsked EXCEPT !.at = "read", !.hit = hit,
                                                  !.around = Context(q, hit)]]
  /\ UNCHANGED <<index, lock>>

SearchStep(q) ==
  ResolveModel(q) \/ SearchChunks(q) \/ SearchChunksKeyword(q) \/ Fuse(q) \/ Explain(q)
WorkerStep(w) ==
  ClaimNextJob(w) \/ FindNoJob(w) \/ StartCompleting(w) \/ CompleteIndexing(w) \/ MarkJobFailed(w)

\* What a caller may be shown, in terms of the wiki: a local document, or a page
\* that is in one of the collections the caller can read.
Readable(scope) ==
  {r \in Active : LET c == coll[DocOf[r[1]]] IN
     IF Home[DocOf[r[1]]] = Local THEN scope.local ELSE c \in scope.allowed}

\* What each running request could have found, now and since it was asked.
Remember ==
  past' = [q \in Requests |->
    IF req'[q].at = "done" THEN past[q] ELSE IF ~Running(q)' THEN Nothing
    ELSE LET now == Readable(req[q].scope)' IN
         [was |-> past[q].was \cup now, stayed |-> past[q].stayed \cap now,
          models |-> past[q].models
                       \cup (IF Active' = {} THEN {NoModel} ELSE {by[r[1]] : r \in Active}')]]

Next ==
  /\ \/ \E w \in Workers : ResolveEmbeddingModel(w) \/ WorkerStep(w)
     \/ \E d \in Docs :
          RetireDocument(d) \/ \E c \in Collections \cup {Unknown} : SyncPage(d, c)
     \/ \E q \in Requests : SearchStep(q) \/ Fail(q) \/ GetChunkContext(q)
     \/ \E q \in Requests, k \in Queries, s \in Scopes, m \in Modes : Ask(q, k, s, m)
  /\ Remember

\* Jobs end; who waits for a row lock gets it.
Fairness ==
  /\ \A w \in Workers : WF_vars(WorkerStep(w) /\ Remember)
  /\ \A q \in Requests : SF_vars(SearchStep(q) /\ Remember)

Spec == Init /\ [][Next]_vars
FairSpec == Spec /\ Fairness

-----------------------------------------------------------------------------
(***************************************************************************)
(* Properties.                                                             *)
(***************************************************************************)

Answered(q) == req[q].at = "done"

\* Whatever a caller is shown was searchable and theirs to read at some moment of
\* the request, and is shown once, although the page may have been superseded,
\* removed or moved while the two arms and the fusion ran.
AnswersWereTrue ==
  \A q \in Requests : Answered(q) =>
    /\ ToSet(req[q].answer) \subseteq past[q].was
    /\ IsInjective(req[q].answer)

\* What this request's mode could match.
CouldMatch(q, r) ==
  \/ req[q].mode # "keyword" /\ by[r[1]] = ModelOf[q]
  \/ req[q].mode # "vector" /\ r \in Matching[req[q].query]

\* No slot is spent on what the caller may not read, on a row twice or on a row that
\* is gone: a row that was there for this caller all along is left out only when
\* the answer is full.
SlotsAreNotWasted ==
  \A q \in Requests : Answered(q) =>
    \A r \in past[q].stayed : CouldMatch(q, r) =>
      r \in ToSet(req[q].answer) \/ Len(req[q].answer) = TopK

\* The two arms read the index one after the other, and yet an answer never mixes
\* two versions of a page that the same model embedded, apart from what a failed
\* job left: the lock taken for the model keeps its workers from committing.
OneVersionPerModel ==
  \A q \in Requests : Answered(q) =>
    \A r, s \in ToSet(req[q].answer) :
      /\ DocOf[r[1]] = DocOf[s[1]] /\ by[r[1]] = by[s[1]] /\ by[r[1]] = ModelOf[q]
      /\ rows[r[1]] = Size /\ rows[s[1]] = Size
      => r[1] = s[1]

\* Where a row is in an arm, with those that are not found last.
Place(arm, r) == IF Rank(arm, r) = 0 THEN Len(arm) + 1 ELSE Rank(arm, r)

\* Fusion contradicts neither arm: a row no worse in both and better in one is not
\* behind, and is not left out for the other.
FusionRespectsBothArms ==
  \A q \in Requests : Answered(q) /\ req[q].mode = "hybrid" =>
    \A r \in Rows, i \in DOMAIN req[q].answer :
      LET s == req[q].answer[i]
          v == req[q].vector
          k == req[q].keyword
      IN /\ r # s /\ Place(v, r) <= Place(v, s) /\ Place(k, r) <= Place(k, s)
         /\ Place(v, r) < Place(v, s) \/ Place(k, r) < Place(k, s)
         => Rank(req[q].answer, r) \in 1..(i - 1)

\* An empty answer that comes without a warning is not the work of a model that has
\* nothing indexed: there were searchable vectors of this model while the request
\* ran, or nothing was searchable at all.  And a warning is not given while they are there.
EmptySearchIsExplained ==
  \A q \in Requests : Answered(q) /\ req[q].mode # "keyword" /\ req[q].answer = <<>> =>
    IF req[q].warned THEN \A r \in past[q].stayed : by[r[1]] # ModelOf[q]
    ELSE past[q].models \cap {ModelOf[q], NoModel} # {}

\* Reading around a hit shows the text the hit was found in, also when the page has
\* been indexed again or removed since, and nothing once the page is out of scope.
ContextIsOfTheHit ==
  \A q \in Requests : req[q].at = "read" /\ req[q].around # {} =>
    /\ req[q].hit \in req[q].around
    /\ \A r \in req[q].around : r[1] = req[q].hit[1]

\* Every search is answered or fails, although it waits for the row lock that
\* workers and other searches take again and again.
SearchesEnd == \A q \in Requests : Running(q) ~> ~Running(q)
=============================================================================
