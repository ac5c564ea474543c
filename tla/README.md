# OpenSQL AutoRAG in TLA+

AutoRAG keeps a searchable copy of an Outline wiki, and of uploaded files, in
PostgreSQL: a connector follows the wiki, a worker turns each version of a document
into chunks with embeddings, an API answers searches within what the caller may read
in Outline. These modules model the parts of it that change state, check them with
TLC on small instances and prove, with TLAPS and for every size, the safety properties
of the index, its refinement, the way of a page into search, the delta sync, the search,
the sync with the wiki, the sessions, the access cache, the extractors and the chunker.

## Inventory

| Component (code) | State | Operations | What is hard | What makes it correct |
|---|---|---|---|---|
| Index tables (`api/repository.py`, `infra/db/init.sql`) | documents, versions, sources, jobs, chunks, row locks | create a version, reactivate, retire, claim, insert chunks, complete, fail | transactions interleave statement by statement; deadlocks; aborted transactions | nothing retired is searchable; search reads one whole version; a live document is served or queued; a job has one worker and keeps its final status |
| Worker (`worker/main.py`) | one open transaction per job | `process_next_job`, `run_worker` | failure and crash in the middle of a job; the model row's lock | as above, and queued jobs are finished |
| Delta planner (`core/delta.py`, `repository.py`) | active chunks, stored vectors, `sync_runs` | plan, reuse, embed, count | repeated and moved chunks, failed runs, model switches | vectors belong to their text and model; unchanged text is not embedded; the counts are true |
| Connector (`connector/app.py`, `backfill.py`, `client.py`, `ingest.py`) | `document_sources`, `retired_at`; webhook tasks; one backfill process | webhooks, background tasks, listing, skipping, fetching, pruning | lost, late and repeated webhooks; the wiki changes under a paged listing; failed requests | a backfill repairs what webhooks missed; the prune spares what is listed; `updatedAt` stands for the body |
| Sign-in (`api/sessions.py`, `oauth.py`, `main.py`) | `oauth_logins`, `oauth_sessions`, Outline's tokens | login, callback, resolve and renew, sign out, purge | refresh tokens are replaced when used; concurrent requests; lost answers | codes and refresh tokens are used once; what is stored works; signing out revokes the latest token |
| Access resolver (`api/outline_access.py`) | cache by token digest | lookup, paged fetch, store | fetches race each other and membership | lost access ends; settled access is exact |
| Extractors (`worker/extractors.py`) | none | Markdown, Word, PDF and text to blocks with heading paths | fences, underlines, skipped levels, bookmarks that point to pages | no line is lost; code is text; blocks are under the headings that enclose them |
| Chunker (`core/chunking.py`) | none | sections, merge thin, windows | boundaries, repeated merging | no word is missed; headings are honest and pages those of the section; earlier chunks are kept |
| Search (`api/search.py`, `api/embeddings.py`, `repository.py`) | an open connection with the model's row lock | three modes, two arms, fusion, explanation of an empty answer, context of a hit | each statement sees another snapshot; filters before limits; two models | answers were true; no slot is wasted; versions are not mixed; fusion agrees with its arms; empty answers are explained |
| Embedding providers, webhook signature, MCP server, preflight, web console, containers | none of their own | | numerics, input and output | not modelled |

The parts interact through the database: the connector and the upload endpoint write
versions and jobs, the worker polls the jobs, search reads active chunks. The
connector learns of the wiki by webhook and by listing; the API asks Outline for a
caller's collections with the token that the session holds.

`PROJECT.json` lists every hazard with its line and the properties that watch it.

## Modules

* **IndexJobs** is the core. Its variables are the columns that decide what search
  sees; `pc` and `my` are the open transactions of workers, removals and writers. A
  transaction takes one step per statement that reads or locks, and its writes become
  visible at its commit, in one step, except that the lock it holds is visible from
  the statement on: `HoldsModel`, `HoldsDoc`, `HoldsJob` and `HoldsChunks` say which
  rows an open transaction has locked, and an action waits by its guard.
  `AbortDeadlocked` is PostgreSQL's choice of a victim, `Crash` a process that dies,
  `Rollback` what follows. A worker's victim cannot mark its job failed in the aborted
  transaction and dies; a removal's victim is logged and dropped.
* **ServedIndex** is what searchers are promised: a document serves one version or
  nothing, a version is published whole and once, a withdrawn document serves nothing. A
  version without text is in `blank` from the time it is stored (`Store`, or `Restore`
  with a new version); published, it serves nothing. IndexJobs is checked and proved to
  implement it.
* **DeltaSync** is one document's jobs over chunk contents, which IndexJobs abstracts:
  `PlanVersion` and `Decision` are `plan_delta`, `InsertReusing` and `InsertEmbedding`
  the two branches of the worker's loop, `Complete` and `Fail` its two ends.
* **PageSync** composes IndexJobs with the wiki in front of it, for one page from its
  editor to search. It EXTENDS IndexJobs and adds the page (`wiki`), the removal
  webhooks on their way, `document_sources.external_updated_at` (`stamp`) and what each
  connector task has fetched (`got`); IndexJobs' actions are conjoined with what the
  connector does around them. `IsUnchanged` is what the backfill decides by. `overlap`
  and `mixed` are history: they tell pages whose versions were put out of order, by two
  ingests at one time or by a removal that was broken off (`HeldBack`).
* **Search** is `execute_search` statement by statement, between indexing, removals and
  moves, with `past` recording what a request could have found since it was asked. An
  indexing transaction is what IndexJobs leaves of it for a reader. How the database
  ranks rows is given per query: `Nearer` orders all rows by distance, `Matching` is
  what the full text search finds and `Fitter` its order. Filter, cut, fusion (`Fuse`)
  and explanation are the code's. Scores are fractions, so that equal scores are equal.
* **Ranking** is what ORDER BY with LIMIT or OFFSET makes of a finite set; Search lists its
  arms and its answer with it.
* **OutlineSync** is the wiki, the webhook tasks and the backfill. Each ingest and each
  retirement is one step here and statements in IndexJobs.
* **Sessions** is the login round trip and the sessions' tokens. A request is at a place: it
  waits for a row (`waiting`, `purging`, `deleting`), for Outline (`exchange`, `asking`), or
  has an answer in hand. `resolve` updates the session's row first and keeps it locked until
  the request commits, also while Outline is asked; who comes meanwhile with the same
  cookie, or purges the row when it has expired, or deletes it, waits (`RowFree`). A renewal
  is two steps (Outline replaces the token; the answer is stored), with loss and death in
  between. `my.old` is what had expired when a login's transaction began.
* **AccessCache** is `OutlineAccessResolver` with a clock. A fetch is a request to
  `auth.info` and one for each page of the listing, each of at most `Timeout`; `since` is
  when Outline read the first page, `asked` when it was last asked.
* **Chunker** is `SemanticChunker` as operators over blocks. A loop of the code is a
  recursive function from the number of turns to what they have made (`SectionLoop`,
  `MergeLoop`, `CutLoop`, `EmitLoop`; `LineLoop` and `BookmarkLoop` in Extractors), which
  both TLC and the provers can follow.
* **Extractors** is `extract_blocks` as operators over lines, a line being what the
  patterns tell apart. Its little machine writes Markdown, Word, PDF and text files line
  by line, extracts and chunks them, so that TLC visits every small file; Chunker's
  properties are checked of the documents that extraction can produce.

`IndexProofs` (about IndexJobs and PageSync), `AccessProofs` (Sessions and AccessCache),
`DeltaSyncProofs`, `OutlineSyncProofs`, `SearchProofs`, `ChunkerProofs`, `ExtractorsProofs` and
`RankingProofs` hold the theorems. AccessCache's definitions are named apart from those of
Sessions (`CacheInit`, `CacheNext`, `CacheSpec`), so that one module can be about both.

The `MC*` modules give values for TLC. Operators whose comment begins with `Mutant:`
are defects, each one line away from the code's definition; none is used by a
specification. Each property is shown to notice the mutant listed for it in
`PROJECT.json`.

## Runs

| Run | Shows | Bounds |
|---|---|---|
| `one_model` | type correctness, `RetiredUnsearchable`, `ServedIsCurrentAndWhole`, `LiveIsServedOrQueued`, `FinishedJobsStay`, IndexJobs implements ServedIndex | one document, two workers of one model, a removal, two writers, three versions of a body without text and one of two chunks, failures and crashes |
| `two_models` | `EachJobHasOneWorker`, `JobsDrain`, `TransactionsEnd` where workers really run side by side | one document, two models, a removal, a writer, two versions, failing jobs |
| `page` | `UnchangedIsServed`, `PagesAreServed` | one page with two bodies, two changes of the wiki, a removal webhook that may be left over, two ingests at a time, a removal, a worker, two versions, failing jobs |
| `search` | seven properties of Search | a page with two versions and a local document, two chunks each, two workers of two models, one request at a time in three modes, one removal, restoration or move, top 2 of 3 candidates |
| `partial` | finding: a failed job's chunks are searchable | |
| `delta` | the four properties of DeltaSync | versions with repeated, moved and dropped chunks, two models |
| `sync` | `TimeTellsBody`, `CalmBackfillRepairs`, `EventuallyInSync` | two pages, pages of one, two collections of which one is in scope, two changes of the wiki, one failure |
| `paging` | finding: an edit during the listing gets a listed page retired | no scope, one change |
| `sessions` | five properties of Sessions, `RequestsEnd` for the requests that wait for a row among them | three requests, one session with three generations of tokens (135,112 states) |
| `outage` | finding: an outage during a renewal looks like an empty wiki | |
| `access` | `RevokedAccessEnds`, `SettledAccessIsExact` | two requests, two collections in pages of one, lifetime 2, requests to Outline of at most 1, two changes, the clock up to 7 (1,070,004 states) |
| `chunker` | eight properties of Chunker and Extractors | every file of up to five lines in four formats, lines of 1, 2 or 7 words, two heading levels, three kinds of fence, two pages; target 5, overlap 2, minimum 2 |

Why the bounds are enough. Races over the index need two transactions on one document
and a third that undoes the first: two workers, a removal and two writers give all
pairs of the code's lock orders and every deadlock between them. Chunks are recorded per version,
and one body has two, so that a version served in part, or beside another, shows. In OutlineSync two pages of
one give a listing that moves under its reader, and two changes a removal and a
return, or a move out of the scope and back. Three tokens give a renewal after a
renewal; three requests are one that holds the session's row and two that wait for it, of
which one may sign out, purge or die. A second session would meet the first only in a purge
that waits for both rows; safety was checked once with two. In AccessCache two slow fetches
can overtake each other, a listing has up to three pages, and the clock runs on past
lifetime and latency (2 and 3). The chunker's sizes fall below the minimum, between, and
above the target with the rest at its boundary (7 and 8 words); five lines hold a code
block with another fence in it, a heading with its underline between two others, or two
bookmarks and two pages. In PageSync two versions are the first ingest and one
after an edit, or the one that brings a removed page back. With two changes every pair
of edit, removal and return occurs, and with a webhook left over from an earlier removal
one more: a removal whose lock lets the newer of two jobs pass. `PagesAreServed` stops at `OutOfVersions`, where the
backfill wants an ingest that the bound no longer allows. In Search a page with two
versions is superseded while it is read, the local document competes for its places, and
a third candidate is cut by fusion.

In `two_models` and `page` nothing crashes, which `one_model` covers (a crash that is
repeated for ever would refute any progress); aborted transactions occur in all three.
In `delta` jobs follow each other, which IndexJobs does not assume.

CHECK_DEADLOCK is off where everything may have come to an end: Sessions (codes and
tokens run out), AccessCache (the clock does), Extractors (the file is full), Search
(versions and moves run out) and PageSync (changes and versions do).

## Fairness

IndexJobs: strong fairness of each process's steps, because a row lock goes to those
who queue for it, and a waiter is not overtaken for ever; weak fairness of the
deadlock detector and of restarting a dead worker, which the deployment does. Nobody
is obliged to ask for a change, and `JobsDrain` supposes that removals stop.
OutlineSync: the backfill is started again and again (cron) and its process and the
background tasks run; a webhook is not repeated for ever. No webhook is obliged to
arrive. PageSync: as IndexJobs, and for each page the backfill fetches it again and again
while it is not unchanged, and prunes; the wiki need not change and webhooks need not
arrive. Search: indexing jobs end (weak fairness, they run), and a search that waits for
the model's row gets it (strong fairness, as PostgreSQL queues for row locks). Sessions:
a request that has begun goes on, since every call has a timeout (weak fairness), and one
that waits for a row gets it (strong fairness, `LockStep`), since PostgreSQL gives a row's
lock to those who wait in turn. With weak fairness in its place TLC refutes `RequestsEnd`:
other requests take the row, and die with it, again and again. Nobody is obliged to come.

## Proofs

What the runs show of small instances, these theorems state of every number of
documents, versions, workers, requests, pages, chunks and so on. The assumptions are
those that the modules make of their constants, and TLC evaluates them in every run. No
property of a concurrent part is inductive as it stands: each proof has an invariant of its
own, which TLC has checked too, a lemma for each action, and one for each part the action
can disturb. What the extractors and the chunker compute is proved by following their loops.

**IndexProofs**, about IndexJobs: `TypeCorrect`, `RetirementHolds` (`RetiredUnsearchable`),
`OneWorkerPerJob` and `FinishedJobsKept`. That a completing job does not show chunks of a
retired document depends on what the transaction has read and still holds locked; so
the invariant adds, for each place a transaction can be at, what its private record
says of the tables: the status of the job a worker holds, that no two transactions
hold one row, that a removal which waits for the jobs of a document has seen all
that are pending, that a transaction's version exists and belongs to its document.

Its second part proves `OneVersionIsServed` (`ServedIsCurrentAndWhole`),
`NoDocumentIsLost` (`LiveIsServedOrQueued`) and `IndexIsServed`, that every step of
IndexJobs is a step of ServedIndex or a stutter. All three have the hypothesis `OneModel`:
the workers are configured with one embedding model. A deployment reads one setting for
all its workers; with two models the row locks are two, jobs of one document complete
side by side, and the properties are false. The invariant `ServeInv` adds that one worker
at a time is inside a transaction (`TurnInv`), where rows come from (`RowInv`), and that
what a completing worker has read of a document's versions is still what there is
(`CompletingInv`): a removal that has found the job pending waits for the row, and one
that comes later finds the chunks.

About PageSync: `UnchangedServed` (`UnchangedIsServed`), under `OneModel` too. PageSync's
steps are steps of IndexJobs or leave it alone, so that its invariants hold there. They do
not tell which body is served last; the invariant adds

* that `updatedAt` stands for the body, in what is fetched and in the source row
  (`TimeInv`), and that an ingest stores what was fetched for it (`WriteInv`);
* that an ingest which has met no other of its page has the page's latest version, and
  what it has read of the source row is still so (`AloneInv`);
* that a page not in `mixed` has a newest version with the body of its source row, which
  is the last to be indexed, because whoever indexes it has found every older job done or
  locked by a removal (`NewestInv`). A removal that then commits has cancelled the older
  job; one that is broken off leaves it to be indexed after the newer one, which is why
  such a page is `mixed`.

**DeltaSyncProofs**, about one document's jobs:

* `VectorsStayGenuine` (`VectorsAreGenuine`): rows are written only by the jobs of their
  versions, so that a switch of the model or a new job finds no row of its own;
* `UnchangedIsReused` (`UnchangedIsNotEmbedded`): what the plan says of a text stays true
  of the active rows while the plan is carried out, although each insertion adds an
  active row of the job's own;
* `CompletedRunsAreWhole` and `RetiredCountIsExact` (`CompletedRunIsWhole`,
  `RetiredCountIsLoss`): the job's rows are the chunks up to the one before the plan's
  first, each counted once, and the rows that will be dropped are the ones counted when
  the plan was made.

**SearchProofs** proves six of Search's seven properties for every number of documents,
versions, models, requests and workers, any rankings and any limits: `ShownWasTrue`
(`AnswersWereTrue`), `NoSlotIsWasted` (`SlotsAreNotWasted`), `OneVersionIsShown`
(`OneVersionPerModel`), `FusionIsFair` (`FusionRespectsBothArms`), `NothingIsExplained`
(`EmptySearchIsExplained`) and `ContextIsOfItsVersion` (`ContextIsOfTheHit`). The invariant
has two halves. `IndexInv` is what a search relies on: a version whose job is not finished
has no rows, a worker in a job holds its model's row, and of the active versions of one
document by one model at most one is whole. `RequestInv` follows a search through its
statements: the history covers what is readable, the lock of the model is held from the
first arm to the fusion, each arm holds only rows that were searchable and all those that
stayed, up to its cut, and what is fused or read later keeps these. `FusionIsFair` needs
that the fraction compared is strictly larger for a row that is ahead in one arm and not
behind in the other, which is proved for all ranks. That the rankings are orders is what
ORDER BY with a tie-break on the primary key gives.

**OutlineSyncProofs**, for any number of pages, collections, tasks, page sizes, changes and
failures: `TimeIsText` (`TimeTellsBody`) and `CalmRepairs` (`CalmBackfillRepairs`). The first
needs the wiki's clock (`ClockInv`: a change is later than all before) and that a snapshot on
its way is honest (`SnapInv`). The second is about a run that nothing disturbs; `Undisturbed`
says that every listed page is stored, or being stored, or ahead of the cursor (`SeenInv`,
`CoverInv`), that the page of the listing in hand is still true (`PageInv`), and that the prune
is left with exactly what is served and was not seen (`PruneInv`). The pages are finite in
number, which counting an offset needs.

**AccessProofs**, about Sessions, for any number of logins, requests and generations of tokens:
`OneExchange` (`CodeIsExchangedOnce`), `NoReplay` (`NoRefreshTokenReplay`), `StoredWorks`
(`StoredTokenWorks`) and `SignOutHolds` (`SignOutRevokesLatest`). The invariant says which
request is at work on a login (`LoginInv`), that one renewal at a time holds a session's row
and works on what is stored (`LockInv`), that what a request is about to store or revoke is
what Outline has issued last (`IssuedInv`), and that what is stored is that too, unless
the answer to a renewal is still on its way or was lost (`StoredInv`).

About AccessCache, for any number of requests and collections and all lifetimes and
timeouts: `RevocationHolds` (`RevokedAccessEnds`) and `SettledIsExact`
(`SettledAccessIsExact`). `Latency` is not assumed but derived: `Paced` says that the request
a fetch is waiting for was sent at most one timeout for each full page after the first was
read, and `Rounds` that a listing of N collections has no more full pages than fit into N.
`LossInv` bounds with it the age of a lost collection in a fetch under way and in the cache;
`ExactInv` says that what a fetch has read since the last change is a beginning of the
listing, by the lemmas about pages.

**RankingProofs** has the lemmas that these share about finite sets read in an order:
positions in a list are 0, 1, ... without gap or tie, a page that is shorter than asked is
the last, a full one lies within the list, and a list that is cut leaves out only what comes after a full list.

**ChunkerProofs** is about any document and any target, overlap and minimum. The library's
induction theorem takes an operator, which the provers cannot instantiate; the same is
had for sets, since a nonempty set of numbers has a least element (`Least`, from the
well-founded order of the library), and `Induction` states it for the turns of a loop. A
`...Turns` lemma for each loop says that the recursive function is what its turns make.

* `SectionsCover` says that the sections are always the first words of the text, one
  after the other (`Covers`), and that each says the truth of its words (`Stands`: their
  headings, their pages, whether one is text). Joining two neighbours keeps that, and so
  does extending the last, so it holds through `_sections`, `_merge_thin` and the fold of
  the tail. `CommonPathIs` is what joining paths needs of prefixes.
* `ChunksCover` cuts a section into windows that overlap and end with it (`Chunked`), and
  `WindowIsCut` says what a window takes from its section. `ChunksCoverTheText` and
  `ChunksAreHonest` follow, with words told apart by their places.
* `ThinSections`: joining makes a section no smaller and no less a text (`More`), so what
  did not fit with it does not fit later, and the fold at the end uncovers no new case.
* `GrowthKeeps`: a longer document has the same sections up to its last one, which may be
  longer (`Grown`). After merging the last one may also have become another, if more follow
  it (`GrownOn`); either way the chunks of the sections before it are the same.

**ExtractorsProofs** is about any file of any length in the four formats. `Written` says that
blocks and chunks are what the code makes of the file, which the machine keeps by its
definition (`AlwaysWritten`, a lemma); the properties of the chunks (`CoverAlways`, `HonestAlways`, `PagesAlways`, `ThinAlways`,
`GrowthAlways`) follow with it from ChunkerProofs and from what the extractors give: blocks of the right
types, with pages in order (`LoopType`, `PagesStandInOrder`). `LoopHolds` says which lines have
become blocks, and of which path.

* `OutlineAlways` (`SectionsFollowTheOutline`): `Nests` says that a path is the chain of the
  headings that enclose a place, one for each level. `PushNests` keeps it when no level is
  skipped, which is where that hypothesis is needed: what `_push` deletes is then exactly
  what the new heading closes. A page has the path of the last bookmark at or before it.
* `CodeAlways` (`CodeIsText`): the property says which fences open a block without running
  the loop. There is such a set (`OpenersAre`), at most one of its blocks is open at a
  line (`OneIsOpen`), and the fence that the loop remembers is the one that opened it
  (`MarkdownLoop`).
* `NothingLostAlways` (`NoLineIsLost`): with that, the lines that make no block are the
  fences that bound code, the underlines that the look-ahead skips, and empty lines.

Model-checked only: liveness, which is out of the prover's reach under fairness
(`JobsDrain`, `TransactionsEnd`, `PagesAreServed`, `EventuallyInSync`, `RequestsEnd`,
`SearchesEnd`), and the three violations under Findings. Every invariant and every action
property of the passing runs is a theorem.

## Findings

1. `partial`: `process_next_job` commits what a failed job has inserted, active; the
   design says partial results are not active until the run completes.
2. `paging`: the listing is paged by offset over an order that edits change; a page
   that moves to the front is missed and pruned although it is listed. The next
   backfill restores it.
3. `outage`: a refresh that fails because Outline is unreachable deletes the session
   and the search is answered from local documents, which the code says would look
   like an empty wiki.

4. Access that is lost works longer than the documents say. `docs/outline.md:126-127`
   ("`AUTORAG_ACCESS_CACHE_SECONDS` bounds how long a revoked membership keeps working"),
   `docs/outline.md:392-393` ("A revoked membership keeps working for up to
   `AUTORAG_ACCESS_CACHE_SECONDS`") and `outline_access.py:55-57` promise the lifetime of an
   entry. The code begins that lifetime when the listing has been read and stored
   (`_store`, `outline_access.py:77-82` and `97-98`), while what it stores was read from
   its first page on; and a fetch that began earlier overwrites the result of a later
   one. No run has this as its property: `RevokedAccessEnds` states, and the proof shows,
   the bound the code keeps, the lifetime and the rest of the listing. With the lifetime
   alone in its place TLC finds, on the instance of `access`: a caller may read collections
   1 and 2; the page with collection 1 is read at 0; the caller loses it at 0; the last
   page is read at 1 and the answer is stored until 3; at 3 collection 1 is still searched,
   although 0 + 2 has passed.

Also seen while modelling, and not checked by a run of their own:

* A chunk cut from a long section names the pages of the whole section (`_emit` takes one
  `location` for all windows, `chunking.py:171-182`), also those that none of its words is
  on; `PagesAreTheSections` says exactly that. `_sections` divides by heading path alone
  (`chunking.py:104-127`), so a PDF without bookmarks is one section and every chunk of it
  names its first page to its last, although the design says that such a file "keeps
  page-level division"
  (`docs/superpowers/specs/2026-07-04-opensql-autorag-sync-design.md:184`) and
  `_extract_pdf` that "pages remain the only division" (`extractors.py:202`).
* Two ingests of one page that overlap (a webhook and the backfill, or two webhooks) may
  leave the older body served for ever: versions are indexed in the order in which their
  transactions began, `document_sources` keeps what the last commit wrote, and
  `is_unchanged` believes it. `UnchangedIsServed` and `PagesAreServed` excuse such pages
  (`mixed`); without the excuse TLC shows the case.
* A removal that is rolled back (as a deadlock's victim, or because the connector dies)
  may have the same effect: while it keeps a page's older pending job locked, `FOR UPDATE
  SKIP LOCKED` lets the worker claim the newer one; the older is indexed afterwards, and
  its body served, although `document_sources` has the newer. The proof of
  `UnchangedIsServed` came upon it; the same excuse covers it.
* A job that failed is not tried again, since the source row says that the page is up to
  date; the same two properties excuse it.
* The plan sees only active chunks, so a page that was retired and returns is embedded
  again; `docs/outline.md` says its stored embeddings are reused.
* `_push` keeps what is there when a level is skipped. In a Word file without a title,
  the first Heading 1 becomes the first element of the path, as the comment says, but the
  second one nests under it; the same happens below a Markdown file's first heading when
  that is of level 2. `SectionsFollowTheOutline` is about outlines that skip no level.
* Versions of two models of one document may be searchable together when workers with
  different models complete side by side; `OneVersionPerModel` says what remains true.
* A process that starts once with a wrong dimension registers the model with it, and
  `resolve_embedding_model_id` refuses the right one from then on.

## Not modelled, and abstractions

* The ranking inside PostgreSQL (full text with its identifier clause, pgvector) and the
  approximation of its HNSW index: Search takes the order as given and exact, and
  `ArmCutFirst` shows what `hnsw.iterative_scan` is set for. Listings of documents and
  jobs and the sync status are single reads.
* The embedding providers, python-docx and pypdf: numerical code and libraries.
* The webhook signature (one comparison, no state); the MCP server (forwards calls); the
  preflight check; the web console; the containers.
* The file a version is stored in is rewritten in place with the same bytes when a body
  comes back; a torn read is below the steps of IndexJobs.
* `--force` and `--no-prune` of the backfill; the loop's polling interval.
* Clock steps of the database: `created_at` orders jobs by version.
* Two models at one time are checked for what holds of them; that search reads one
  version only is a property of one model, whose row's lock keeps the jobs in turn.
* In Sessions, Outline always issues a refresh token, as its configuration says; its
  margin exceeds the time it takes to store a token.
* The purge of a login waits for the rows it deletes one after the other; in Sessions it
  waits for all of them and deletes them in one step.
* In AccessCache one token is followed, and at most N collections. `Timeout` is
  idealised: httpx limits each wait of a request (connecting, sending, each read), not the
  request as a whole, so that an Outline that trickles its answer is slower still.
* In IndexJobs an ingest's transaction begins with its reading of the source row, in one
  step; an UPDATE takes the rows it locks at once, where PostgreSQL locks one after the
  other; and of the database errors inside a job only deadlocks are modelled: any other
  would end the worker as they do, since `main.py:117` runs in the aborted transaction.
* In Search a removal waits for a job of its document that is under way. That one may
  commit between the claim and the completion is IndexJobs' subject.

## Plan

Done: IndexJobs, ServedIndex, PageSync, Search, DeltaSync, OutlineSync, Sessions,
AccessCache, Chunker and Extractors, with the proofs above: every safety property that
the passing runs check is proved.

Next: the registry of embedding models and the start-up check that waits for its lock; the
discovery document's cache; `--force` and `--no-prune`.
