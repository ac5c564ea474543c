------------------------------ MODULE DeltaSync ------------------------------
(***************************************************************************)
(* Delta sync of one document: what the worker plans for the chunks of a   *)
(* new version, which vectors it takes over and which it computes, and     *)
(* what it reports.                                                        *)
(*                                                                         *)
(* One job is one transaction and the jobs of a document follow each other *)
(* here; IndexJobs has what happens between them and other transactions.   *)
(* A chunk row is <<version, chunk_index>>.  A text is identified with its *)
(* content hash, and a vector is the pair of the model and the hash that   *)
(* produced it.                                                            *)
(***************************************************************************)
EXTENDS Integers, Sequences, FiniteSets

CONSTANTS
  Hashes,       \* content hashes of chunks
  Models,       \* embedding models
  Contents,     \* the chunk sequences a document body can have
  MaxVersion    \* bound: versions of the document

ASSUME DeltaAssumption == MaxVersion \in Nat /\ Contents \subseteq Seq(Hashes)

Versions == 1..MaxVersion

VARIABLES
  text,      \* [Versions -> Contents \cup {<<>>}]: what the worker extracts
  last,      \* the newest version; versions above it do not exist
  done,      \* versions whose job is over
  retired,   \* documents.retired_at IS NOT NULL
  hash,      \* [rows -> Hashes]: document_chunks.content_hash
  active,    \* the rows with document_chunks.active
  vector,    \* [rows -> vectors]: chunk_embeddings, one row per chunk row
  model,     \* the model the worker is configured with
  run,       \* the last sync_runs row
  plan,      \* the chunks still to write, each <<hash, decision>>
  job,       \* the job being processed: its version, or 0
  tally      \* its counts so far

vars == <<text, last, done, retired, hash, active, vector, model, run, plan, job, tally>>

Rows == DOMAIN hash
NoCounts == [reused |-> 0, embedded |-> 0, retired |-> 0]
HashesOf(s) == {s[i] : i \in DOMAIN s}
HashesIn(R) == {hash[r] : r \in R}

Init ==
  /\ text = [v \in Versions |-> <<>>]
  /\ last = 0 /\ done = {} /\ retired = FALSE
  /\ hash = <<>> /\ active = {} /\ vector = <<>>
  /\ model \in Models
  /\ run = NoCounts
  /\ plan = <<>> /\ job = 0 /\ tally = NoCounts

-----------------------------------------------------------------------------
(***************************************************************************)
(* Around the worker, between two jobs.                                    *)
(***************************************************************************)

\* A new body arrives, from the wiki -- then a removed document is back -- or as
\* an upload.
CreateVersion(body, synced) ==
  /\ job = 0
  /\ last < MaxVersion
  /\ last' = last + 1
  /\ text' = [text EXCEPT ![last + 1] = body]
  /\ retired' = (retired /\ ~synced)
  /\ UNCHANGED <<done, hash, active, vector, model, run, plan, job, tally>>

\* deactivate_document: the queued jobs go, and nothing stays active.  A repeated removal
\* also hides what a job that failed since has left active.
Retire ==
  /\ job = 0
  /\ retired' = TRUE
  /\ done' = 1..last
  /\ active' = {}
  /\ UNCHANGED <<text, last, hash, vector, model, run, plan, job, tally>>

\* The worker is restarted with another embedding model.
SwitchModel ==
  /\ job = 0
  /\ \E m \in Models \ {model} : model' = m
  /\ UNCHANGED <<text, last, done, retired, hash, active, vector, run, plan, job, tally>>

-----------------------------------------------------------------------------
(***************************************************************************)
(* process_next_job.                                                       *)
(***************************************************************************)

\* Mutant: a chunk is matched in its place, not anywhere in the document.
DecisionInPlace(v, i, previous) ==
  IF \E r \in previous : r[2] = i /\ hash[r] = text[v][i] THEN "reuse" ELSE "embed"

\* Matching is on the content hash alone.
Decision(v, i, previous) ==
  IF text[v][i] \in HashesIn(previous) THEN "reuse" ELSE "embed"

\* Mutant: the rows matched are counted, not the rows dropped.
DroppedOld(v, previous) == {r \in previous : hash[r] \in HashesOf(text[v])}

\* Previous chunks whose content is not in the new version.
Dropped(v, previous) == {r \in previous : hash[r] \notin HashesOf(text[v])}

\* Claim the oldest job, extract, and plan against the active chunks.
PlanVersion ==
  /\ job = 0
  /\ \E v \in (1..last) \ done :
       /\ \A u \in (1..last) \ done : v <= u
       /\ job' = v
       /\ plan' = [i \in DOMAIN text[v] |-> <<text[v][i], Decision(v, i, active)>>]
       /\ tally' = [NoCounts EXCEPT !.retired = Cardinality(Dropped(v, active))]
  /\ UNCHANGED <<text, last, done, retired, hash, active, vector, model, run>>

NextRow == <<job, Len(text[job]) - Len(plan) + 1>>
NextHash == plan[1][1]

\* has_reusable_embedding: any row of the document, active or not.
Reusable(h) == \E r \in Rows : hash[r] = h /\ vector[r][1] = model

Insert(vec) ==
  /\ hash' = [r \in Rows \cup {NextRow} |-> IF r = NextRow THEN NextHash ELSE hash[r]]
  /\ vector' = [r \in Rows \cup {NextRow} |-> IF r = NextRow THEN vec ELSE vector[r]]
  /\ active' = active \cup {NextRow}
  /\ plan' = Tail(plan)
  /\ UNCHANGED <<text, last, done, retired, model, run, job>>

\* Mutant: the model of the copied vector is not looked at.
InsertReusingAnyModel ==
  /\ plan # <<>> /\ plan[1][2] = "reuse" /\ Reusable(NextHash)
  /\ \E r \in Rows :
       /\ hash[r] = NextHash
       /\ \A q \in Rows : hash[q] = NextHash => q[1] <= r[1]
       /\ Insert(vector[r])
  /\ tally' = [tally EXCEPT !.reused = @ + 1]

\* The newest vector of this content and model is copied.  Rows one transaction
\* inserted have the same created_at.
InsertReusing ==
  /\ plan # <<>> /\ plan[1][2] = "reuse" /\ Reusable(NextHash)
  /\ \E r \in Rows :
       /\ hash[r] = NextHash /\ vector[r][1] = model
       /\ \A q \in Rows : hash[q] = NextHash /\ vector[q][1] = model => q[1] <= r[1]
       /\ Insert(vector[r])
  /\ tally' = [tally EXCEPT !.reused = @ + 1]

\* New content, or content this model has not embedded: the provider is called.
InsertEmbedding ==
  /\ plan # <<>> /\ ~(plan[1][2] = "reuse" /\ Reusable(NextHash))
  /\ Insert(<<model, NextHash>>)
  /\ tally' = [tally EXCEPT !.embedded = @ + 1]

\* Mutant: the chunks of earlier versions are not deactivated.
CompleteAddingOnly ==
  /\ job # 0 /\ plan = <<>>
  /\ active' = active
  /\ done' = done \cup {job}
  /\ run' = tally
  /\ job' = 0
  /\ tally' = NoCounts
  /\ UNCHANGED <<text, last, retired, hash, vector, model, plan>>

\* complete_indexing.
Complete ==
  /\ job # 0 /\ plan = <<>>
  /\ active' = {r \in Rows : r[1] = job /\ ~retired}
  /\ done' = done \cup {job}
  /\ run' = tally
  /\ job' = 0
  /\ tally' = NoCounts
  /\ UNCHANGED <<text, last, retired, hash, vector, model, plan>>

\* Extraction or the provider raised: the rows written so far stay.
Fail ==
  /\ job # 0 /\ plan # <<>>
  /\ done' = done \cup {job}
  /\ job' = 0 /\ plan' = <<>> /\ tally' = NoCounts
  /\ UNCHANGED <<text, last, retired, hash, active, vector, model, run>>

Next ==
  \/ \E body \in Contents, synced \in BOOLEAN : CreateVersion(body, synced)
  \/ Retire \/ SwitchModel
  \/ PlanVersion \/ InsertReusing \/ InsertEmbedding \/ Complete \/ Fail

Spec == Init /\ [][Next]_vars

-----------------------------------------------------------------------------
(***************************************************************************)
(* Properties.                                                             *)
(***************************************************************************)

\* A vector stored for a chunk is the one its own text has under the model it is
\* filed under, through any chain of copies from version to version; under a job,
\* all rows it has written carry the worker's model.
VectorsAreGenuine ==
  /\ \A r \in Rows : vector[r][2] = hash[r]
  /\ \A r \in Rows : r[1] = job => vector[r][1] = model

\* After a run that completed, the searchable chunks are exactly its version's,
\* in its order, whatever earlier versions, failed runs or removals have left;
\* and the counts it reports account for each chunk and for nothing else.
CompletedRunIsWhole ==
  [][job # 0 /\ plan = <<>> /\ job' = 0 /\ ~retired =>
       /\ active' = {job} \X DOMAIN text[job]
       /\ \A i \in DOMAIN text[job] : hash[<<job, i>>] = text[job][i]
       /\ run'.reused + run'.embedded = Len(text[job])]_vars

\* The provider is never called for a text that was searchable before the run with
\* a vector of the same model: moving a section costs nothing.
UnchangedIsNotEmbedded ==
  [][\A h \in Hashes :
       plan # <<>> /\ tally'.embedded > tally.embedded /\ h = NextHash =>
         ~\E r \in active : r[1] # job /\ hash[r] = h /\ vector[r][1] = model]_vars

\* The chunks reported as retired are those that stop being searchable because
\* their text is gone: no text is reported retired that the run leaves searchable.
RetiredCountIsLoss ==
  [][job # 0 /\ plan = <<>> /\ job' = 0 /\ ~retired =>
       run'.retired = Cardinality({r \in active : hash[r] \notin HashesIn(active')})]_vars
=============================================================================
