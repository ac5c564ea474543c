--------------------------- MODULE DeltaSyncProofs ---------------------------
(***************************************************************************)
(* Proofs about DeltaSync, for every set of hashes, models and contents    *)
(* and any number of versions.                                             *)
(***************************************************************************)
EXTENDS DeltaSync, TLAPS

\* The versions whose job is over or running exist, and a plan belongs to a job.
JobInv ==
  /\ last \in Nat
  /\ done \subseteq 1..last
  /\ job \in 0..last
  /\ job \notin done
  /\ plan # <<>> => job # 0

\* Rows are only written by the jobs of their versions.
RowInv ==
  /\ DOMAIN vector = Rows
  /\ \A r \in Rows : r[1] \in done \cup {job} /\ r[1] # 0

IInv == JobInv /\ RowInv /\ VectorsAreGenuine

LEMMA InitInv == Init => IInv
BY DEF Init, IInv, JobInv, RowInv, VectorsAreGenuine, Rows

\* Inserting a row whose vector is the text's own under the worker's model.
LEMMA InsertInv ==
  ASSUME IInv, plan # <<>>, NEW vec, vec[1] = model, vec[2] = NextHash, Insert(vec)
  PROVE  IInv'
<1> DEFINE row == NextRow
<1>1. row[1] = job
  BY DEF NextRow
<1>2. Rows' = Rows \cup {row} /\ DOMAIN vector' = Rows \cup {row}
  BY DEF Insert, Rows
<1>3. \A r \in Rows' : /\ hash'[r] = IF r = row THEN NextHash ELSE hash[r]
                       /\ vector'[r] = IF r = row THEN vec ELSE vector[r]
  BY <1>2 DEF Insert, Rows
<1>4. UNCHANGED <<last, done, job, model>>
  BY DEF Insert
<1>5. JobInv'
  BY <1>4 DEF IInv, JobInv
<1>6. RowInv'
  BY <1>1, <1>2, <1>4 DEF IInv, JobInv, RowInv
<1>7. VectorsAreGenuine'
  BY <1>1, <1>2, <1>3, <1>4 DEF IInv, VectorsAreGenuine
<1> QED
  BY <1>5, <1>6, <1>7 DEF IInv

\* Every step keeps the invariant.
LEMMA StepInv == IInv /\ [Next]_vars => IInv'
<1> SUFFICES ASSUME IInv, [Next]_vars PROVE IInv'
  OBVIOUS
<1> USE DEF IInv, JobInv, RowInv, VectorsAreGenuine, Rows
<1>1. ASSUME NEW body \in Contents, NEW synced \in BOOLEAN, CreateVersion(body, synced) PROVE IInv'
  BY <1>1 DEF CreateVersion
<1>2. CASE Retire
  <2>1. done' = 1..last /\ UNCHANGED <<last, job, hash, vector, model, plan>> /\ job = 0
    BY <1>2 DEF Retire
  <2>2. JobInv'
    BY <2>1
  <2>3. ASSUME NEW r \in Rows PROVE r[1] \in 1..last /\ r[1] # 0
    <3>1. r[1] \in done \cup {job} /\ r[1] # 0
      OBVIOUS
    <3> QED
      BY <2>1, <3>1
  <2>4. RowInv'
    BY <2>1, <2>3
  <2> QED
    BY <2>1, <2>2, <2>4
<1>3. CASE SwitchModel
  BY <1>3 DEF SwitchModel
<1>4. CASE PlanVersion
  BY <1>4 DEF PlanVersion
<1>5. CASE InsertReusing
  <2>1. PICK r \in Rows : hash[r] = NextHash /\ vector[r][1] = model /\ Insert(vector[r])
    BY <1>5 DEF InsertReusing
  <2>2. vector[r][2] = NextHash
    BY <2>1
  <2> QED
    BY <1>5, <2>1, <2>2, InsertInv DEF InsertReusing
<1>6. CASE InsertEmbedding
  <2>1. plan # <<>> /\ Insert(<<model, NextHash>>)
    BY <1>6 DEF InsertEmbedding
  <2>2. <<model, NextHash>>[1] = model /\ <<model, NextHash>>[2] = NextHash
    OBVIOUS
  <2> QED
    BY <2>1, <2>2, InsertInv
<1>7. CASE Complete
  BY <1>7 DEF Complete
<1>8. CASE Fail
  BY <1>8 DEF Fail
<1>9. CASE UNCHANGED vars
  BY <1>9 DEF vars
<1> QED
  BY <1>1, <1>2, <1>3, <1>4, <1>5, <1>6, <1>7, <1>8, <1>9 DEF Next

\* A stored vector is the one that its chunk's own text has under the model it is
\* filed under (Repository.insert_chunk_reusing_embedding), through any chain of
\* copies, failed runs and switches of the model.
THEOREM VectorsStayGenuine == Spec => []VectorsAreGenuine
<1>1. IInv => VectorsAreGenuine
  BY DEF IInv
<1> QED
  BY InitInv, StepInv, <1>1, PTL DEF Spec

-----------------------------------------------------------------------------
(***************************************************************************)
(* What a job has written, and what it still has to.                       *)
(***************************************************************************)

\* The contents of the versions that exist.
TextInv ==
  /\ text \in [Versions -> Seq(Hashes)]
  /\ last \in 0..MaxVersion

\* Active rows exist; a planned text that is active in another version's row is one
\* to reuse.
PlanInv ==
  /\ plan \in Seq(Hashes \X {"reuse", "embed"})
  /\ active \subseteq Rows
  /\ \A k \in 1..Len(plan), r \in active :
       r[1] # job /\ hash[r] = plan[k][1] => plan[k][2] = "reuse"

\* The counts of the job in progress.
TallyInv ==
  /\ tally = [reused |-> tally.reused, embedded |-> tally.embedded, retired |-> tally.retired]
  /\ tally.reused \in Nat /\ tally.embedded \in Nat

FullInv == IInv /\ TextInv /\ PlanInv /\ TallyInv

LEMMA InitFull == Init => FullInv
<1> SUFFICES ASSUME Init PROVE FullInv
  OBVIOUS
<1>1. IInv
  BY InitInv
<1>2. TextInv
  BY DeltaAssumption DEF Init, TextInv, Versions
<1>3. PlanInv
  BY DEF Init, PlanInv, Rows
<1>4. TallyInv
  BY DEF Init, TallyInv, NoCounts
<1> QED
  BY <1>1, <1>2, <1>3, <1>4 DEF FullInv

\* The rest of a plan is a plan.
LEMMA InsertPlan ==
  ASSUME FullInv, plan # <<>>, NEW vec, Insert(vec)
  PROVE  PlanInv'
<1>1. /\ plan' \in Seq(Hashes \X {"reuse", "embed"})
      /\ Len(plan') = Len(plan) - 1
      /\ \A k \in 1..Len(plan') : plan'[k] = plan[k + 1] /\ k + 1 \in 1..Len(plan)
  BY DEF FullInv, PlanInv, Insert
<1>2. NextRow[1] = job
  BY DEF NextRow
<1>3. active' \subseteq Rows'
  BY DEF FullInv, PlanInv, Insert, Rows
<1>4. ASSUME NEW k \in 1..Len(plan'), NEW r \in active',
             r[1] # job', hash'[r] = plan'[k][1]
      PROVE  plan'[k][2] = "reuse"
  <2>1. r \in active /\ r # NextRow
    BY <1>2, <1>4 DEF Insert
  <2>2. hash'[r] = hash[r]
    BY <2>1 DEF Insert, FullInv, PlanInv, Rows
  <2> QED
    BY <1>1, <1>4, <2>1, <2>2 DEF FullInv, PlanInv, Insert
<1> QED
  BY <1>1, <1>3, <1>4 DEF PlanInv

\* Every step keeps the full invariant.
LEMMA StepFull == FullInv /\ [Next]_vars => FullInv'
<1> SUFFICES ASSUME FullInv, [Next]_vars PROVE TextInv' /\ PlanInv' /\ TallyInv'
  BY StepInv DEF FullInv
<1> USE DEF FullInv
<1>1. ASSUME NEW body \in Contents, NEW synced \in BOOLEAN, CreateVersion(body, synced)
      PROVE  TextInv' /\ PlanInv' /\ TallyInv'
  <2>1. body \in Seq(Hashes)
    BY DeltaAssumption
  <2>2. TextInv'
    BY <1>1, <2>1, DeltaAssumption DEF CreateVersion, TextInv, Versions
  <2> QED
    BY <1>1, <2>2 DEF CreateVersion, PlanInv, TallyInv, Rows
<1>2. CASE Retire
  <2>1. UNCHANGED <<text, last, hash, plan, job, tally>> /\ active' = {}
    BY <1>2 DEF Retire
  <2> QED
    BY <2>1 DEF TextInv, PlanInv, TallyInv, Rows
<1>3. CASE SwitchModel
  BY <1>3 DEF SwitchModel, TextInv, PlanInv, TallyInv, Rows
<1>4. CASE PlanVersion
  <2>1. PICK v \in (1..last) \ done :
          /\ job' = v
          /\ plan' = [i \in DOMAIN text[v] |-> <<text[v][i], Decision(v, i, active)>>]
          /\ tally' = [NoCounts EXCEPT !.retired = Cardinality(Dropped(v, active))]
    BY <1>4 DEF PlanVersion
  <2>2. UNCHANGED <<text, last, hash, active>>
    BY <1>4 DEF PlanVersion
  <2>3. text[v] \in Seq(Hashes)
    BY DeltaAssumption DEF TextInv, Versions
  <2>4. \A i \in DOMAIN text[v] : Decision(v, i, active) \in {"reuse", "embed"}
    BY DEF Decision
  <2>5. plan' \in Seq(Hashes \X {"reuse", "embed"}) /\ Len(plan') = Len(text[v])
    BY <2>1, <2>3, <2>4
  <2>6. ASSUME NEW k \in 1..Len(plan'), NEW r \in active, hash[r] = plan'[k][1]
        PROVE  plan'[k][2] = "reuse"
    <3>1. plan'[k] = <<text[v][k], Decision(v, k, active)>>
      BY <2>1, <2>3, <2>5
    <3>2. text[v][k] \in HashesIn(active)
      BY <2>6, <3>1 DEF HashesIn
    <3> QED
      BY <3>1, <3>2 DEF Decision
  <2>7. PlanInv'
    BY <2>2, <2>5, <2>6 DEF PlanInv, Rows
  <2>8. TallyInv'
    BY <2>1 DEF TallyInv, NoCounts
  <2> QED
    BY <2>2, <2>7, <2>8 DEF TextInv
<1>5. CASE InsertReusing
  <2>1. PICK r \in Rows : Insert(vector[r])
    BY <1>5 DEF InsertReusing
  <2>2. PlanInv'
    BY <1>5, <2>1, InsertPlan DEF InsertReusing
  <2>3. TextInv'
    BY <2>1 DEF Insert, TextInv
  <2>4. TallyInv'
    BY <1>5 DEF InsertReusing, TallyInv
  <2> QED
    BY <2>2, <2>3, <2>4
<1>6. CASE InsertEmbedding
  <2>1. PlanInv'
    BY <1>6, InsertPlan DEF InsertEmbedding
  <2>2. TextInv'
    BY <1>6 DEF InsertEmbedding, Insert, TextInv
  <2>3. TallyInv'
    BY <1>6 DEF InsertEmbedding, TallyInv
  <2> QED
    BY <2>1, <2>2, <2>3
<1>7. CASE Complete
  BY <1>7 DEF Complete, TextInv, PlanInv, TallyInv, NoCounts, Rows
<1>8. CASE Fail
  BY <1>8 DEF Fail, TextInv, PlanInv, TallyInv, NoCounts, Rows
<1>9. CASE UNCHANGED vars
  BY <1>9 DEF vars, TextInv, PlanInv, TallyInv, Rows
<1> QED
  BY <1>1, <1>2, <1>3, <1>4, <1>5, <1>6, <1>7, <1>8, <1>9 DEF Next

\* A text that was searchable before the run with a vector of the worker's model is
\* never sent to the embedding provider (process_next_job with plan_delta_sync and
\* has_reusable_embedding): the plan says reuse, and the active row is a row to copy.
THEOREM UnchangedIsReused == Spec => UnchangedIsNotEmbedded
<1> DEFINE Calls == \A h \in Hashes :
              plan # <<>> /\ tally'.embedded > tally.embedded /\ h = NextHash =>
                ~\E r \in active : r[1] # job /\ hash[r] = h /\ vector[r][1] = model
<1>1. FullInv /\ [Next]_vars => [Calls]_vars
  <2> SUFFICES ASSUME FullInv, Next, NEW h \in Hashes, plan # <<>>,
                      tally'.embedded > tally.embedded, h = NextHash,
                      NEW r \in active, r[1] # job, hash[r] = h, vector[r][1] = model
               PROVE  FALSE
    OBVIOUS
  <2>1. job # 0
    BY DEF FullInv, IInv, JobInv
  <2>2. InsertReusing \/ InsertEmbedding \/ Fail
    BY <2>1 DEF Next, CreateVersion, Retire, SwitchModel, PlanVersion, Complete
  <2>3. InsertEmbedding
    BY <2>2 DEF FullInv, TallyInv, InsertReusing, Fail, NoCounts
  <2>4. Reusable(NextHash)
    BY DEF FullInv, PlanInv, Reusable
  <2>5. plan[1][2] = "reuse"
    BY DEF FullInv, PlanInv, NextHash
  <2> QED
    BY <2>3, <2>4, <2>5 DEF InsertEmbedding
<1> QED
  BY InitFull, StepFull, <1>1, PTL DEF Spec, UnchangedIsNotEmbedded
-----------------------------------------------------------------------------
(***************************************************************************)
(* What a run that completes leaves, and what it reports.                  *)
(***************************************************************************)

\* How many chunks the job has written.
Written == Len(text[job]) - Len(plan)

\* The rows of the job are the chunks written so far, each counted once; the plan is
\* the rest; the retired count is that of the active rows the version does without.
ProgressInv ==
  job # 0 =>
    /\ Written \in Nat
    /\ \A k \in 1..Len(plan) : plan[k][1] = text[job][Written + k]
    /\ {r \in Rows : r[1] = job} = {job} \X (1..Written)
    /\ {r \in active : r[1] = job} = {job} \X (1..Written)
    /\ \A i \in 1..Written : hash[<<job, i>>] = text[job][i]
    /\ tally.reused + tally.embedded = Written
    /\ tally.retired = Cardinality(Dropped(job, active))

RunInv == FullInv /\ ProgressInv

\* A planned run starts with nothing written.
LEMMA PlanProgress == FullInv /\ PlanVersion => ProgressInv'
<1> SUFFICES ASSUME FullInv, PlanVersion PROVE ProgressInv'
  OBVIOUS
<1>1. PICK v \in (1..last) \ done :
        /\ job' = v
        /\ plan' = [i \in DOMAIN text[v] |-> <<text[v][i], Decision(v, i, active)>>]
        /\ tally' = [NoCounts EXCEPT !.retired = Cardinality(Dropped(v, active))]
  BY DEF PlanVersion
<1>2. job = 0 /\ UNCHANGED <<text, hash, active>>
  BY DEF PlanVersion
<1>3. text[v] \in Seq(Hashes)
  BY DeltaAssumption DEF FullInv, TextInv, Versions
<1>4. Len(plan') = Len(text[v]) /\ Written' = 0
  BY <1>1, <1>2, <1>3 DEF Written
<1>5. \A r \in Rows : r[1] # v
  BY <1>2 DEF FullInv, IInv, JobInv, RowInv
<1>6. active \subseteq Rows
  BY DEF FullInv, PlanInv
<1>7. \A k \in 1..Len(plan') : plan'[k][1] = text'[v][Written' + k]
  BY <1>1, <1>2, <1>3, <1>4
<1>8. {v} \X (1..0) = {}
  OBVIOUS
<1>9. Dropped(v, active)' = Dropped(v, active)
  BY <1>2 DEF Dropped, HashesOf
<1>10. tally'.reused = 0 /\ tally'.embedded = 0 /\ tally'.retired = Cardinality(Dropped(v, active))
  BY <1>1 DEF NoCounts
<1> QED
  BY <1>1, <1>2, <1>4, <1>5, <1>6, <1>7, <1>8, <1>9, <1>10 DEF ProgressInv, Rows, Dropped, HashesOf

\* A written chunk is the next one of the version, and is counted.
LEMMA InsertProgress ==
  ASSUME RunInv, plan # <<>>, NEW vec, Insert(vec),
         tally'.reused + tally'.embedded = tally.reused + tally.embedded + 1,
         tally'.retired = tally.retired
  PROVE  ProgressInv'
<1> DEFINE n == Written
<1>1. job # 0 /\ n \in Nat
  BY DEF RunInv, FullInv, IInv, JobInv, ProgressInv
<1>2. text[job] \in Seq(Hashes) /\ plan \in Seq(Hashes \X {"reuse", "embed"})
  BY <1>1, DeltaAssumption DEF RunInv, FullInv, IInv, JobInv, TextInv, PlanInv, Versions
<1>3. /\ Len(plan') = Len(plan) - 1
      /\ \A k \in 1..Len(plan') : plan'[k] = plan[k + 1] /\ k + 1 \in 1..Len(plan)
  BY <1>2 DEF Insert
<1>4. job' = job /\ text' = text
  BY DEF Insert
<1>5. Written' = n + 1 /\ n + 1 \in 1..Len(text[job])
  BY <1>1, <1>2, <1>3, <1>4 DEF Written
<1>6. NextRow = <<job, n + 1>>
  BY DEF NextRow, Written
<1>7. NextHash = text[job][n + 1]
  BY <1>1, <1>2 DEF NextHash, RunInv, ProgressInv
<1>8. {job} \X (1..(n + 1)) = ({job} \X (1..n)) \cup {<<job, n + 1>>}
  BY <1>1
<1>9. {r \in Rows' : r[1] = job} = {job} \X (1..(n + 1))
  BY <1>1, <1>6, <1>8 DEF Insert, Rows, RunInv, ProgressInv
<1>10. {r \in active' : r[1] = job} = {job} \X (1..(n + 1))
  BY <1>1, <1>6, <1>8 DEF Insert, RunInv, ProgressInv
<1>11. ASSUME NEW i \in 1..(n + 1) PROVE hash'[<<job, i>>] = text[job][i]
  <2>1. CASE i = n + 1
    BY <1>6, <1>7, <2>1 DEF Insert
  <2>2. CASE i # n + 1
    <3>1. i \in 1..n /\ <<job, i>> \in {job} \X (1..n) /\ <<job, i>> # NextRow
      BY <1>1, <1>6, <2>2
    <3>2. <<job, i>> \in Rows /\ hash[<<job, i>>] = text[job][i]
      BY <1>1, <3>1 DEF RunInv, ProgressInv
    <3> QED
      BY <3>1, <3>2 DEF Insert, Rows
  <2> QED
    BY <2>1, <2>2
<1>12. ASSUME NEW k \in 1..Len(plan') PROVE plan'[k][1] = text[job][Written' + k]
  <2>1. plan'[k] = plan[k + 1] /\ k + 1 \in 1..Len(plan)
    BY <1>3
  <2>2. plan[k + 1][1] = text[job][n + (k + 1)]
    BY <1>1, <2>1 DEF RunInv, ProgressInv
  <2>3. n + (k + 1) = Written' + k
    BY <1>1, <1>3, <1>5
  <2> QED
    BY <2>1, <2>2, <2>3
<1>13. Dropped(job, active)' = Dropped(job, active)
  <2>1. NextHash \in HashesOf(text[job])
    BY <1>2, <1>5, <1>7 DEF HashesOf
  <2>2. hash'[NextRow] = NextHash
    BY DEF Insert
  <2>3. \A r \in active : r # NextRow => hash'[r] = hash[r]
    BY DEF Insert, Rows, RunInv, FullInv, PlanInv
  <2>4. NextRow \notin active
    BY <1>1, <1>6 DEF RunInv, ProgressInv, NextRow
  <2>5. active' = active \cup {NextRow}
    BY DEF Insert
  <2> QED
    BY <1>4, <2>1, <2>2, <2>3, <2>4, <2>5 DEF Dropped, HashesOf
<1>14. tally'.reused + tally'.embedded = n + 1
  BY <1>1 DEF RunInv, ProgressInv
<1>15. tally'.retired = Cardinality(Dropped(job, active)')
  BY <1>1, <1>13 DEF RunInv, ProgressInv
<1>16. Written' \in Nat
  BY <1>1, <1>5
<1>17. /\ {r \in Rows' : r[1] = job'} = {job'} \X (1..Written')
       /\ {r \in active' : r[1] = job'} = {job'} \X (1..Written')
  BY <1>4, <1>5, <1>9, <1>10
<1>18. \A i \in 1..Written' : hash'[<<job', i>>] = text'[job'][i]
  BY <1>4, <1>5, <1>11
<1>19. \A k \in 1..Len(plan') : plan'[k][1] = text'[job'][Written' + k]
  BY <1>4, <1>12
<1>20. tally'.reused + tally'.embedded = Written'
  BY <1>5, <1>14
<1> QED
  BY <1>15, <1>16, <1>17, <1>18, <1>19, <1>20 DEF ProgressInv

\* Every step keeps what a run is owed.
LEMMA StepRun == RunInv /\ [Next]_vars => RunInv'
<1> SUFFICES ASSUME RunInv, [Next]_vars PROVE ProgressInv'
  BY StepFull DEF RunInv
<1>1. job = 0 /\ job' = 0 => ProgressInv'
  BY DEF ProgressInv
<1>2. ASSUME NEW body \in Contents, NEW synced \in BOOLEAN, CreateVersion(body, synced)
      PROVE  ProgressInv'
  BY <1>1, <1>2 DEF CreateVersion
<1>3. CASE Retire
  BY <1>1, <1>3 DEF Retire
<1>4. CASE SwitchModel
  BY <1>1, <1>4 DEF SwitchModel
<1>5. CASE PlanVersion
  BY <1>5, PlanProgress DEF RunInv
<1>6. CASE InsertReusing
  <2>1. PICK r \in Rows : Insert(vector[r])
    BY <1>6 DEF InsertReusing
  <2>2. /\ tally'.reused = tally.reused + 1
        /\ tally'.embedded = tally.embedded
        /\ tally'.retired = tally.retired
    BY <1>6 DEF InsertReusing, RunInv, FullInv, TallyInv
  <2>3. tally'.reused + tally'.embedded = tally.reused + tally.embedded + 1
    BY <2>2 DEF RunInv, FullInv, TallyInv
  <2> QED
    BY <1>6, <2>1, <2>2, <2>3, InsertProgress DEF InsertReusing
<1>7. CASE InsertEmbedding
  <2>1. /\ tally'.embedded = tally.embedded + 1
        /\ tally'.reused = tally.reused
        /\ tally'.retired = tally.retired
    BY <1>7 DEF InsertEmbedding, RunInv, FullInv, TallyInv
  <2>2. tally'.reused + tally'.embedded = tally.reused + tally.embedded + 1
    BY <2>1 DEF RunInv, FullInv, TallyInv
  <2> QED
    BY <1>7, <2>1, <2>2, InsertProgress DEF InsertEmbedding
<1>8. CASE Complete
  BY <1>8 DEF Complete, ProgressInv
<1>9. CASE Fail
  BY <1>9 DEF Fail, ProgressInv
<1>10. CASE UNCHANGED vars
  BY <1>10 DEF vars, RunInv, ProgressInv, Written, Dropped, HashesOf, Rows
<1> QED
  BY <1>2, <1>3, <1>4, <1>5, <1>6, <1>7, <1>8, <1>9, <1>10 DEF Next

\* A step that ends a job with its plan written is complete_indexing.
LEMMA OnlyCompleteEnds ==
  ASSUME RunInv, [Next]_vars, job # 0, plan = <<>>, job' = 0
  PROVE  Complete
BY DEF Next, vars, CreateVersion, Retire, SwitchModel, PlanVersion, InsertReusing, InsertEmbedding, Fail

\* What is known of a job whose plan is written.
LEMMA AllWritten ==
  ASSUME RunInv, job # 0, plan = <<>>
  PROVE  /\ text[job] \in Seq(Hashes)
         /\ Written = Len(text[job])
         /\ {r \in Rows : r[1] = job} = {job} \X DOMAIN text[job]
         /\ \A i \in DOMAIN text[job] : hash[<<job, i>>] = text[job][i]
<1>1. text[job] \in Seq(Hashes)
  BY DeltaAssumption DEF RunInv, FullInv, IInv, JobInv, TextInv, Versions
<1>2. DOMAIN text[job] = 1..Len(text[job]) /\ Written = Len(text[job])
  BY <1>1 DEF Written
<1> QED
  BY <1>1, <1>2 DEF RunInv, ProgressInv

\* A run that completed leaves exactly its version searchable, in its order, and its
\* counts account for every chunk (process_next_job, complete_indexing).
THEOREM CompletedRunsAreWhole == Spec => CompletedRunIsWhole
<1> DEFINE Whole == job # 0 /\ plan = <<>> /\ job' = 0 /\ ~retired =>
              /\ active' = {job} \X DOMAIN text[job]
              /\ \A i \in DOMAIN text[job] : hash[<<job, i>>] = text[job][i]
              /\ run'.reused + run'.embedded = Len(text[job])
<1>1. RunInv /\ [Next]_vars => [Whole]_vars
  <2> SUFFICES ASSUME RunInv, [Next]_vars, job # 0, plan = <<>>, job' = 0, ~retired
               PROVE  Whole
    OBVIOUS
  <2>1. Complete
    BY OnlyCompleteEnds
  <2>2. active' = {r \in Rows : r[1] = job} /\ run' = tally
    BY <2>1 DEF Complete
  <2>3. tally.reused + tally.embedded = Written
    BY DEF RunInv, ProgressInv
  <2> QED
    BY <2>2, <2>3, AllWritten
<1>2. Init => RunInv
  BY InitFull DEF Init, RunInv, ProgressInv
<1> QED
  BY <1>1, <1>2, StepRun, PTL DEF Spec, CompletedRunIsWhole

\* The retired count of a run that completed is that of the chunks whose text it has
\* taken out of search (plan_delta_sync, complete_indexing).
THEOREM RetiredCountIsExact == Spec => RetiredCountIsLoss
<1> DEFINE Exact == job # 0 /\ plan = <<>> /\ job' = 0 /\ ~retired =>
              run'.retired = Cardinality({r \in active : hash[r] \notin HashesIn(active')})
<1>1. RunInv /\ [Next]_vars => [Exact]_vars
  <2> SUFFICES ASSUME RunInv, [Next]_vars, job # 0, plan = <<>>, job' = 0, ~retired
               PROVE  run'.retired = Cardinality({r \in active : hash[r] \notin HashesIn(active')})
    OBVIOUS
  <2>1. Complete
    BY OnlyCompleteEnds
  <2>2. active' = {job} \X DOMAIN text[job] /\ run' = tally
    BY <2>1, AllWritten DEF Complete
  <2>3. HashesIn(active') = HashesOf(text[job])
    <3>1. \A i \in DOMAIN text[job] : <<job, i>> \in active' /\ hash[<<job, i>>] = text[job][i]
      BY <2>2, AllWritten
    <3>2. \A r \in active' : \E i \in DOMAIN text[job] : r = <<job, i>>
      BY <2>2
    <3>3. HashesIn(active') = {hash[r] : r \in active'}
      BY DEF HashesIn
    <3>4. HashesOf(text[job]) = {text[job][i] : i \in DOMAIN text[job]}
      BY DEF HashesOf
    <3>5. \A r \in active' : \E i \in DOMAIN text[job] : hash[r] = text[job][i]
      BY <3>1, <3>2
    <3>6. \A i \in DOMAIN text[job] : \E r \in active' : hash[r] = text[job][i]
      BY <3>1
    <3> QED
      BY <3>3, <3>4, <3>5, <3>6
  <2>4. {r \in active : hash[r] \notin HashesIn(active')} = Dropped(job, active)
    BY <2>3 DEF Dropped
  <2> QED
    BY <2>2, <2>4 DEF RunInv, ProgressInv
<1>2. Init => RunInv
  BY InitFull DEF Init, RunInv, ProgressInv
<1> QED
  BY <1>1, <1>2, StepRun, PTL DEF Spec, RetiredCountIsLoss
=============================================================================
