-------------------------- MODULE OutlineSyncProofs --------------------------
(***************************************************************************)
(* Proofs about OutlineSync, for any number of pages, collections and      *)
(* background tasks, every page size, and any number of changes and of     *)
(* failing requests.                                                       *)
(***************************************************************************)
EXTENDS OutlineSync, RankingProofs

\* What a background task or the backfill holds of a page.
Fetched == [doc: Docs, snap: Snapshot]

Task == {NoTask} \cup [place: {"sync", "retire"}, doc: Docs]
                 \cup [place: {"ingest"}, doc: Docs, snap: Snapshot]

Backfill ==
  [place: {"idle", "list", "items", "fetch", "ingest", "prune", "retire"},
   todo: SUBSET Targets, at: Targets \cup {{}}, offset: Nat, more: BOOLEAN,
   page: SUBSET [doc: Docs, coll: Collections, time: Times],
   seen: SUBSET Docs, failed: BOOLEAN, gone: SUBSET Docs,
   item: SUBSET (Docs \cup Fetched)]

TypeOK ==
  /\ wiki \in [Docs -> Snapshot] /\ listed \subseteq Docs /\ changes \in 0..MaxChanges
  /\ events \subseteq {"sync", "retire"} \X Docs
  /\ task \in [Tasks -> Task]
  /\ synced \in [Docs -> Snapshot] /\ known \subseteq Docs /\ retired \subseteq Docs
  /\ bf \in Backfill
  /\ bf.place = "fetch" => bf.item \subseteq Docs
  /\ bf.place = "ingest" => bf.item \subseteq Fetched
  /\ failures \in Nat /\ calm \in BOOLEAN /\ steady \subseteq Docs

\* The wiki's clock: no two pages are of one age, and a change is later than all.
ClockInv ==
  /\ \A d, e \in Docs : d # e => wiki[d].time # wiki[e].time
  /\ \A d \in Docs : wiki[d].time <= Cardinality(Docs) + changes

\* A snapshot that is not newer than its page, and is the page's text if it is as new.
Honest(d, snap) ==
  /\ snap.time <= wiki[d].time
  /\ snap.time = wiki[d].time => snap.body = wiki[d].body

\* Every snapshot that is stored or on its way is honest.
SnapInv ==
  /\ \A d \in Docs : Honest(d, synced[d])
  /\ \A t \in Tasks : task[t].place = "ingest" => Honest(task[t].doc, task[t].snap)
  /\ bf.place = "ingest" => \A x \in bf.item : Honest(x.doc, x.snap)

Inv == TypeOK /\ ClockInv /\ SnapInv

\* What the index must have of a page.
Stored(d) == wiki[d].body # NoText => d \in known \ retired /\ synced[d] = wiki[d]

\* The page that the backfill is about to ingest.
Pending(d) ==
  \/ bf.place = "fetch" /\ bf.item = {d}
  \/ bf.place = "ingest" /\ bf.item = {[doc |-> d, snap |-> wiki[d]]}

InTarget(d, target) == target = {} \/ wiki[d].coll \in target

\* Pages the backfill has still to come to: in the page it works on, in the rest of
\* the listing, or in a collection it has not begun.
Ahead(d) ==
  \/ \E x \in bf.page : x.doc = d
  \/ d \in ListingAt /\ (bf.place = "list" \/ bf.more) /\ Position(d) >= bf.offset
  \/ \E target \in bf.todo : InTarget(d, target)

Working == bf.place \in {"list", "items", "fetch", "ingest"}

Quiet ==
  /\ bf.place # "idle" /\ bf.at \in Targets
  /\ events = {} /\ \A t \in Tasks : task[t].place = "idle"

\* The page that the backfill works on is still what the wiki lists.
PageInv ==
  /\ bf.place = "list" => bf.page = {}
  /\ \A x \in bf.page : x.doc \in Listing /\ x.coll = wiki[x.doc].coll /\ x.time = wiki[x.doc].time

\* What has been seen is stored, or is just being stored, unless the run has failed.
SeenInv ==
  /\ bf.seen \subseteq Listing
  /\ bf.place \in {"fetch", "ingest"} => \E d \in bf.seen : Pending(d)
  /\ ~bf.failed => \A d \in bf.seen : Stored(d) \/ Pending(d)

\* No page is left out.
CoverInv ==
  /\ Working => \A d \in Listing \ bf.seen : Ahead(d)
  /\ ~Working => Listing \subseteq bf.seen

\* The prune has yet to retire what is served and has not been seen, and nothing else.
PruneInv ==
  bf.place = "retire" =>
    /\ ~bf.failed
    /\ bf.gone \subseteq known \ bf.seen
    /\ Served \subseteq bf.seen \cup bf.gone

\* What holds of a backfill that nothing has disturbed.
Undisturbed == Quiet /\ PageInv /\ SeenInv /\ CoverInv /\ PruneInv

IInv == Inv /\ (calm => Undisturbed)

-----------------------------------------------------------------------------
(***************************************************************************)
(* Typing.                                                                 *)
(***************************************************************************)

LEMMA Bounds == Cardinality(Docs) \in Nat /\ MaxChanges \in Nat /\ PageSize \in Nat \ {0}
BY ConfigAssumption, FS_CardinalityType

LEMMA Shapes ==
  /\ NoTask \in Task /\ NoBackfill \in Backfill
  /\ \A x \in Task :
       /\ x.place \in {"idle", "sync", "retire", "ingest"}
       /\ x.place \in {"sync", "retire"} => x.doc \in Docs
       /\ x.place = "ingest" => x.doc \in Docs /\ x.snap \in Snapshot
  /\ \A d \in Docs :
       /\ \A e \in {"sync", "retire"} : [place |-> e, doc |-> d] \in Task
       /\ \A s \in Snapshot : [place |-> "ingest", doc |-> d, snap |-> s] \in Task
<1>1. NoBackfill \in Backfill
  BY DEF NoBackfill, Backfill
<1>2. NoTask \in Task
  BY DEF Task
<1>3. \A x \in Task :
        /\ x.place \in {"idle", "sync", "retire", "ingest"}
        /\ x.place \in {"sync", "retire"} => x.doc \in Docs
        /\ x.place = "ingest" => x.doc \in Docs /\ x.snap \in Snapshot
  BY DEF Task, NoTask
<1>4. \A d \in Docs :
        /\ \A e \in {"sync", "retire"} : [place |-> e, doc |-> d] \in Task
        /\ \A s \in Snapshot : [place |-> "ingest", doc |-> d, snap |-> s] \in Task
  BY DEF Task
<1> QED
  BY <1>1, <1>2, <1>3, <1>4

\* A wiki's pages can be told apart by their age.
LEMMA AgeExists == Age \in [Docs -> 1..Cardinality(Docs)] /\ \A d, e \in Docs : d # e => Age[d] # Age[e]
<1>1. ExistsBijection(Docs, 1..Cardinality(Docs))
  BY ConfigAssumption, FS_CardinalityType, Fun_ExistsBijSymmetric
<1>2. PICK f \in [Docs -> 1..Cardinality(Docs)] : \A d, e \in Docs : d # e => f[d] # f[e]
  BY <1>1 DEF ExistsBijection, Bijection, Injection, IsInjective
<1> QED
  BY <1>2 DEF Age

LEMMA InitInv == Init => Inv
<1> SUFFICES ASSUME Init PROVE Inv
  OBVIOUS
<1>1. /\ wiki \in [Docs -> Snapshot] /\ \A d \in Docs : wiki[d].time = Age[d]
      /\ synced = wiki /\ events = {} /\ task = [t \in Tasks |-> NoTask] /\ bf = NoBackfill
      /\ changes = 0 /\ listed \subseteq Docs
  BY DEF Init
<1>2. TypeOK
  <2>1. bf \in Backfill /\ bf.place = "idle" /\ task \in [Tasks -> Task]
    BY <1>1, Shapes DEF NoBackfill
  <2>2. calm \in BOOLEAN
    BY DEF Init
  <2>3. changes \in 0..MaxChanges /\ failures \in Nat
    BY <1>1, Bounds DEF Init
  <2>4. known \subseteq Docs /\ retired \subseteq Docs /\ steady \subseteq Docs
        /\ events \subseteq {"sync", "retire"} \X Docs
    BY <1>1 DEF Init
  <2> QED
    BY <1>1, <2>1, <2>2, <2>3, <2>4 DEF TypeOK
<1>3. ClockInv
  BY <1>1, AgeExists, Bounds DEF ClockInv
<1>4. SnapInv
  <2>1. bf.place = "idle" /\ \A t \in Tasks : task[t].place = "idle"
    BY <1>1 DEF NoBackfill, NoTask
  <2>2. \A d \in Docs : synced[d].time \in Int
    BY <1>1, Bounds DEF Snapshot, Times
  <2> QED
    BY <1>1, <2>1, <2>2 DEF SnapInv, Honest
<1> QED
  BY <1>2, <1>3, <1>4 DEF Inv

-----------------------------------------------------------------------------
(***************************************************************************)
(* The wiki.                                                               *)
(***************************************************************************)

\* A page may change as long as its age tells.
LEMMA HonestStays ==
  ASSUME Inv, wiki' \in [Docs -> Snapshot],
         \A d \in Docs : \/ wiki'[d].time = wiki[d].time /\ wiki'[d].body = wiki[d].body
                         \/ wiki'[d].time > wiki[d].time,
         UNCHANGED <<task, synced, bf>>
  PROVE  SnapInv'
<1>1. \A d \in Docs : wiki[d].time \in Int /\ wiki'[d].time \in Int
  BY Bounds DEF Inv, TypeOK, Snapshot, Times
<1>2. ASSUME NEW d \in Docs, NEW s \in Snapshot, Honest(d, s) PROVE Honest(d, s)'
  <2>1. s.time \in Int
    BY Bounds DEF Snapshot, Times
  <2> QED
    BY <1>1, <1>2, <2>1 DEF Honest
<1>3. \A d \in Docs : Honest(d, synced[d])'
  BY <1>2 DEF Inv, TypeOK, SnapInv
<1>4. ASSUME NEW t \in Tasks, task[t].place = "ingest" PROVE Honest(task[t].doc, task[t].snap)'
  BY <1>2, <1>4, Shapes DEF Inv, TypeOK, SnapInv
<1>5. ASSUME bf.place = "ingest", NEW x \in bf.item PROVE Honest(x.doc, x.snap)'
  BY <1>2, <1>5 DEF Inv, TypeOK, SnapInv, Fetched
<1> QED
  BY <1>3, <1>4, <1>5 DEF SnapInv, Honest

LEMMA ChangeInv ==
  ASSUME Inv, NEW d \in Docs,
         \/ \E b \in Bodies : Edit(d, b)
         \/ \E c \in Collections : Move(d, c)
         \/ Remove(d) \/ Publish(d)
  PROVE  Inv'
<1>1. /\ wiki \in [Docs -> Snapshot] /\ changes \in Nat /\ Cardinality(Docs) \in Nat
      /\ \A e \in Docs : wiki[e] \in Snapshot /\ wiki[e].time \in Int
      /\ MaxChanges \in Nat
  BY Bounds DEF Inv, TypeOK, Snapshot, Times
<1>2. PICK effect \in {"sync", "retire"} : Change(d, effect)
  BY DEF Edit, Move, Remove, Publish
<1>3. /\ changes' = changes + 1 /\ changes < MaxChanges
      /\ events' \subseteq {"sync", "retire"} \X Docs /\ calm' \in BOOLEAN
      /\ UNCHANGED <<task, dbVars, bf, failures>>
  <2>1. events \subseteq {"sync", "retire"} \X Docs /\ <<effect, d>> \in {"sync", "retire"} \X Docs
    BY DEF Inv, TypeOK
  <2>2. calm' \in BOOLEAN
    BY <1>2 DEF Change
  <2> QED
    BY <1>2, <2>1, <2>2 DEF Change
<1>4. listed' \subseteq Docs /\ steady' \subseteq Docs
  BY DEF Edit, Move, Remove, Publish, Inv, TypeOK
<1>5. /\ wiki' \in [Docs -> Snapshot]
      /\ \A e \in Docs \ {d} : wiki'[e] = wiki[e]
      /\ \/ wiki'[d].time = wiki[d].time /\ wiki'[d].body = wiki[d].body
         \/ wiki'[d].time = Cardinality(Docs) + changes + 1
  <2>1. CASE \E b \in Bodies : Edit(d, b)
    <3>1. PICK b \in Bodies : wiki' = [wiki EXCEPT ![d] =
                                 [wiki[d] EXCEPT !.body = b, !.time = Cardinality(Docs) + changes + 1]]
      BY <1>1, <2>1 DEF Edit, Snapshot
    <3>2. Cardinality(Docs) + changes + 1 \in Times
      BY <1>1, <1>3 DEF Times
    <3> QED
      BY <1>1, <3>1, <3>2 DEF Snapshot
  <2>2. CASE \E c \in Collections : Move(d, c)
    <3>1. PICK c \in Collections : wiki' = [wiki EXCEPT ![d] = [wiki[d] EXCEPT !.coll = c]]
      BY <1>1, <2>2 DEF Move, Snapshot
    <3> QED
      BY <1>1, <3>1 DEF Snapshot
  <2>3. CASE Remove(d) \/ Publish(d)
    BY <1>1, <2>3 DEF Remove, Publish
  <2> QED
    BY <2>1, <2>2, <2>3
<1>6. TypeOK'
  <2>1. changes' \in 0..MaxChanges
    BY <1>1, <1>3
  <2> QED
    BY <1>3, <1>4, <1>5, <2>1 DEF Inv, TypeOK, dbVars
<1>7. ClockInv'
  <2>1. \A e \in Docs : wiki[e].time <= Cardinality(Docs) + changes
    BY DEF Inv, ClockInv
  <2>2. \A e \in Docs : wiki'[e].time <= Cardinality(Docs) + changes'
    BY <1>1, <1>3, <1>5, <2>1
  <2>3. \A e \in Docs \ {d} : wiki'[e].time # wiki'[d].time
    BY <1>1, <1>5, <2>1 DEF Inv, ClockInv
  <2>4. \A e, g \in Docs \ {d} : e # g => wiki'[e].time # wiki'[g].time
    BY <1>5 DEF Inv, ClockInv
  <2> QED
    BY <2>2, <2>3, <2>4 DEF ClockInv
<1>8. SnapInv'
  <2>1. \A e \in Docs : \/ wiki'[e].time = wiki[e].time /\ wiki'[e].body = wiki[e].body
                        \/ wiki'[e].time > wiki[e].time
    BY <1>1, <1>5 DEF Inv, ClockInv
  <2> QED
    BY <1>3, <1>5, <2>1, HonestStays DEF dbVars
<1> QED
  BY <1>6, <1>7, <1>8 DEF Inv

-----------------------------------------------------------------------------
(***************************************************************************)
(* Webhooks and their tasks.                                               *)
(***************************************************************************)

LEMMA IngestEffect ==
  ASSUME Inv, NEW d \in Docs, NEW snap \in Snapshot, Ingest(d, snap)
  PROVE  /\ synced' \in [Docs -> Snapshot] /\ known' \subseteq Docs /\ retired' \subseteq Docs
         /\ \A e \in Docs \ {d} : synced'[e] = synced[e]
         /\ synced'[d] \in {synced[d], snap}
         /\ snap.body # NoText => d \in known' \ retired' /\ synced'[d] = snap
         /\ known \subseteq known' /\ known' \subseteq known \cup {d}
         /\ retired' \subseteq retired /\ retired \subseteq retired' \cup {d}
BY DEF Ingest, dbVars, Inv, TypeOK

LEMMA RetireEffect ==
  ASSUME Inv, NEW d \in Docs, RetirePage(d)
  PROVE  /\ UNCHANGED <<synced, known>> /\ retired' \subseteq Docs
         /\ retired \subseteq retired' /\ retired' \subseteq retired \cup {d}
         /\ d \in known => d \in retired'
BY DEF RetirePage, Inv, TypeOK

\* A step of one task, which may store what it holds.
LEMMA TaskFrame ==
  ASSUME Inv, NEW t \in Tasks, NEW x \in Task, task' = [task EXCEPT ![t] = x],
         x.place = "ingest" => Honest(x.doc, x.snap),
         synced' \in [Docs -> Snapshot], known' \subseteq Docs, retired' \subseteq Docs,
         \A d \in Docs : Honest(d, synced'[d]),
         events' \subseteq events, calm' \in BOOLEAN,
         UNCHANGED <<wikiVars, bf, failures, steady>>
  PROVE  Inv'
<1>1. /\ task' \in [Tasks -> Task] /\ task'[t] = x
      /\ \A u \in Tasks \ {t} : task'[u] = task[u]
      /\ UNCHANGED <<wiki, listed, changes>>
  BY DEF Inv, TypeOK, wikiVars
<1>2. TypeOK'
  BY <1>1 DEF Inv, TypeOK
<1>3. ClockInv'
  BY <1>1 DEF Inv, ClockInv
<1>4. SnapInv'
  BY <1>1 DEF Inv, SnapInv, Honest
<1> QED
  BY <1>2, <1>3, <1>4 DEF Inv

LEMMA EventInv ==
  ASSUME Inv, NEW e \in events, Lose(e) \/ \E t \in Tasks, again \in BOOLEAN : Deliver(e, t, again)
  PROVE  Inv'
<1>1. e \in {"sync", "retire"} \X Docs /\ \A d \in Docs : Honest(d, synced[d])
  BY DEF Inv, TypeOK, SnapInv
<1>2. CASE Lose(e)
  <2>1. TypeOK'
    BY <1>2 DEF Lose, Inv, TypeOK, wikiVars, dbVars
  <2>2. ClockInv' /\ SnapInv'
    BY <1>2 DEF Lose, Inv, ClockInv, SnapInv, Honest, wikiVars, dbVars
  <2> QED
    BY <2>1, <2>2 DEF Inv
<1>3. ASSUME NEW t \in Tasks, NEW again \in BOOLEAN, Deliver(e, t, again) PROVE Inv'
  <2> DEFINE x == [place |-> e[1], doc |-> e[2]]
  <2>1. x \in Task /\ x.place # "ingest"
    BY <1>1, Shapes
  <2>2. /\ task' = [task EXCEPT ![t] = x] /\ events' \subseteq events
        /\ UNCHANGED <<wikiVars, dbVars, bf, failures, steady>>
    BY <1>3 DEF Deliver
  <2>3. calm' \in BOOLEAN
    BY <1>3 DEF Deliver
  <2>4. synced' \in [Docs -> Snapshot] /\ known' \subseteq Docs /\ retired' \subseteq Docs
        /\ \A d \in Docs : Honest(d, synced'[d])
    BY <1>1, <2>2 DEF Inv, TypeOK, dbVars
  <2> HIDE DEF x
  <2> QED
    BY <2>1, <2>2, <2>3, <2>4, TaskFrame
<1> QED
  BY <1>2, <1>3

LEMMA TaskInv ==
  ASSUME Inv, NEW t \in Tasks, TaskStep(t)
  PROVE  Inv'
<1>1. /\ task[t] \in Task /\ NoTask \in Task /\ NoTask.place # "ingest"
      /\ \A d \in Docs : Honest(d, synced[d])
      /\ synced \in [Docs -> Snapshot] /\ known \subseteq Docs /\ retired \subseteq Docs
      /\ wiki \in [Docs -> Snapshot]
  BY Shapes DEF Inv, TypeOK, SnapInv, NoTask
<1>2. calm \in BOOLEAN
  BY DEF Inv, TypeOK
<1>3. CASE FetchForTask(t)
  <2> DEFINE d == task[t].doc
             x == IF d \in listed THEN [place |-> "ingest", doc |-> d, snap |-> wiki[d]] ELSE NoTask
  <2>1. d \in Docs
    BY <1>1, <1>3, Shapes DEF FetchForTask
  <2>2. wiki[d] \in Snapshot /\ Honest(d, wiki[d])
    BY <1>1, <2>1, Bounds DEF Honest, Snapshot, Times
  <2>3. x \in Task
    BY <1>1, <2>1, <2>2, Shapes
  <2>4. x.place = "ingest" => Honest(x.doc, x.snap)
    BY <1>1, <2>2
  <2>5. /\ task' = [task EXCEPT ![t] = x] /\ events' \subseteq events
        /\ UNCHANGED <<wikiVars, dbVars, bf, failures, steady>>
    BY <1>3 DEF FetchForTask
  <2>6. calm' \in BOOLEAN
    BY <1>2, <1>3 DEF FetchForTask
  <2>7. UNCHANGED <<synced, known, retired>>
    BY <2>5 DEF dbVars
  <2> HIDE DEF x
  <2> QED
    BY <1>1, <2>3, <2>4, <2>5, <2>6, <2>7, TaskFrame
<1>4. CASE IngestForTask(t)
  <2>1. task[t].doc \in Docs /\ task[t].snap \in Snapshot /\ Honest(task[t].doc, task[t].snap)
    BY <1>1, <1>4, Shapes DEF IngestForTask, Inv, SnapInv
  <2>2. /\ synced' \in [Docs -> Snapshot] /\ known' \subseteq Docs /\ retired' \subseteq Docs
        /\ \A d \in Docs : Honest(d, synced'[d])
    BY <1>1, <1>4, <2>1, IngestEffect DEF IngestForTask
  <2>3. calm' \in BOOLEAN
    BY <1>4 DEF IngestForTask
  <2> QED
    BY <1>1, <1>4, <2>2, <2>3, TaskFrame DEF IngestForTask
<1>5. ASSUME NEW victim \in BOOLEAN, RetireForTask(t, victim) PROVE Inv'
  <2>1. task[t].doc \in Docs
    BY <1>1, <1>5, Shapes DEF RetireForTask
  <2>2. UNCHANGED <<synced, known>> /\ retired' \subseteq Docs
    BY <1>1, <1>5, <2>1, RetireEffect DEF RetireForTask, dbVars
  <2>3. calm' \in BOOLEAN
    BY <1>5 DEF RetireForTask
  <2> QED
    BY <1>1, <1>5, <2>2, <2>3, TaskFrame DEF RetireForTask
<1> QED
  BY <1>3, <1>4, <1>5 DEF TaskStep

-----------------------------------------------------------------------------
(***************************************************************************)
(* The backfill.                                                           *)
(***************************************************************************)

\* The pages of a listing, with the newest document first.
LEMMA ListingPages ==
  ASSUME Inv
  PROVE  LET page == {d \in ListingAt : Position(d) \in bf.offset..(bf.offset + PageSize - 1)} IN
         /\ ListingAt \subseteq Docs /\ \A d \in ListingAt : Position(d) \in Nat
         /\ Cardinality(page) \in 0..PageSize
         /\ Cardinality(page) < PageSize => \A d \in ListingAt : Position(d) < bf.offset + PageSize
<1> DEFINE m == ListingAt
           order == {p \in m \X m : wiki[p[1]].time > wiki[p[2]].time}
           o == bf.offset
           page == {d \in m : Before(m, order, d) \in o..(o + PageSize - 1)}
<1>1. m \subseteq Docs /\ o \in Nat
  BY DEF Inv, TypeOK, Backfill, ListingAt
<1>2. IsFiniteSet(m)
  BY <1>1, ConfigAssumption, FS_Subset
<1>3. \A d \in m : wiki[d].time \in Int
  BY <1>1, Bounds DEF Inv, TypeOK, Snapshot, Times
<1> HIDE DEF m, o
<1>4. \A d, e \in m : <<d, e>> \in order <=> wiki[d].time > wiki[e].time
  OBVIOUS
<1> HIDE DEF order
<1>5. IsOrder(order, m)
  <2>1. \A d, e \in m : d # e => wiki[d].time # wiki[e].time
    BY <1>1 DEF Inv, ClockInv
  <2> QED
    BY <1>3, <1>4, <2>1 DEF IsOrder
<1>6. \A d \in m : Position(d) = Before(m, order, d)
  <2>1. ASSUME NEW d \in m PROVE {e \in m : wiki[e].time > wiki[d].time} = {e \in m : <<e, d>> \in order}
    BY <1>4
  <2> QED
    BY <2>1 DEF Position, Before, m
<1>7. /\ \A d \in m : Before(m, order, d) \in Nat
      /\ Cardinality(page) \in 0..PageSize
      /\ Cardinality(page) < PageSize => \A d \in m : Before(m, order, d) < o + PageSize
  <2>1. \A d \in m : Before(m, order, d) \in Nat
    BY <1>2, <1>5, Positions
  <2> QED
    BY <1>1, <1>2, <1>5, <2>1, Bounds, Pages
<1>8. {d \in m : Position(d) \in o..(o + PageSize - 1)} = page
  BY <1>6
<1> QED
  BY <1>1, <1>6, <1>7, <1>8 DEF m, o

LEMMA BackfillFrame ==
  ASSUME Inv, bf' \in Backfill,
         bf'.place = "fetch" => bf'.item \subseteq Docs,
         bf'.place = "ingest" => bf'.item \subseteq Fetched /\ \A x \in bf'.item : Honest(x.doc, x.snap),
         synced' \in [Docs -> Snapshot], known' \subseteq Docs, retired' \subseteq Docs,
         \A d \in Docs : Honest(d, synced'[d]),
         failures' \in Nat, calm' \in BOOLEAN, steady' \subseteq Docs,
         UNCHANGED <<wikiVars, events, task>>
  PROVE  Inv'
<1>1. UNCHANGED <<wiki, listed, changes, events, task>>
  BY DEF wikiVars
<1>2. TypeOK'
  BY <1>1 DEF Inv, TypeOK
<1>3. ClockInv'
  BY <1>1 DEF Inv, ClockInv
<1>4. SnapInv'
  BY <1>1 DEF Inv, SnapInv, Honest
<1> QED
  BY <1>2, <1>3, <1>4 DEF Inv

\* Where the backfill stands after a step.
LEMMA StartTyped ==
  ASSUME Inv, StartBackfill
  PROVE  bf' \in Backfill /\ bf'.place = "list" /\ calm' \in BOOLEAN
<1>1. PICK target \in Targets :
        bf' = [NoBackfill EXCEPT !.place = "list", !.at = target, !.todo = Targets \ {target}]
  BY DEF StartBackfill
<1>2. calm' \in BOOLEAN
  BY DEF StartBackfill
<1>3. NoBackfill \in Backfill
  BY Shapes
<1> QED
  BY <1>1, <1>2, <1>3 DEF Backfill

LEMMA ListTyped ==
  ASSUME Inv, ListPage
  PROVE  bf' \in Backfill /\ bf'.place = "items"
<1> DEFINE page == {d \in ListingAt : Position(d) \in bf.offset..(bf.offset + PageSize - 1)}
           records == {[doc |-> d, coll |-> wiki[d].coll, time |-> wiki[d].time] : d \in page}
<1>1. /\ bf \in Backfill /\ wiki \in [Docs -> Snapshot] /\ page \subseteq Docs
      /\ bf.offset + Cardinality(page) \in Nat
  BY ListingPages, Bounds DEF Inv, TypeOK, Backfill
<1>2. bf' = [bf EXCEPT !.place = "items", !.page = records,
                       !.offset = bf.offset + Cardinality(page), !.more = Cardinality(page) = PageSize]
  BY DEF ListPage
<1> HIDE DEF page
<1>3. records \subseteq [doc: Docs, coll: Collections, time: Times]
  BY <1>1 DEF Snapshot
<1> HIDE DEF records
<1>4. (Cardinality(page) = PageSize) \in BOOLEAN
  OBVIOUS
<1> QED
  BY <1>1, <1>2, <1>3, <1>4 DEF Backfill

LEMMA ItemTyped ==
  ASSUME Inv, SkipItem \/ TakeItem
  PROVE  /\ bf' \in Backfill /\ bf'.place \in {"items", "fetch"}
         /\ bf'.place = "fetch" => bf'.item \subseteq Docs
<1>1. bf \in Backfill /\ \A x \in bf.page : x.doc \in Docs
  BY DEF Inv, TypeOK, Backfill
<1>2. PICK x \in bf.page :
        \/ bf' = [bf EXCEPT !.page = @ \ {x}, !.seen = @ \cup {x.doc}]
        \/ bf' = [bf EXCEPT !.page = @ \ {x}, !.seen = @ \cup {x.doc},
                            !.place = "fetch", !.item = {x.doc}]
  BY DEF SkipItem, TakeItem
<1>3. bf.place = "items"
  BY DEF SkipItem, TakeItem
<1> DEFINE page == bf.page \ {x}
           seen == bf.seen \cup {x.doc}
           item == {x.doc}
<1>4. /\ page \in SUBSET [doc: Docs, coll: Collections, time: Times] /\ seen \in SUBSET Docs
      /\ item \in SUBSET Docs /\ item \in SUBSET (Docs \cup Fetched)
  BY <1>1 DEF Backfill
<1>5. \/ bf' = [bf EXCEPT !.page = page, !.seen = seen]
      \/ bf' = [bf EXCEPT !.page = page, !.seen = seen, !.place = "fetch", !.item = item]
  BY <1>2
<1> HIDE DEF page, seen, item
<1>6. CASE bf' = [bf EXCEPT !.page = page, !.seen = seen]
  BY <1>1, <1>3, <1>4, <1>6 DEF Backfill
<1>7. CASE bf' = [bf EXCEPT !.page = page, !.seen = seen, !.place = "fetch", !.item = item]
  BY <1>1, <1>4, <1>7 DEF Backfill
<1> QED
  BY <1>5, <1>6, <1>7

LEMMA FetchTyped ==
  ASSUME Inv, FetchItem
  PROVE  /\ bf' \in Backfill /\ bf'.place = "ingest"
         /\ bf'.item \subseteq Fetched /\ \A x \in bf'.item : Honest(x.doc, x.snap)
<1>1. PICK d \in bf.item \cap listed :
        bf' = [bf EXCEPT !.place = "ingest", !.item = {[doc |-> d, snap |-> wiki[d]]}]
  BY DEF FetchItem
<1>2. bf \in Backfill /\ d \in Docs /\ wiki[d] \in Snapshot
  BY DEF Inv, TypeOK
<1>3. Honest(d, wiki[d])
  BY <1>2, Bounds DEF Honest, Snapshot, Times
<1>4. {[doc |-> d, snap |-> wiki[d]]} \subseteq Fetched
  BY <1>2 DEF Fetched
<1>5. bf' \in Backfill /\ bf'.place = "ingest" /\ bf'.item = {[doc |-> d, snap |-> wiki[d]]}
  BY <1>1, <1>2, <1>4 DEF Backfill
<1> QED
  BY <1>3, <1>4, <1>5

\* The other steps only move on.
LEMMA MoveTyped ==
  ASSUME Inv, \/ FailItem \/ IngestItem \/ NextPage \/ ReadServed \/ EndBackfill
              \/ \E d \in Docs : Prune(d)
  PROVE  bf' \in Backfill /\ bf'.place \notin {"fetch", "ingest"}
<1>1. bf \in Backfill /\ Served \subseteq Docs
  BY DEF Inv, TypeOK, Served
<1>2. CASE FailItem \/ IngestItem
  BY <1>1, <1>2 DEF FailItem, IngestItem, Backfill
<1>3. CASE NextPage
  <2>1. CASE bf' = [bf EXCEPT !.place = "list"] \/ bf' = [bf EXCEPT !.place = "prune"]
    BY <1>1, <2>1 DEF Backfill
  <2>2. ASSUME NEW target \in bf.todo,
               bf' = [bf EXCEPT !.place = "list", !.at = target, !.todo = @ \ {target}, !.offset = 0]
        PROVE  bf' \in Backfill /\ bf'.place = "list"
    <3>1. target \in Targets /\ bf.todo \ {target} \in SUBSET Targets
      BY <1>1 DEF Backfill
    <3> QED
      BY <1>1, <2>2, <3>1 DEF Backfill
  <2> QED
    BY <1>3, <2>1, <2>2 DEF NextPage
<1>4. CASE ReadServed
  BY <1>1, <1>4 DEF ReadServed, Backfill
<1>5. CASE \E d \in Docs : Prune(d)
  BY <1>1, <1>5 DEF Prune, Backfill
<1>6. CASE EndBackfill
  BY <1>6, Shapes DEF EndBackfill, NoBackfill
<1> QED
  BY <1>2, <1>3, <1>4, <1>5, <1>6

LEMMA BackfillInv ==
  ASSUME Inv, StartBackfill \/ BackfillStep \/ AbortBackfill
  PROVE  Inv'
<1>1. /\ \A d \in Docs : Honest(d, synced[d])
      /\ synced \in [Docs -> Snapshot] /\ known \subseteq Docs /\ retired \subseteq Docs
      /\ steady \subseteq Docs /\ failures \in Nat /\ listed \subseteq Docs
  BY DEF Inv, TypeOK, SnapInv
<1>2. calm \in BOOLEAN
  BY DEF Inv, TypeOK
<1>3. CASE StartBackfill
  <2>1. bf' \in Backfill /\ bf'.place = "list"
    BY <1>3, StartTyped
  <2>2. calm' \in BOOLEAN
    BY <1>3, StartTyped
  <2>3. UNCHANGED <<wikiVars, events, task, synced, known, retired, failures>> /\ steady' \subseteq Docs
    BY <1>1, <1>3 DEF StartBackfill, Listing, dbVars
  <2> QED
    BY <1>1, <2>1, <2>2, <2>3, BackfillFrame
<1>4. CASE ListPage \/ SkipItem \/ TakeItem \/ FetchItem
  <2>1. /\ bf' \in Backfill
        /\ bf'.place = "fetch" => bf'.item \subseteq Docs
        /\ bf'.place = "ingest" => bf'.item \subseteq Fetched /\ \A x \in bf'.item : Honest(x.doc, x.snap)
    BY <1>4, ListTyped, ItemTyped, FetchTyped
  <2>2. UNCHANGED <<wikiVars, events, task, synced, known, retired, failures, calm, steady>>
    BY <1>4 DEF ListPage, SkipItem, TakeItem, FetchItem, dbVars
  <2>3. calm' \in BOOLEAN
    BY <1>2, <2>2
  <2> QED
    BY <1>1, <2>1, <2>2, <2>3, BackfillFrame
<1>5. CASE FailItem \/ NextPage \/ ReadServed
  <2>1. bf' \in Backfill /\ bf'.place \notin {"fetch", "ingest"}
    BY <1>5, MoveTyped
  <2>2. UNCHANGED <<wikiVars, events, task, synced, known, retired, calm, steady>>
    BY <1>5 DEF FailItem, NextPage, ReadServed, dbVars
  <2>3. failures' \in Nat
    <3>1. failures' = failures \/ failures' = failures + 1
      BY <1>5 DEF FailItem, NextPage, ReadServed
    <3> QED
      BY <1>1, <3>1
  <2>4. calm' \in BOOLEAN
    BY <1>2, <2>2
  <2> QED
    BY <1>1, <2>1, <2>2, <2>3, <2>4, BackfillFrame
<1>6. CASE NoPrune \/ FinishBackfill \/ AbortBackfill
  <2>1. EndBackfill
    BY <1>6 DEF NoPrune, FinishBackfill, AbortBackfill
  <2>2. bf' \in Backfill /\ bf'.place \notin {"fetch", "ingest"}
    BY <2>1, MoveTyped
  <2>3. UNCHANGED <<wikiVars, events, task, synced, known, retired>> /\ steady' \subseteq Docs
    BY <1>6, <2>1 DEF NoPrune, FinishBackfill, AbortBackfill, EndBackfill, dbVars
  <2>4. failures' \in Nat
    BY <1>1, <1>6 DEF NoPrune, FinishBackfill, AbortBackfill
  <2>5. calm' \in BOOLEAN
    BY <2>1 DEF EndBackfill
  <2> QED
    BY <1>1, <2>2, <2>3, <2>4, <2>5, BackfillFrame
<1>7. CASE IngestItem
  <2>1. PICK x \in bf.item : Ingest(x.doc, x.snap)
    BY <1>7 DEF IngestItem
  <2>2. x.doc \in Docs /\ x.snap \in Snapshot /\ Honest(x.doc, x.snap)
    BY <1>7 DEF IngestItem, Inv, TypeOK, SnapInv, Fetched
  <2>3. /\ synced' \in [Docs -> Snapshot] /\ known' \subseteq Docs /\ retired' \subseteq Docs
        /\ \A d \in Docs : Honest(d, synced'[d])
    BY <1>1, <2>1, <2>2, IngestEffect
  <2>4. bf' \in Backfill /\ bf'.place \notin {"fetch", "ingest"}
    BY <1>7, MoveTyped
  <2>5. UNCHANGED <<wikiVars, events, task, failures, calm, steady>>
    BY <1>7 DEF IngestItem
  <2>6. calm' \in BOOLEAN
    BY <1>2, <2>5
  <2> QED
    BY <1>1, <2>3, <2>4, <2>5, <2>6, BackfillFrame
<1>8. ASSUME NEW d \in Docs, Prune(d) PROVE Inv'
  <2>1. UNCHANGED <<synced, known>> /\ retired' \subseteq Docs
    BY <1>8, RetireEffect DEF Prune
  <2>2. bf' \in Backfill /\ bf'.place \notin {"fetch", "ingest"}
    BY <1>8, MoveTyped
  <2>3. UNCHANGED <<wikiVars, events, task, failures, calm, steady>>
    BY <1>8 DEF Prune
  <2>4. calm' \in BOOLEAN
    BY <1>2, <2>3
  <2> QED
    BY <1>1, <2>1, <2>2, <2>3, <2>4, BackfillFrame
<1> QED
  BY <1>3, <1>4, <1>5, <1>6, <1>7, <1>8 DEF BackfillStep

LEMMA StepInv == Inv /\ [Next]_vars => Inv'
<1> SUFFICES ASSUME Inv, [Next]_vars PROVE Inv'
  OBVIOUS
<1>1. CASE Next
  BY <1>1, ChangeInv, EventInv, TaskInv, BackfillInv DEF Next
<1>2. CASE UNCHANGED vars
  <2>1. UNCHANGED <<wiki, listed, changes, events, task, synced, known, retired, bf, failures, calm, steady>>
    BY <1>2 DEF vars, wikiVars, dbVars
  <2> QED
    BY <2>1 DEF Inv, TypeOK, ClockInv, SnapInv, Honest
<1> QED
  BY <1>1, <1>2

\* is_unchanged may go by updatedAt: over every order of edits, removals, returns,
\* fetches and late ingests, the row of a page that is as new as the page has its text.
THEOREM TimeIsText == Spec => []TimeTellsBody
<1>1. Inv => TimeTellsBody
  BY DEF Inv, TypeOK, SnapInv, Honest, TimeTellsBody
<1> QED
  BY <1>1, InitInv, StepInv, PTL DEF Spec

-----------------------------------------------------------------------------
(***************************************************************************)
(* A backfill that nothing disturbs.                                       *)
(***************************************************************************)

LEMMA TargetsCover ==
  /\ bf.at \in Targets => ListingAt \subseteq Listing
  /\ \A d \in Listing : \E target \in Targets : InTarget(d, target)
BY DEF Targets, ListingAt, Listing, InScope, InTarget

LEMMA PositionType ==
  ASSUME listed' \subseteq Docs
  PROVE  \A d : Position(d)' \in Nat
<1>1. ASSUME NEW S \in SUBSET Docs PROVE Cardinality(S) \in Nat
  BY ConfigAssumption, FS_Subset, FS_CardinalityType
<1>2. ASSUME NEW d PROVE {e \in ListingAt' : wiki'[e].time > wiki'[d].time} \in SUBSET Docs
  BY DEF ListingAt
<1> QED
  BY <1>1, <1>2 DEF Position

\* The rest of the listing is the same as long as the wiki and the target are.
LEMMA ListingFrame ==
  ASSUME UNCHANGED wikiVars, bf'.at = bf.at
  PROVE  /\ ListingAt' = ListingAt /\ Listing' = Listing
         /\ \A d : Position(d)' = Position(d)
<1>1. wiki' = wiki /\ listed' = listed
  BY DEF wikiVars
<1>2. ListingAt' = ListingAt /\ Listing' = Listing
  BY <1>1 DEF ListingAt, Listing
<1> QED
  BY <1>1, <1>2 DEF Position

LEMMA StartCalm ==
  ASSUME Inv, StartBackfill, calm'
  PROVE  Undisturbed'
<1>1. PICK target \in Targets :
        bf' = [NoBackfill EXCEPT !.place = "list", !.at = target, !.todo = Targets \ {target}]
  BY DEF StartBackfill
<1>2. /\ bf'.place = "list" /\ bf'.at = target /\ bf'.todo = Targets \ {target}
      /\ bf'.page = {} /\ bf'.seen = {} /\ bf'.offset = 0
  BY <1>1 DEF NoBackfill
<1>3. UNCHANGED <<wiki, listed, events, task>> /\ Listing' = Listing /\ listed \subseteq Docs
  BY DEF StartBackfill, wikiVars, Listing, Inv, TypeOK
<1>4. events = {} /\ \A t \in Tasks : task[t].place = "idle"
  BY DEF StartBackfill
<1>5. ASSUME NEW d \in Listing PROVE Ahead(d)'
  <2>1. PICK other \in Targets : InTarget(d, other)
    BY TargetsCover
  <2>2. CASE other = target
    <3>1. d \in ListingAt'
      BY <1>2, <1>3, <2>1, <2>2 DEF InTarget, ListingAt, Listing
    <3>2. Position(d)' >= 0
      BY <1>3, PositionType
    <3> QED
      BY <1>2, <3>1, <3>2 DEF Ahead
  <2>3. CASE other # target
    BY <1>2, <1>3, <2>1, <2>3 DEF InTarget, Ahead
  <2> QED
    BY <2>2, <2>3
<1>6. Quiet' /\ PageInv' /\ SeenInv'
  BY <1>2, <1>3, <1>4 DEF Quiet, PageInv, SeenInv
<1>7. CoverInv' /\ PruneInv'
  BY <1>2, <1>3, <1>5 DEF CoverInv, PruneInv, Working
<1> QED
  BY <1>6, <1>7 DEF Undisturbed

LEMMA ListCalm ==
  ASSUME Inv, Undisturbed, ListPage
  PROVE  Undisturbed'
<1> DEFINE page == {d \in ListingAt : Position(d) \in bf.offset..(bf.offset + PageSize - 1)}
           records == {[doc |-> d, coll |-> wiki[d].coll, time |-> wiki[d].time] : d \in page}
<1>1. /\ bf \in Backfill /\ bf.place = "list" /\ bf.offset \in Nat
      /\ bf' = [bf EXCEPT !.place = "items", !.page = records,
                          !.offset = bf.offset + Cardinality(page), !.more = Cardinality(page) = PageSize]
  BY DEF ListPage, Inv, TypeOK, Backfill
<1>2. /\ page \subseteq ListingAt /\ ListingAt \subseteq Listing
      /\ \A d \in ListingAt : Position(d) \in Nat
      /\ Cardinality(page) \in 0..PageSize
      /\ Cardinality(page) < PageSize => \A d \in ListingAt : Position(d) < bf.offset + PageSize
  BY ListingPages, TargetsCover DEF Undisturbed, Quiet
<1>3. \A d \in ListingAt \ page : Position(d) >= bf.offset => Position(d) >= bf.offset + PageSize
  BY <1>1, <1>2, Bounds
<1> HIDE DEF page
<1>4. /\ \A x \in records : x.doc \in page /\ x.coll = wiki[x.doc].coll /\ x.time = wiki[x.doc].time
      /\ \A d \in page : \E x \in records : x.doc = d
  <2>1. ASSUME NEW x \in records
        PROVE  x.doc \in page /\ x.coll = wiki[x.doc].coll /\ x.time = wiki[x.doc].time
    <3>1. PICK d \in page : x = [doc |-> d, coll |-> wiki[d].coll, time |-> wiki[d].time]
      OBVIOUS
    <3> HIDE DEF records
    <3> QED
      BY <3>1
  <2>2. ASSUME NEW d \in page PROVE \E x \in records : x.doc = d
    <3>1. PICK x \in records : x = [doc |-> d, coll |-> wiki[d].coll, time |-> wiki[d].time]
      OBVIOUS
    <3> HIDE DEF records
    <3> QED
      BY <3>1
  <2> HIDE DEF records
  <2> QED
    BY <2>1, <2>2
<1> HIDE DEF records
<1>5. /\ bf'.place = "items" /\ bf'.page = records /\ bf'.offset = bf.offset + Cardinality(page)
      /\ bf'.more = (Cardinality(page) = PageSize)
      /\ bf'.at = bf.at /\ bf'.todo = bf.todo /\ bf'.seen = bf.seen /\ bf'.failed = bf.failed
  BY <1>1 DEF Backfill
<1>6. UNCHANGED <<wiki, listed, events, task, synced, known, retired>>
  BY DEF ListPage, wikiVars, dbVars
<1>7. /\ ListingAt' = ListingAt /\ Listing' = Listing
      /\ \A d : Position(d)' = Position(d)
  BY <1>5, <1>6, ListingFrame DEF wikiVars, ListPage
<1>8. ASSUME NEW d \in Listing \ bf.seen PROVE Ahead(d)'
  <2>1. Ahead(d) /\ bf.page = {}
    BY <1>1 DEF Undisturbed, CoverInv, PageInv, Working
  <2>2. CASE d \in page
    BY <1>4, <1>5, <2>2 DEF Ahead
  <2>3. CASE d \in ListingAt \ page /\ Position(d) >= bf.offset
    <3>1. Position(d) >= bf.offset + PageSize
      BY <1>3, <2>3
    <3>2. Cardinality(page) = PageSize
      BY <1>1, <1>2, <2>3, <3>1, Bounds
    <3>3. bf'.more /\ Position(d)' >= bf'.offset /\ d \in ListingAt'
      BY <1>5, <1>7, <2>3, <3>1, <3>2
    <3> QED
      BY <3>3 DEF Ahead
  <2>4. CASE \E target \in bf.todo : InTarget(d, target)
    BY <1>5, <1>6, <2>4 DEF Ahead, InTarget
  <2> QED
    BY <2>1, <2>2, <2>3, <2>4 DEF Ahead
<1>9. Quiet'
  BY <1>5, <1>6 DEF Undisturbed, Quiet
<1>10. PageInv'
  BY <1>2, <1>4, <1>5, <1>6, <1>7 DEF PageInv
<1>11. SeenInv'
  BY <1>1, <1>5, <1>6, <1>7 DEF Undisturbed, SeenInv, Stored, Pending
<1>12. CoverInv' /\ PruneInv'
  BY <1>5, <1>7, <1>8 DEF CoverInv, PruneInv, Working
<1> QED
  BY <1>9, <1>10, <1>11, <1>12 DEF Undisturbed

\* An item is taken off the page: it is up to date, or it is to be fetched.
LEMMA ItemCalm ==
  ASSUME Inv, Undisturbed, SkipItem \/ TakeItem
  PROVE  Undisturbed'
<1>1. PICK x \in bf.page :
        \/ /\ IsUnchanged(x)
           /\ bf' = [bf EXCEPT !.page = @ \ {x}, !.seen = @ \cup {x.doc}]
        \/ bf' = [bf EXCEPT !.page = @ \ {x}, !.seen = @ \cup {x.doc},
                            !.place = "fetch", !.item = {x.doc}]
  BY DEF SkipItem, TakeItem
<1>2. /\ bf \in Backfill /\ bf.place = "items" /\ UNCHANGED <<wikiVars, dbVars>>
      /\ UNCHANGED <<wiki, listed, events, task, synced, known, retired>>
  BY DEF SkipItem, TakeItem, wikiVars, dbVars, Inv, TypeOK
<1>3. /\ bf'.page = bf.page \ {x} /\ bf'.seen = bf.seen \cup {x.doc} /\ bf'.failed = bf.failed
      /\ bf'.at = bf.at /\ bf'.todo = bf.todo /\ bf'.offset = bf.offset /\ bf'.more = bf.more
      /\ \/ bf'.place = "items" /\ IsUnchanged(x)
         \/ bf'.place = "fetch" /\ bf'.item = {x.doc}
  <2>1. CASE IsUnchanged(x) /\ bf' = [bf EXCEPT !.page = @ \ {x}, !.seen = @ \cup {x.doc}]
    BY <1>2, <2>1 DEF Backfill
  <2>2. CASE bf' = [bf EXCEPT !.page = @ \ {x}, !.seen = @ \cup {x.doc},
                              !.place = "fetch", !.item = {x.doc}]
    BY <1>2, <2>2 DEF Backfill
  <2> QED
    BY <1>1, <2>1, <2>2
<1>4. /\ x.doc \in Listing /\ x.doc \in Docs
      /\ x.coll = wiki[x.doc].coll /\ x.time = wiki[x.doc].time
  BY DEF Undisturbed, PageInv, Listing, Inv, TypeOK
<1>5. /\ ListingAt' = ListingAt /\ Listing' = Listing
      /\ \A d : Position(d)' = Position(d)
  BY <1>2, <1>3, ListingFrame
<1>6. Stored(x.doc)' \/ Pending(x.doc)'
  <2>1. CASE IsUnchanged(x)
    <3>1. /\ x.doc \in known \ retired /\ synced[x.doc].coll = wiki[x.doc].coll
          /\ synced[x.doc].time = wiki[x.doc].time /\ synced[x.doc].body = wiki[x.doc].body
      BY <1>4, <2>1 DEF IsUnchanged, Inv, SnapInv, Honest
    <3>2. synced[x.doc] \in Snapshot /\ wiki[x.doc] \in Snapshot
      BY <1>4 DEF Inv, TypeOK
    <3>3. synced[x.doc] = wiki[x.doc]
      BY <3>1, <3>2 DEF Snapshot
    <3> QED
      BY <1>2, <3>1, <3>3 DEF Stored
  <2>2. CASE bf'.place = "fetch" /\ bf'.item = {x.doc}
    BY <2>2 DEF Pending
  <2> QED
    BY <1>3, <2>1, <2>2
<1>7. Quiet' /\ PageInv'
  BY <1>2, <1>3, <1>5 DEF Undisturbed, Quiet, PageInv
<1>8. SeenInv'
  <2>1. bf'.seen \subseteq Listing'
    BY <1>3, <1>4, <1>5 DEF Undisturbed, SeenInv
  <2>2. bf'.place \in {"fetch", "ingest"} => Pending(x.doc)'
    BY <1>3 DEF Pending
  <2>3. ~bf.failed => \A d \in bf.seen : Stored(d)
    BY <1>2 DEF Undisturbed, SeenInv, Pending
  <2>4. ~bf.failed => \A d \in bf.seen : Stored(d)'
    BY <1>2, <2>3 DEF Stored
  <2> QED
    BY <1>3, <1>6, <2>1, <2>2, <2>4 DEF SeenInv
<1>9. CoverInv'
  <2>1. ASSUME NEW d \in Listing \ bf'.seen PROVE Ahead(d)'
    <3>1. Ahead(d) /\ d # x.doc
      BY <1>2, <1>3, <2>1 DEF Undisturbed, CoverInv, Working
    <3>2. CASE \E y \in bf.page : y.doc = d
      BY <1>3, <3>1, <3>2 DEF Ahead
    <3>3. CASE d \in ListingAt /\ bf.more /\ Position(d) >= bf.offset
      BY <1>3, <1>5, <3>3 DEF Ahead
    <3>4. CASE \E target \in bf.todo : InTarget(d, target)
      BY <1>2, <1>3, <3>4 DEF Ahead, InTarget
    <3> QED
      BY <1>2, <3>1, <3>2, <3>3, <3>4 DEF Ahead
  <2> QED
    BY <1>3, <1>5, <2>1 DEF CoverInv, Working
<1>10. PruneInv'
  BY <1>3 DEF PruneInv
<1> QED
  BY <1>7, <1>8, <1>9, <1>10 DEF Undisturbed

LEMMA FetchCalm ==
  ASSUME Inv, Undisturbed, FetchItem \/ FailItem
  PROVE  Undisturbed'
<1>1. /\ bf \in Backfill /\ bf.place = "fetch" /\ UNCHANGED <<wikiVars, dbVars>>
      /\ UNCHANGED <<wiki, listed, events, task, synced, known, retired>>
  BY DEF FetchItem, FailItem, wikiVars, dbVars, Inv, TypeOK
<1>2. PICK d \in bf.seen : bf.item = {d}
  BY <1>1 DEF Undisturbed, SeenInv, Pending
<1>3. \/ bf' = [bf EXCEPT !.place = "ingest", !.item = {[doc |-> d, snap |-> wiki[d]]}]
      \/ bf' = [bf EXCEPT !.place = "items", !.item = {}, !.failed = TRUE]
  BY <1>2 DEF FetchItem, FailItem
<1>4. /\ bf'.page = bf.page /\ bf'.seen = bf.seen /\ bf'.at = bf.at /\ bf'.todo = bf.todo
      /\ bf'.offset = bf.offset /\ bf'.more = bf.more
      /\ \/ /\ bf'.place = "ingest" /\ bf'.item = {[doc |-> d, snap |-> wiki[d]]}
            /\ bf'.failed = bf.failed
         \/ bf'.place = "items" /\ bf'.failed
  <2>1. CASE bf' = [bf EXCEPT !.place = "ingest", !.item = {[doc |-> d, snap |-> wiki[d]]}]
    BY <1>1, <2>1 DEF Backfill
  <2>2. CASE bf' = [bf EXCEPT !.place = "items", !.item = {}, !.failed = TRUE]
    BY <1>1, <2>2 DEF Backfill
  <2> QED
    BY <1>3, <2>1, <2>2
<1>5. /\ ListingAt' = ListingAt /\ Listing' = Listing
      /\ \A e : Position(e)' = Position(e)
  BY <1>1, <1>4, ListingFrame
<1>6. Quiet' /\ PageInv' /\ PruneInv'
  BY <1>1, <1>4, <1>5 DEF Undisturbed, Quiet, PageInv, PruneInv
<1>7. SeenInv'
  <2>1. bf'.seen \subseteq Listing'
    BY <1>4, <1>5 DEF Undisturbed, SeenInv
  <2>2. bf'.place \in {"fetch", "ingest"} => Pending(d)'
    BY <1>1, <1>4 DEF Pending
  <2>3. ~bf'.failed => bf'.place = "ingest"
    BY <1>4
  <2>4. ~bf.failed => \A e \in bf.seen \ {d} : Stored(e)
    BY <1>1, <1>2 DEF Undisturbed, SeenInv, Pending
  <2>5. ~bf.failed => \A e \in bf.seen \ {d} : Stored(e)'
    BY <1>1, <2>4 DEF Stored
  <2> QED
    BY <1>4, <2>1, <2>2, <2>3, <2>5 DEF SeenInv
<1>8. CoverInv'
  <2>1. ASSUME NEW e \in Listing \ bf.seen PROVE Ahead(e)'
    <3>1. Ahead(e)
      BY <1>1, <2>1 DEF Undisturbed, CoverInv, Working
    <3> QED
      BY <1>1, <1>4, <1>5, <3>1 DEF Ahead, InTarget
  <2> QED
    BY <1>4, <1>5, <2>1 DEF CoverInv, Working
<1> QED
  BY <1>6, <1>7, <1>8 DEF Undisturbed

LEMMA IngestCalm ==
  ASSUME Inv, Undisturbed, IngestItem
  PROVE  Undisturbed'
<1>1. /\ bf \in Backfill /\ bf.place = "ingest" /\ UNCHANGED wikiVars
      /\ UNCHANGED <<wiki, listed, events, task>>
  BY DEF IngestItem, wikiVars, Inv, TypeOK
<1>2. PICK d \in bf.seen : bf.item = {[doc |-> d, snap |-> wiki[d]]}
  BY <1>1 DEF Undisturbed, SeenInv, Pending
<1>3. d \in Docs /\ wiki[d] \in Snapshot
  BY DEF Inv, TypeOK, Backfill
<1>4. Ingest(d, wiki[d])
  BY <1>2 DEF IngestItem
<1>5. /\ bf'.page = bf.page /\ bf'.seen = bf.seen /\ bf'.at = bf.at /\ bf'.todo = bf.todo
      /\ bf'.offset = bf.offset /\ bf'.more = bf.more /\ bf'.failed = bf.failed
      /\ bf'.place = "items"
  BY <1>1 DEF IngestItem, Backfill
<1>6. /\ ListingAt' = ListingAt /\ Listing' = Listing
      /\ \A e : Position(e)' = Position(e)
  BY <1>1, <1>5, ListingFrame
<1>7. /\ \A e \in Docs \ {d} : synced'[e] = synced[e]
      /\ wiki[d].body # NoText => d \in known' \ retired' /\ synced'[d] = wiki[d]
      /\ known \subseteq known' /\ retired' \subseteq retired
  BY <1>3, <1>4, IngestEffect
<1>8. Quiet' /\ PageInv' /\ PruneInv'
  BY <1>1, <1>5, <1>6 DEF Undisturbed, Quiet, PageInv, PruneInv
<1>9. SeenInv'
  <2>1. bf'.seen \subseteq Listing' /\ bf.seen \subseteq Docs
    BY <1>5, <1>6 DEF Undisturbed, SeenInv, Listing, Inv, TypeOK
  <2>2. Stored(d)'
    BY <1>1, <1>7 DEF Stored
  <2>3. ~bf.failed => \A e \in bf.seen \ {d} : Stored(e)
    <3>1. ASSUME NEW e \in bf.seen \ {d} PROVE ~Pending(e)
      <4>1. ASSUME {[doc |-> d, snap |-> wiki[d]]} = {[doc |-> e, snap |-> wiki[e]]} PROVE FALSE
        <5>1. [doc |-> d, snap |-> wiki[d]] = [doc |-> e, snap |-> wiki[e]]
          BY <4>1
        <5>2. [doc |-> d, snap |-> wiki[d]].doc = [doc |-> e, snap |-> wiki[e]].doc
          BY <5>1
        <5> QED
          BY <3>1, <5>2
      <4> QED
        BY <1>1, <1>2, <4>1 DEF Pending
    <3> QED
      BY <3>1 DEF Undisturbed, SeenInv
  <2>4. ~bf.failed => \A e \in bf.seen \ {d} : Stored(e)'
    BY <1>1, <1>7, <2>1, <2>3 DEF Stored
  <2> QED
    BY <1>5, <2>1, <2>2, <2>4 DEF SeenInv
<1>10. CoverInv'
  <2>1. ASSUME NEW e \in Listing \ bf.seen PROVE Ahead(e)'
    <3>1. Ahead(e)
      BY <1>1, <2>1 DEF Undisturbed, CoverInv, Working
    <3> QED
      BY <1>1, <1>5, <1>6, <3>1 DEF Ahead, InTarget
  <2> QED
    BY <1>5, <1>6, <2>1 DEF CoverInv, Working
<1> QED
  BY <1>8, <1>9, <1>10 DEF Undisturbed

\* The next page, the next collection, or the prune when nothing is ahead any more.
LEMMA NextCalm ==
  ASSUME Inv, Undisturbed, NextPage
  PROVE  Undisturbed'
<1>1. /\ bf \in Backfill /\ bf.place = "items" /\ bf.page = {} /\ UNCHANGED wikiVars
      /\ UNCHANGED <<wiki, listed, events, task, synced, known, retired>> /\ Listing' = Listing
  BY DEF NextPage, wikiVars, dbVars, Inv, TypeOK, Listing
<1>2. /\ ~bf.failed => \A d \in bf.seen : Stored(d)
      /\ \A d \in Listing \ bf.seen : Ahead(d)
  BY <1>1 DEF Undisturbed, SeenInv, CoverInv, Working, Pending
<1>3. ~bf.failed => \A d \in bf.seen : Stored(d)'
  BY <1>1, <1>2 DEF Stored
<1>4. ASSUME bf'.place \in {"list", "prune"}, bf'.seen = bf.seen, bf'.page = bf.page,
             bf'.failed = bf.failed, bf'.at \in Targets, CoverInv'
      PROVE  Undisturbed'
  <2>1. Quiet' /\ PageInv' /\ PruneInv'
    BY <1>1, <1>4 DEF Undisturbed, Quiet, PageInv, PruneInv
  <2>2. SeenInv'
    BY <1>1, <1>3, <1>4 DEF Undisturbed, SeenInv
  <2> QED
    BY <1>4, <2>1, <2>2 DEF Undisturbed
<1>5. CASE bf.more /\ bf' = [bf EXCEPT !.place = "list"]
  <2>1. /\ bf'.place = "list" /\ bf'.seen = bf.seen /\ bf'.page = bf.page /\ bf'.failed = bf.failed
        /\ bf'.at = bf.at /\ bf'.todo = bf.todo /\ bf'.offset = bf.offset
    BY <1>1, <1>5 DEF Backfill
  <2>2. ListingAt' = ListingAt /\ \A d : Position(d)' = Position(d)
    BY <1>1, <2>1, ListingFrame
  <2>3. ASSUME NEW d \in Listing \ bf.seen PROVE Ahead(d)'
    BY <1>1, <1>2, <2>1, <2>2, <2>3 DEF Ahead, InTarget
  <2>4. CoverInv'
    BY <1>1, <2>1, <2>3 DEF CoverInv, Working
  <2> QED
    BY <1>4, <2>1, <2>4 DEF Undisturbed, Quiet
<1>6. ASSUME ~bf.more, NEW target \in bf.todo,
             bf' = [bf EXCEPT !.place = "list", !.at = target, !.todo = @ \ {target}, !.offset = 0]
      PROVE  Undisturbed'
  <2>1. /\ bf'.place = "list" /\ bf'.seen = bf.seen /\ bf'.page = bf.page /\ bf'.failed = bf.failed
        /\ bf'.at = target /\ bf'.todo = bf.todo \ {target} /\ bf'.offset = 0
        /\ target \in Targets
    BY <1>1, <1>6 DEF Backfill
  <2>2. ASSUME NEW d \in Listing \ bf.seen PROVE Ahead(d)'
    <3>1. PICK other \in bf.todo : InTarget(d, other)
      BY <1>1, <1>2, <1>6, <2>2 DEF Ahead
    <3>2. CASE other = target
      <4>1. d \in ListingAt'
        BY <1>1, <2>1, <3>1, <3>2 DEF InTarget, ListingAt, Listing
      <4>2. Position(d)' >= 0
        BY <1>1, PositionType DEF Inv, TypeOK
      <4> QED
        BY <2>1, <4>1, <4>2 DEF Ahead
    <3>3. CASE other # target
      BY <1>1, <2>1, <3>1, <3>3 DEF Ahead, InTarget
    <3> QED
      BY <3>2, <3>3
  <2>3. CoverInv'
    BY <1>1, <2>1, <2>2 DEF CoverInv, Working
  <2> QED
    BY <1>4, <2>1, <2>3
<1>7. CASE ~bf.more /\ bf.todo = {} /\ bf' = [bf EXCEPT !.place = "prune"]
  <2>1. /\ bf'.place = "prune" /\ bf'.seen = bf.seen /\ bf'.page = bf.page /\ bf'.failed = bf.failed
        /\ bf'.at = bf.at
    BY <1>1, <1>7 DEF Backfill
  <2>2. Listing \subseteq bf.seen
    BY <1>1, <1>2, <1>7 DEF Ahead
  <2>3. CoverInv'
    BY <1>1, <2>1, <2>2 DEF CoverInv, Working
  <2> QED
    BY <1>4, <2>1, <2>3 DEF Undisturbed, Quiet
<1> QED
  BY <1>5, <1>6, <1>7 DEF NextPage

LEMMA PruneCalm ==
  ASSUME Inv, Undisturbed, ReadServed \/ \E d \in Docs : Prune(d)
  PROVE  Undisturbed'
<1>1. /\ bf \in Backfill /\ bf.place \in {"prune", "retire"} /\ UNCHANGED wikiVars /\ ~bf.failed
      /\ UNCHANGED <<wiki, listed, events, task, synced, known>> /\ Listing' = Listing
  BY DEF ReadServed, Prune, RetirePage, wikiVars, dbVars, Inv, TypeOK, Listing, Undisturbed, PruneInv
<1>2. Listing \subseteq bf.seen /\ bf.seen \subseteq Listing /\ \A d \in bf.seen : Stored(d)
  BY <1>1 DEF Undisturbed, CoverInv, SeenInv, Working, Pending
<1>3. ASSUME bf'.place = "retire", bf'.seen = bf.seen, bf'.page = bf.page, bf'.at = bf.at,
             bf'.failed = bf.failed, PruneInv', \A d \in bf.seen : Stored(d)'
      PROVE  Undisturbed'
  BY <1>1, <1>2, <1>3 DEF Undisturbed, Quiet, PageInv, SeenInv, CoverInv, Working
<1>4. CASE ReadServed
  <2>1. /\ bf'.place = "retire" /\ bf'.seen = bf.seen /\ bf'.page = bf.page /\ bf'.at = bf.at
        /\ bf'.failed = bf.failed /\ bf'.gone = Served \ bf.seen /\ retired' = retired
    BY <1>1, <1>4 DEF ReadServed, Backfill, dbVars
  <2>2. Served' = Served /\ Served \subseteq known
    BY <1>1, <2>1 DEF Served
  <2>3. PruneInv'
    BY <1>1, <2>1, <2>2 DEF PruneInv
  <2>4. \A d \in bf.seen : Stored(d)'
    BY <1>1, <1>2, <2>1 DEF Stored
  <2> QED
    BY <1>3, <2>1, <2>3, <2>4
<1>5. ASSUME NEW d \in Docs, Prune(d) PROVE Undisturbed'
  <2>1. /\ bf.place = "retire" /\ d \in bf.gone /\ bf.gone \subseteq known \ bf.seen
        /\ Served \subseteq bf.seen \cup bf.gone
    BY <1>5 DEF Prune, Undisturbed, PruneInv
  <2>2. /\ bf'.place = "retire" /\ bf'.seen = bf.seen /\ bf'.page = bf.page /\ bf'.at = bf.at
        /\ bf'.failed = bf.failed /\ bf'.gone = bf.gone \ {d}
    BY <1>1, <1>5, <2>1 DEF Prune, Backfill
  <2>3. retired' = retired \cup {d}
    BY <1>5, <2>1 DEF Prune, RetirePage
  <2>4. Served' = Served \ {d}
    BY <1>1, <2>3 DEF Served
  <2>5. PruneInv'
    BY <1>1, <2>1, <2>2, <2>4 DEF PruneInv
  <2>6. \A e \in bf.seen : Stored(e)'
    BY <1>1, <1>2, <2>1, <2>3 DEF Stored
  <2> QED
    BY <1>3, <2>2, <2>5, <2>6
<1> QED
  BY <1>4, <1>5

LEMMA StepCalm ==
  ASSUME IInv, [Next]_vars, calm'
  PROVE  Undisturbed'
<1>1. CASE StartBackfill
  BY <1>1, StartCalm DEF IInv
<1>2. CASE \E d \in Docs : \/ \E b \in Bodies : Edit(d, b)
                           \/ \E c \in Collections : Move(d, c)
                           \/ Remove(d) \/ Publish(d)
  BY <1>2 DEF Edit, Move, Remove, Publish, Change
<1>3. CASE AbortBackfill \/ NoPrune \/ FinishBackfill
  BY <1>3 DEF AbortBackfill, NoPrune, FinishBackfill, EndBackfill
<1>4. CASE \E e \in events : Lose(e) \/ \E t \in Tasks, again \in BOOLEAN : Deliver(e, t, again)
  BY <1>4 DEF Lose, Deliver, IInv, Undisturbed, Quiet
<1>5. CASE \E t \in Tasks : TaskStep(t)
  BY <1>5 DEF TaskStep, FetchForTask, IngestForTask, RetireForTask, IInv, Undisturbed, Quiet
<1>6. CASE BackfillStep /\ ~NoPrune /\ ~FinishBackfill
  <2>1. calm
    BY <1>6 DEF BackfillStep, ListPage, SkipItem, TakeItem, FetchItem, FailItem, IngestItem, NextPage,
       ReadServed, Prune
  <2> QED
    BY <1>6, <2>1, ListCalm, ItemCalm, FetchCalm, IngestCalm, NextCalm, PruneCalm DEF IInv, BackfillStep
<1>7. CASE UNCHANGED vars
  <2>1. UNCHANGED <<wiki, listed, changes, events, task, synced, known, retired, bf, calm>>
    BY <1>7 DEF vars, wikiVars, dbVars
  <2>2. ListingAt' = ListingAt /\ Listing' = Listing /\ \A d : Position(d)' = Position(d)
    BY <2>1, ListingFrame DEF wikiVars
  <2>3. Undisturbed
    BY <2>1 DEF IInv
  <2>4. Quiet' /\ PageInv' /\ PruneInv'
    BY <2>1, <2>2, <2>3 DEF Undisturbed, Quiet, PageInv, PruneInv, Served
  <2>5. SeenInv'
    BY <2>1, <2>2, <2>3 DEF Undisturbed, SeenInv, Stored, Pending
  <2>6. \A d : Ahead(d)' <=> Ahead(d)
    BY <2>1, <2>2 DEF Ahead, InTarget
  <2>7. CoverInv'
    BY <2>1, <2>2, <2>3, <2>6 DEF Undisturbed, CoverInv, Working
  <2> QED
    BY <2>4, <2>5, <2>7 DEF Undisturbed
<1> QED
  BY <1>1, <1>2, <1>3, <1>4, <1>5, <1>6, <1>7 DEF Next, BackfillStep

\* A backfill of which calm has held to its end leaves an index that has the listed
\* pages of the scope as they are and serves no other of the scope: whatever was lost,
\* late or repeated before it began, and whichever pages and collections it read in
\* what order.
THEOREM CalmRepairs == Spec => CalmBackfillRepairs
<1>1. Init => IInv
  BY InitInv DEF Init, IInv
<1>2. IInv /\ [Next]_vars => IInv'
  BY StepInv, StepCalm DEF IInv
<1>3. IInv /\ [Next]_vars => [FinishBackfill /\ calm => InSync]_vars
  <2> SUFFICES ASSUME IInv, FinishBackfill, calm PROVE InSync
    OBVIOUS
  <2>1. /\ Undisturbed /\ bf.place = "retire" /\ bf.gone = {}
    BY DEF IInv, FinishBackfill
  <2>2. ~bf.failed /\ Served \subseteq bf.seen /\ bf.seen \subseteq Listing /\ Listing \subseteq bf.seen
    BY <2>1 DEF Undisturbed, PruneInv, SeenInv, CoverInv, Working
  <2>3. \A d \in bf.seen : Stored(d)
    BY <2>1, <2>2 DEF Undisturbed, SeenInv, Pending
  <2> QED
    BY <2>2, <2>3 DEF InSync, Stored
<1> QED
  BY <1>1, <1>2, <1>3, PTL DEF Spec, CalmBackfillRepairs
=============================================================================
