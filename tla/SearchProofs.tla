---------------------------- MODULE SearchProofs ----------------------------
(***************************************************************************)
(* What an answer promises, for every wiki, ranking, limit and number of   *)
(* workers and requests: that the state of the index and of the locks is   *)
(* what a search relies on, that a search under way keeps what it has      *)
(* read within what it may answer, and what follows for the answer.        *)
(***************************************************************************)
EXTENDS Search, RankingProofs

Request ==
  [at : {"idle", "resolve", "vector", "keyword", "fuse", "explain", "done", "failed", "read"},
   query : Queries \cup {0}, scope : [local : BOOLEAN, allowed : SUBSET Collections],
   mode : Modes, vector : Seq(Rows), keyword : Seq(Rows), answer : Seq(Rows),
   warned : BOOLEAN, hit : Rows \cup {<<>>}, around : SUBSET Rows]

Job ==
  [ver : Versions \cup {0}, sees : SUBSET Versions, show : BOOLEAN,
   at : {"idle", "claim", "write", "complete"}]

History ==
  [was : SUBSET Rows, stayed : SUBSET Rows, models : SUBSET (Models \cup {NoModel})]

StateTyped ==
  /\ rows \in [Versions -> 0..Size]
  /\ active \in SUBSET Versions
  /\ by \in [Versions -> Models \cup {NoModel}]
  /\ coll \in [Docs -> Collections \cup {Local, Unknown}]
  /\ gone \in [Docs -> BOOLEAN]
  /\ lock \in [Models -> Workers \cup Requests \cup {NoOne}]
  /\ task \in [Workers -> Job]
  /\ req \in [Requests -> Request]

TypeOK == StateTyped /\ past \in [Requests -> History]

-----------------------------------------------------------------------------
(***************************************************************************)
(* What a search relies on.                                                *)
(***************************************************************************)

\* A version whose job is not finished has no rows, and a page is never local.
UnfinishedIsUnseen ==
  /\ \A v \in Versions : by[v] = NoModel => rows[v] = 0 /\ v \notin active
  /\ \A d \in Docs : coll[d] = Local <=> Home[d] = Local

InJob(w) == task[w].at \in {"write", "complete"}

\* A worker in a job holds its model's lock, and no other has the job.
JobsAreHeld ==
  \A w \in Workers :
    /\ task[w].at # "idle" => lock[ModelOf[w]] = w
    /\ InJob(w) => task[w].ver \in Versions /\ by[task[w].ver] = NoModel
    /\ ~InJob(w) => task[w].ver = 0
    /\ \A u \in Workers : InJob(w) /\ InJob(u) /\ task[w].ver = task[u].ver => u = w

\* Two versions of a document by one model, both whole, are one.
OneOf(set, m) ==
  \A u, v \in set :
    DocOf[u] = DocOf[v] /\ by[u] = m /\ by[v] = m /\ rows[u] = Size /\ rows[v] = Size => u = v

\* What a worker is about to hide is still all there is by its model.
OneIsActive ==
  /\ \A m \in Models : OneOf(active, m)
  /\ \A w \in Workers : task[w].at = "complete" =>
       \A v \in active : DocOf[v] = DocOf[task[w].ver] /\ by[v] = ModelOf[w] => v \in task[w].sees

IndexInv == UnfinishedIsUnseen /\ JobsAreHeld /\ OneIsActive

-----------------------------------------------------------------------------
(***************************************************************************)
(* What a search under way has.                                            *)
(***************************************************************************)

\* The history is that of the request.
HistoryInv(q) ==
  /\ ~Running(q) /\ req[q].at # "done" => past[q] = Nothing
  /\ Running(q) =>
       /\ Readable(req[q].scope) \subseteq past[q].was
       /\ past[q].stayed \subseteq Readable(req[q].scope)
       /\ IF Active = {} THEN NoModel \in past[q].models
          ELSE \A r \in Active : by[r[1]] \in past[q].models
  /\ Running(q) \/ req[q].at = "done" =>
       past[q].was \subseteq Stored /\ past[q].stayed \subseteq Stored

\* Who searches by vectors holds the model's lock.
SearchIsHeld(q) ==
  /\ Running(q) => req[q].query \in Queries /\ req[q].answer = <<>>
  /\ req[q].at = "keyword" => req[q].mode # "vector"
  /\ req[q].at = "fuse" => req[q].mode = "hybrid"
  /\ req[q].at \in {"resolve", "vector", "explain"} => req[q].mode # "keyword"
  /\ req[q].at \in {"vector", "keyword", "fuse", "explain"} /\ req[q].mode # "keyword"
       => lock[ModelOf[q]] = q

\* An arm: what was searchable, each row once, and everything that matched unless
\* it was cut.
ArmInv(q, arm, matched, limit) ==
  /\ ToSet(arm) \subseteq past[q].was
  /\ IsInjective(arm)
  /\ \A r \in past[q].stayed \cap matched : r \in ToSet(arm) \/ Len(arm) = limit

VersionsIn(arm) == {r[1] : r \in ToSet(arm)}

\* The rows that the vector arm looks at.
Embedded(q) == {r \in Stored : by[r[1]] = ModelOf[q]}

\* Once read, an arm stays good while the other one is read.
ArmsInv(q) ==
  req[q].mode = "hybrid" =>
    /\ req[q].at \in {"keyword", "fuse"} =>
         /\ ArmInv(q, req[q].vector, Embedded(q), Candidates)
         /\ OneOf(VersionsIn(req[q].vector) \cup active, ModelOf[q])
    /\ req[q].at = "fuse" =>
         /\ ArmInv(q, req[q].keyword, Matching[req[q].query], Candidates)
         /\ OneOf(VersionsIn(req[q].vector) \cup VersionsIn(req[q].keyword), ModelOf[q])

\* What may be answered.
Good(q, answer) ==
  /\ ToSet(answer) \subseteq past[q].was
  /\ IsInjective(answer)
  /\ \A r \in past[q].stayed : CouldMatch(q, r) => r \in ToSet(answer) \/ Len(answer) = TopK
  /\ OneOf(VersionsIn(answer), ModelOf[q])

\* Of two rows one of which is no worse in either arm and better in one, that one
\* comes first.
Respects(v, k, list) ==
  \A r \in Rows, i \in DOMAIN list :
    LET s == list[i]
    IN /\ r # s /\ Place(v, r) <= Place(v, s) /\ Place(k, r) <= Place(k, s)
       /\ Place(v, r) < Place(v, s) \/ Place(k, r) < Place(k, s)
       => Rank(list, r) \in 1..(i - 1)

\* What the answer is, or will be when nothing was found.
AnswerInv(q) ==
  /\ req[q].at \in {"explain", "done"} => Good(q, req[q].answer)
  /\ req[q].at = "done" /\ req[q].mode = "hybrid" =>
       Respects(req[q].vector, req[q].keyword, req[q].answer)
  /\ req[q].at = "done" /\ req[q].mode # "keyword" /\ req[q].answer = <<>> =>
       IF req[q].warned THEN \A r \in past[q].stayed : by[r[1]] # ModelOf[q]
       ELSE past[q].models \cap {ModelOf[q], NoModel} # {}

ContextInv(q) ==
  req[q].at = "read" /\ req[q].around # {} =>
    req[q].hit \in req[q].around /\ \A r \in req[q].around : r[1] = req[q].hit[1]

RequestInv(q) ==
  HistoryInv(q) /\ SearchIsHeld(q) /\ ArmsInv(q) /\ AnswerInv(q) /\ ContextInv(q)

IInv == TypeOK /\ IndexInv /\ \A q \in Requests : RequestInv(q)

-----------------------------------------------------------------------------
(***************************************************************************)
(* Lists.                                                                  *)
(***************************************************************************)

LEMMA RowsAreFinite == IsFiniteSet(Rows)
<1>1. IsFiniteSet(1..Size)
  BY SearchAssumption, FS_Interval
<1> QED
  BY <1>1, SearchAssumption, FS_Product DEF Rows

\* What comes before something that is listed is listed before it.
NothingIsSkipped(list, set, order) ==
  \A i \in 1..Len(list), c \in set :
    <<c, list[i]>> \in order => \E j \in 1..(i - 1) : list[j] = c

\* Ranked, in terms of sequences.
LEMMA Lists ==
  ASSUME NEW set, IsFiniteSet(set), NEW order, IsOrder(order, set), NEW limit \in Nat
  PROVE  LET list == Ranked(set, order, limit) IN
         /\ list \in Seq(set) /\ ToSet(list) \subseteq set /\ IsInjective(list)
         /\ Len(list) \in 0..limit
         /\ \A r \in set : r \in ToSet(list) \/ Len(list) = limit
         /\ NothingIsSkipped(list, set, order)
<1> DEFINE list == Ranked(set, order, limit)
           n == Least(Cardinality(set), limit)
<1>1. /\ n \in 0..limit /\ list \in [1..n -> set]
      /\ \A i \in 1..n : Before(set, order, list[i]) = i - 1
      /\ \A i, j \in 1..n : list[i] = list[j] => i = j
      /\ \A c \in set : Before(set, order, c) < n => \E i \in 1..n : list[i] = c
      /\ n < limit => \A c \in set : \E i \in 1..n : list[i] = c
  BY RankedIs
<1> HIDE DEF list, n
<1>2. list \in Seq(set) /\ Len(list) = n /\ DOMAIN list = 1..n
  BY <1>1
<1>3. ToSet(list) = {list[i] : i \in 1..n}
  BY <1>2 DEF ToSet
<1>4. IsInjective(list)
  BY <1>1, <1>2 DEF IsInjective
<1>5. ASSUME NEW i \in 1..n, NEW c \in set, <<c, list[i]>> \in order
      PROVE  \E j \in 1..(i - 1) : list[j] = c
  <2>1. list[i] \in set
    BY <1>1
  <2>2. /\ Before(set, order, c) \in Nat
        /\ Before(set, order, c) < Before(set, order, list[i])
    BY <2>1, <1>5, EarlierIsLess
  <2>3. Before(set, order, c) < i - 1
    BY <2>2, <1>1
  <2>4. PICK j \in 1..n : list[j] = c
    BY <1>1, <2>2, <2>3
  <2>5. Before(set, order, c) = j - 1
    BY <2>4, <1>1
  <2> QED
    BY <2>3, <2>4, <2>5, <1>1
<1>6. \A r \in set : r \in ToSet(list) \/ Len(list) = limit
  BY <1>1, <1>2, <1>3
<1>7. ToSet(list) \subseteq set
  BY <1>1, <1>3
<1>8. NothingIsSkipped(list, set, order)
  BY <1>2, <1>5 DEF NothingIsSkipped
<1> QED
  BY <1>1, <1>2, <1>4, <1>6, <1>7, <1>8 DEF list

\* An order of a set is one of each of its subsets.
LEMMA Orders ==
  ASSUME NEW set, NEW order, IsOrder(order, set), NEW some \in SUBSET set
  PROVE  IsOrder(order, some)
BY DEF IsOrder

\* Of two lists without repetition, the one that has all that the other has is no
\* shorter.
LEMMA NoShorter ==
  ASSUME NEW a \in Seq(Rows), IsInjective(a), NEW b \in Seq(Rows), IsInjective(b),
         ToSet(a) \subseteq ToSet(b)
  PROVE  Len(a) <= Len(b)
<1>1. /\ Len(a) \in Nat /\ Len(b) \in Nat /\ DOMAIN a = 1..Len(a) /\ DOMAIN b = 1..Len(b)
      /\ ToSet(a) = {a[i] : i \in 1..Len(a)} /\ ToSet(b) = {b[i] : i \in 1..Len(b)}
  BY DEF ToSet
<1> DEFINE f == [i \in 1..Len(a) |-> CHOOSE j \in 1..Len(b) : b[j] = a[i]]
<1>2. \A i \in 1..Len(a) : f[i] \in 1..Len(b) /\ b[f[i]] = a[i]
  BY <1>1
<1>3. \A i, j \in 1..Len(a) : a[i] = a[j] => i = j
  BY <1>1 DEF IsInjective
<1>4. f \in [1..Len(a) -> 1..Len(b)] /\ \A i, j \in 1..Len(a) : f[i] = f[j] => i = j
  <2>1. f \in [1..Len(a) -> 1..Len(b)]
    BY <1>2
  <2> HIDE DEF f
  <2> QED
    BY <1>2, <1>3, <2>1
<1> HIDE DEF f
<1>5. f \in Injection(1..Len(a), 1..Len(b))
  BY <1>4 DEF Injection, IsInjective
<1>6. \A n \in Nat : IsFiniteSet(1..n) /\ Cardinality(1..n) = n
  <2> TAKE n \in Nat
  <2>1. IsFiniteSet(1..n) /\ Cardinality(1..n) = IF 1 > n THEN 0 ELSE n - 1 + 1
    BY FS_Interval
  <2> QED
    BY <2>1
<1>7. /\ IsFiniteSet(1..Len(a)) /\ Cardinality(1..Len(a)) = Len(a)
      /\ IsFiniteSet(1..Len(b)) /\ Cardinality(1..Len(b)) = Len(b)
  BY <1>1, <1>6
<1> QED
  BY <1>5, <1>7, FS_Injection

\* The rows an arm chooses from.
Eligible(some, models, scope) ==
  {r \in some \cap Active : InScope(r, scope) /\ by[r[1]] \in models}

LEMMA Arms ==
  ASSUME NEW some \in SUBSET Rows, NEW order, IsOrder(order, some), NEW models, NEW scope,
         NEW limit \in Nat
  PROVE  LET arm == Arm(some, order, models, scope, limit)
             set == Eligible(some, models, scope)
         IN
         /\ arm \in Seq(Rows) /\ ToSet(arm) \subseteq set /\ IsInjective(arm)
         /\ Len(arm) \in 0..limit
         /\ \A r \in set : r \in ToSet(arm) \/ Len(arm) = limit
<1> DEFINE arm == Arm(some, order, models, scope, limit)
           set == Eligible(some, models, scope)
<1>1. set \in SUBSET some /\ set \in SUBSET Rows
  BY DEF Eligible
<1>2. IsFiniteSet(set)
  BY <1>1, RowsAreFinite, FS_Subset
<1>3. IsOrder(order, set)
  BY <1>1, Orders
<1>4. arm = Ranked(set, order, limit)
  BY DEF Arm, Eligible
<1> HIDE DEF set, arm
<1>5. /\ arm \in Seq(set) /\ ToSet(arm) \subseteq set /\ IsInjective(arm)
      /\ Len(arm) \in 0..limit
      /\ \A r \in set : r \in ToSet(arm) \/ Len(arm) = limit
  BY <1>2, <1>3, <1>4, Lists
<1>6. arm \in Seq(Rows)
  BY <1>1, <1>5
<1> QED
  BY <1>5, <1>6 DEF arm, set

LEMMA Limits == TopK \in Nat \ {0} /\ Candidates \in Nat /\ Candidates >= TopK
<1>1. TopK \in Nat \ {0} /\ Multiplier \in Nat \ {0} /\ Minimum \in Nat
  BY SearchAssumption
<1>2. \A a, b \in Nat \ {0} : a * b \in Nat /\ a * b >= a
  OBVIOUS
<1>3. TopK * Multiplier \in Nat /\ TopK * Multiplier >= TopK
  BY <1>1, <1>2
<1> QED
  BY <1>1, <1>3 DEF Candidates

-----------------------------------------------------------------------------
(***************************************************************************)
(* Fusion.                                                                 *)
(***************************************************************************)

LEMMA Ranks ==
  ASSUME NEW arm \in Seq(Rows), IsInjective(arm)
  PROVE  /\ \A r : Rank(arm, r) \in 0..Len(arm)
         /\ \A r : Rank(arm, r) # 0 <=> r \in ToSet(arm)
         /\ \A r \in ToSet(arm) : arm[Rank(arm, r)] = r
         /\ \A i \in DOMAIN arm : Rank(arm, arm[i]) = i
<1>1. DOMAIN arm = 1..Len(arm) /\ Len(arm) \in Nat
  OBVIOUS
<1>2. ToSet(arm) = {arm[i] : i \in 1..Len(arm)}
  BY <1>1 DEF ToSet
<1>3. ASSUME NEW r, r \in ToSet(arm) PROVE Rank(arm, r) \in 1..Len(arm) /\ arm[Rank(arm, r)] = r
  <2>1. \E i \in DOMAIN arm : arm[i] = r
    BY <1>1, <1>2, <1>3
  <2>2. Rank(arm, r) = CHOOSE i \in DOMAIN arm : arm[i] = r
    BY <2>1 DEF Rank
  <2> QED
    BY <1>1, <2>1, <2>2
<1>4. ASSUME NEW r, r \notin ToSet(arm) PROVE Rank(arm, r) = 0
  BY <1>1, <1>2, <1>4 DEF Rank
<1>5. ASSUME NEW i \in DOMAIN arm PROVE Rank(arm, arm[i]) = i
  <2>1. arm[i] \in ToSet(arm)
    BY <1>1, <1>2
  <2>2. Rank(arm, arm[i]) \in DOMAIN arm /\ arm[Rank(arm, arm[i])] = arm[i]
    BY <1>1, <1>3, <2>1
  <2> QED
    BY <2>2 DEF IsInjective
<1> QED
  BY <1>1, <1>3, <1>4, <1>5

Fraction == {x \in Nat \X Nat : x[2] > 0}

\* Fractions are compared as numbers are.
LEMMA Comparing ==
  ASSUME NEW x \in Fraction, NEW y \in Fraction, NEW z \in Fraction
  PROVE  /\ Above(x, y) => ~Above(y, x)
         /\ ~Above(y, x) /\ ~Above(z, y) => ~Above(z, x)
         /\ Above(x, y) /\ ~Above(z, y) => Above(x, z)
         /\ ~Above(y, x) /\ Above(y, z) => Above(x, z)
<1> DEFINE a == x[1]  b == x[2]  c == y[1]  d == y[2]  e == z[1]  f == z[2]
<1>1. a \in Nat /\ b \in Nat \ {0} /\ c \in Nat /\ d \in Nat \ {0} /\ e \in Nat /\ f \in Nat \ {0}
  BY DEF Fraction
<1>2. /\ Above(x, y) <=> a * d > c * b
      /\ Above(y, x) <=> c * b > a * d
      /\ Above(y, z) <=> c * f > e * d
      /\ Above(z, y) <=> e * d > c * f
      /\ Above(x, z) <=> a * f > e * b
      /\ Above(z, x) <=> e * b > a * f
  BY DEF Above
<1> HIDE DEF a, b, c, d, e, f
<1>3. /\ a * d \in Nat /\ c * b \in Nat /\ c * f \in Nat /\ e * d \in Nat
      /\ a * f \in Nat /\ e * b \in Nat
  BY <1>1
<1>4. \A p, q \in Nat, m \in Nat \ {0} : (p >= q <=> p * m >= q * m) /\ (p > q <=> p * m > q * m)
  OBVIOUS
<1>5. /\ (a * d) * f = (a * f) * d /\ (c * b) * f = (c * f) * b /\ (e * d) * b = (e * b) * d
      /\ (a * d) * f \in Nat /\ (c * b) * f \in Nat /\ (e * d) * b \in Nat
  BY <1>1
<1>6. /\ a * d >= c * b <=> (a * d) * f >= (c * b) * f
      /\ a * d > c * b <=> (a * d) * f > (c * b) * f
  BY <1>1, <1>3, <1>4
<1>7. /\ c * f >= e * d <=> (c * f) * b >= (e * d) * b
      /\ c * f > e * d <=> (c * f) * b > (e * d) * b
  BY <1>1, <1>3, <1>4
<1>8. /\ a * f >= e * b <=> (a * f) * d >= (e * b) * d
      /\ a * f > e * b <=> (a * f) * d > (e * b) * d
  BY <1>1, <1>3, <1>4
<1>9. /\ a * d >= c * b /\ c * f >= e * d => a * f >= e * b
      /\ a * d > c * b /\ c * f >= e * d => a * f > e * b
      /\ a * d >= c * b /\ c * f > e * d => a * f > e * b
  <2> DEFINE P == (a * d) * f  Q == (c * b) * f  R == (e * d) * b
  <2>1. P \in Nat /\ Q \in Nat /\ R \in Nat
    BY <1>5
  <2>2. /\ a * d >= c * b <=> P >= Q
        /\ a * d > c * b <=> P > Q
        /\ c * f >= e * d <=> Q >= R
        /\ c * f > e * d <=> Q > R
        /\ a * f >= e * b <=> P >= R
        /\ a * f > e * b <=> P > R
    BY <1>5, <1>6, <1>7, <1>8
  <2> HIDE DEF P, Q, R
  <2>3. /\ P >= Q /\ Q >= R => P >= R
        /\ P > Q /\ Q >= R => P > R
        /\ P >= Q /\ Q > R => P > R
    BY <2>1
  <2> QED
    BY <2>2, <2>3
<1> QED
  BY <1>2, <1>3, <1>9

\* What is met in the arms has a score, and is met at a time of its own.
LEMMA Scores ==
  ASSUME NEW v \in Seq(Rows), IsInjective(v), NEW k \in Seq(Rows), IsInjective(k)
  PROVE  \A r \in ToSet(v) \cup ToSet(k) :
           /\ Score(v, k, r) \in Fraction /\ Met(v, k, r) \in Nat
           /\ \A s \in ToSet(v) \cup ToSet(k) : Met(v, k, r) = Met(v, k, s) => r = s
<1>1. RrfK \in Nat /\ Len(v) \in Nat
  BY SearchAssumption
<1>2. /\ \A r : Rank(v, r) \in 0..Len(v)
      /\ \A r : Rank(v, r) # 0 <=> r \in ToSet(v)
      /\ \A r \in ToSet(v) : v[Rank(v, r)] = r
  BY Ranks
<1>3. /\ \A r : Rank(k, r) \in 0..Len(k)
      /\ \A r : Rank(k, r) # 0 <=> r \in ToSet(k)
      /\ \A r \in ToSet(k) : k[Rank(k, r)] = r
  BY Ranks
<1>4. ASSUME NEW r \in ToSet(v) \cup ToSet(k)
      PROVE  Score(v, k, r) \in Fraction /\ Met(v, k, r) \in Nat
  <2>1. Rank(v, r) \in Nat /\ Rank(k, r) \in Nat /\ (Rank(v, r) # 0 \/ Rank(k, r) # 0)
    BY <1>2, <1>3
  <2>2. \A a, b \in Nat \ {0} : a * b \in Nat \ {0}
    OBVIOUS
  <2>3. CASE Rank(v, r) = 0
    BY <1>1, <2>1, <2>3 DEF Score, Met, Fraction
  <2>4. CASE Rank(v, r) # 0 /\ Rank(k, r) = 0
    BY <1>1, <2>1, <2>4 DEF Score, Met, Fraction
  <2>5. CASE Rank(v, r) # 0 /\ Rank(k, r) # 0
    <3>1. RrfK + Rank(v, r) \in Nat \ {0} /\ RrfK + Rank(k, r) \in Nat \ {0}
      BY <1>1, <2>1, <2>5
    <3>2. /\ (RrfK + Rank(v, r)) * (RrfK + Rank(k, r)) \in Nat \ {0}
          /\ (RrfK + Rank(v, r)) + (RrfK + Rank(k, r)) \in Nat
      BY <3>1, <2>2
    <3>3. Score(v, k, r) = <<(RrfK + Rank(v, r)) + (RrfK + Rank(k, r)),
                             (RrfK + Rank(v, r)) * (RrfK + Rank(k, r))>>
      BY <2>5 DEF Score
    <3> QED
      BY <2>1, <2>5, <3>2, <3>3 DEF Met, Fraction
  <2> QED
    BY <2>3, <2>4, <2>5
<1>5. ASSUME NEW r \in ToSet(v) \cup ToSet(k), NEW s \in ToSet(v) \cup ToSet(k),
             Met(v, k, r) = Met(v, k, s)
      PROVE  r = s
  <2>1. Rank(v, r) \in 0..Len(v) /\ Rank(v, s) \in 0..Len(v)
    BY <1>2
  <2>2. Rank(k, r) \in Nat /\ Rank(k, s) \in Nat
    BY <1>3
  <2>3. CASE Rank(v, r) # 0 /\ Rank(v, s) # 0
    BY <1>2, <1>5, <2>3 DEF Met
  <2>4. CASE Rank(v, r) = 0 /\ Rank(v, s) = 0
    <3>1. Rank(k, r) = Rank(k, s)
      BY <1>1, <1>5, <2>2, <2>4 DEF Met
    <3>2. r \in ToSet(k) /\ s \in ToSet(k)
      BY <1>2, <2>4
    <3> QED
      BY <1>3, <3>1, <3>2
  <2>5. CASE Rank(v, r) # 0 /\ Rank(v, s) = 0
    <3>1. Rank(k, s) # 0
      BY <1>2, <1>3, <2>5
    <3> QED
      BY <1>1, <1>5, <2>1, <2>2, <2>5, <3>1 DEF Met
  <2>6. CASE Rank(v, r) = 0 /\ Rank(v, s) # 0
    <3>1. Rank(k, r) # 0
      BY <1>2, <1>3, <2>6
    <3> QED
      BY <1>1, <1>5, <2>1, <2>2, <2>6, <3>1 DEF Met
  <2> QED
    BY <2>3, <2>4, <2>5, <2>6
<1> QED
  BY <1>4, <1>5

\* sorted has a well defined result: better and met earlier is an order.
LEMMA FusionIsOrdered ==
  ASSUME NEW v \in Seq(Rows), IsInjective(v), NEW k \in Seq(Rows), IsInjective(k)
  PROVE  LET met == ToSet(v) \cup ToSet(k)
         IN  IsOrder({p \in met \X met : Better(v, k, p[1], p[2])}, met)
<1> DEFINE met == ToSet(v) \cup ToSet(k)
           order == {p \in met \X met : Better(v, k, p[1], p[2])}
           score(r) == Score(v, k, r)
           at(r) == Met(v, k, r)
<1>1. \A r \in met : score(r) \in Fraction /\ at(r) \in Nat
  BY Scores
<1>2. \A r, s \in met : at(r) = at(s) => r = s
  BY Scores
<1>3. \A r, s \in met : <<r, s>> \in order <=> Better(v, k, r, s)
  OBVIOUS
<1>4. \A r, s \in met :
        Better(v, k, r, s) <=>
          Above(score(r), score(s)) \/ (~Above(score(s), score(r)) /\ at(r) < at(s))
  BY DEF Better
<1> HIDE DEF met, order, score, at
<1>5. \A r \in met : <<r, r>> \notin order
  <2> TAKE r \in met
  <2>1. ~Above(score(r), score(r))
    BY <1>1, Comparing
  <2> QED
    BY <1>1, <1>3, <1>4, <2>1
<1>6. ASSUME NEW a \in met, NEW b \in met, NEW c \in met, <<a, b>> \in order, <<b, c>> \in order
      PROVE  <<a, c>> \in order
  <2>1. /\ Above(score(a), score(b)) \/ (~Above(score(b), score(a)) /\ at(a) < at(b))
        /\ Above(score(b), score(c)) \/ (~Above(score(c), score(b)) /\ at(b) < at(c))
    BY <1>3, <1>4, <1>6
  <2>2. /\ Above(score(a), score(b)) => ~Above(score(b), score(a))
        /\ Above(score(b), score(c)) => ~Above(score(c), score(b))
    BY <1>1, Comparing
  <2>3. /\ ~Above(score(b), score(a)) /\ ~Above(score(c), score(b)) => ~Above(score(c), score(a))
        /\ Above(score(a), score(b)) /\ ~Above(score(c), score(b)) => Above(score(a), score(c))
        /\ ~Above(score(b), score(a)) /\ Above(score(b), score(c)) => Above(score(a), score(c))
    BY <1>1, Comparing
  <2>4. at(a) \in Nat /\ at(b) \in Nat /\ at(c) \in Nat
    BY <1>1
  <2>5. Above(score(a), score(c)) \/ (~Above(score(c), score(a)) /\ at(a) < at(c))
    BY <2>1, <2>2, <2>3, <2>4
  <2> QED
    BY <1>3, <1>4, <2>5
<1>7. ASSUME NEW a \in met, NEW b \in met, a # b
      PROVE  <<a, b>> \in order \/ <<b, a>> \in order
  <2>1. at(a) # at(b) /\ at(a) \in Nat /\ at(b) \in Nat
    BY <1>1, <1>2, <1>7
  <2>2. at(a) < at(b) \/ at(b) < at(a)
    BY <2>1
  <2> QED
    BY <1>3, <1>4, <2>2
<1>8. IsOrder(order, met)
  BY <1>5, <1>6, <1>7 DEF IsOrder
<1> QED
  BY <1>8 DEF order, met

\* What is no worse in either arm and better in one has the higher score.
LEMMA BetterInBothIsAbove ==
  ASSUME NEW v \in Seq(Rows), IsInjective(v), NEW k \in Seq(Rows), IsInjective(k),
         NEW r, NEW s \in ToSet(v) \cup ToSet(k),
         Place(v, r) <= Place(v, s), Place(k, r) <= Place(k, s),
         Place(v, r) < Place(v, s) \/ Place(k, r) < Place(k, s)
  PROVE  r \in ToSet(v) \cup ToSet(k) /\ Above(Score(v, k, r), Score(v, k, s))
<1> DEFINE a == RrfK + Rank(v, r)
           b == RrfK + Rank(k, r)
           c == RrfK + Rank(v, s)
           d == RrfK + Rank(k, s)
<1>1. RrfK \in Nat /\ Len(v) \in Nat /\ Len(k) \in Nat
  BY SearchAssumption
<1>2. /\ Rank(v, r) \in 0..Len(v) /\ Rank(v, s) \in 0..Len(v)
      /\ Rank(k, r) \in 0..Len(k) /\ Rank(k, s) \in 0..Len(k)
  BY Ranks
<1>3. /\ Rank(v, r) # 0 <=> r \in ToSet(v)
      /\ Rank(v, s) # 0 <=> s \in ToSet(v)
      /\ Rank(k, r) # 0 <=> r \in ToSet(k)
      /\ Rank(k, s) # 0 <=> s \in ToSet(k)
  BY Ranks
<1>4. Rank(v, s) # 0 => Rank(v, r) # 0 /\ a <= c
  BY <1>1, <1>2 DEF Place
<1>5. Rank(k, s) # 0 => Rank(k, r) # 0 /\ b <= d
  BY <1>1, <1>2 DEF Place
<1>6. /\ Rank(v, r) # 0 => a \in Nat \ {0}
      /\ Rank(k, r) # 0 => b \in Nat \ {0}
      /\ Rank(v, s) # 0 => c \in Nat \ {0}
      /\ Rank(k, s) # 0 => d \in Nat \ {0}
  <2>1. \A n \in Nat \ {0} : RrfK + n \in Nat \ {0}
    BY <1>1
  <2>2. /\ Rank(v, r) \in Nat /\ Rank(v, s) \in Nat
        /\ Rank(k, r) \in Nat /\ Rank(k, s) \in Nat
    BY <1>1, <1>2
  <2> QED
    BY <2>1, <2>2
<1>7. /\ Rank(v, s) # 0 /\ Place(v, r) < Place(v, s) => a < c
      /\ Rank(k, s) # 0 /\ Place(k, r) < Place(k, s) => b < d
      /\ Rank(v, s) = 0 /\ Place(v, r) < Place(v, s) => Rank(v, r) # 0
      /\ Rank(k, s) = 0 /\ Place(k, r) < Place(k, s) => Rank(k, r) # 0
  BY <1>1, <1>2 DEF Place
<1>8. /\ Rank(v, r) = 0 => Score(v, k, r) = <<1, b>>
      /\ Rank(v, r) # 0 /\ Rank(k, r) = 0 => Score(v, k, r) = <<1, a>>
      /\ Rank(v, r) # 0 /\ Rank(k, r) # 0 => Score(v, k, r) = <<a + b, a * b>>
      /\ Rank(v, s) = 0 => Score(v, k, s) = <<1, d>>
      /\ Rank(v, s) # 0 /\ Rank(k, s) = 0 => Score(v, k, s) = <<1, c>>
      /\ Rank(v, s) # 0 /\ Rank(k, s) # 0 => Score(v, k, s) = <<c + d, c * d>>
  BY DEF Score
<1>9. /\ Place(v, r) = Place(v, s) \/ Place(v, r) < Place(v, s)
      /\ Place(k, r) = Place(k, s) \/ Place(k, r) < Place(k, s)
  BY <1>1, <1>2 DEF Place
<1> HIDE DEF a, b, c, d
<1>10. ASSUME NEW p \in Nat \ {0}, NEW q \in Nat \ {0}, NEW m \in Nat \ {0}, p <= m
       PROVE  (p + q) * m > 1 * (p * q) /\ (p + q) * m > 1 * (q * p)
  <2>1. (p + q) * m = p * m + q * m /\ q * m >= q * p /\ p * m > 0 /\ p * q = q * p
    BY <1>10
  <2>2. p * m \in Nat /\ q * m \in Nat /\ q * p \in Nat
    OBVIOUS
  <2> QED
    BY <2>1, <2>2
<1>11. ASSUME NEW p \in Nat \ {0}, NEW q \in Nat \ {0}, NEW m \in Nat \ {0}, NEW n \in Nat \ {0},
              p <= m, q <= n, p < m \/ q < n
       PROVE  (p + q) * (m * n) > (m + n) * (p * q)
  <2>1. /\ (p + q) * (m * n) = (p * m) * n + (q * n) * m
        /\ (m + n) * (p * q) = (p * m) * q + (q * n) * p
    OBVIOUS
  <2>2. p * m \in Nat \ {0} /\ q * n \in Nat \ {0}
    OBVIOUS
  <2>3. \A x \in Nat \ {0}, y, z \in Nat :
          /\ x * y \in Nat /\ x * z \in Nat
          /\ y <= z => x * y <= x * z
          /\ y < z => x * y < x * z
    OBVIOUS
  <2>4. /\ (p * m) * q <= (p * m) * n /\ (q < n => (p * m) * q < (p * m) * n)
        /\ (q * n) * p <= (q * n) * m /\ (p < m => (q * n) * p < (q * n) * m)
        /\ (p * m) * q \in Nat /\ (p * m) * n \in Nat /\ (q * n) * p \in Nat /\ (q * n) * m \in Nat
    BY <2>2, <2>3, <1>11
  <2> QED
    BY <2>1, <2>4, <1>11
<1>12. CASE Rank(v, s) # 0 /\ Rank(k, s) # 0
  <2>1. a <= c /\ b <= d /\ Rank(v, r) # 0 /\ Rank(k, r) # 0
    BY <1>4, <1>5, <1>12
  <2>2. a < c \/ b < d
    BY <1>7, <1>12
  <2>3. (a + b) * (c * d) > (c + d) * (a * b)
    BY <1>6, <1>11, <1>12, <2>1, <2>2
  <2> QED
    BY <1>3, <1>8, <1>12, <2>1, <2>3 DEF Above
<1>13. CASE Rank(v, s) # 0 /\ Rank(k, s) = 0
  <2>1. a <= c /\ Rank(v, r) # 0
    BY <1>4, <1>13
  <2>2. CASE Rank(k, r) # 0
    <3>1. (a + b) * c > 1 * (a * b)
      BY <1>6, <1>10, <1>13, <2>1, <2>2
    <3> QED
      BY <1>3, <1>8, <1>13, <2>1, <2>2, <3>1 DEF Above
  <2>3. CASE Rank(k, r) = 0
    <3>1. a < c
      BY <1>7, <1>13, <2>3
    <3>2. 1 * c > 1 * a
      BY <1>6, <1>13, <2>1, <3>1
    <3> QED
      BY <1>3, <1>8, <1>13, <2>1, <2>3, <3>2 DEF Above
  <2> QED
    BY <2>2, <2>3
<1>14. CASE Rank(v, s) = 0
  <2>1. Rank(k, s) # 0
    BY <1>3, <1>14
  <2>2. b <= d /\ Rank(k, r) # 0
    BY <1>5, <2>1
  <2>3. CASE Rank(v, r) # 0
    <3>1. (b + a) * d > 1 * (a * b)
      BY <1>6, <1>10, <2>1, <2>2, <2>3
    <3>2. b + a = a + b
      BY <1>6, <2>2, <2>3
    <3> QED
      BY <1>3, <1>8, <1>14, <2>2, <2>3, <3>1, <3>2 DEF Above
  <2>4. CASE Rank(v, r) = 0
    <3>1. b < d
      BY <1>7, <1>14, <2>1, <2>4
    <3>2. 1 * d > 1 * b
      BY <1>6, <2>1, <2>2, <3>1
    <3> QED
      BY <1>3, <1>8, <1>14, <2>2, <2>4, <3>2 DEF Above
  <2> QED
    BY <2>3, <2>4
<1> QED
  BY <1>12, <1>13, <1>14

LEMMA Fusing ==
  ASSUME NEW v \in Seq(Rows), IsInjective(v), NEW k \in Seq(Rows), IsInjective(k)
  PROVE  LET met == ToSet(v) \cup ToSet(k)
             list == Fused(v, k)
         IN
         /\ list \in Seq(Rows) /\ ToSet(list) \subseteq met /\ IsInjective(list)
         /\ Len(list) <= TopK
         /\ \A r \in met : r \in ToSet(list) \/ Len(list) = TopK
         /\ Respects(v, k, list)
<1> DEFINE met == ToSet(v) \cup ToSet(k)
           order == {p \in met \X met : Better(v, k, p[1], p[2])}
           list == Fused(v, k)
<1>1. met \in SUBSET Rows /\ IsFiniteSet(met)
  <2>1. met \in SUBSET Rows
    BY DEF ToSet
  <2> QED
    BY <2>1, RowsAreFinite, FS_Subset
<1>2. IsOrder(order, met)
  BY FusionIsOrdered
<1>3. list = Ranked(met, order, TopK)
  BY DEF Fused
<1>4. \A r, s \in met : <<r, s>> \in order <=> Better(v, k, r, s)
  OBVIOUS
<1>5. \A r, s \in met : Above(Score(v, k, r), Score(v, k, s)) => Better(v, k, r, s)
  BY DEF Better
<1> HIDE DEF order
<1>6. /\ list \in Seq(met) /\ ToSet(list) \subseteq met /\ IsInjective(list)
      /\ Len(list) <= TopK
      /\ \A r \in met : r \in ToSet(list) \/ Len(list) = TopK
      /\ NothingIsSkipped(list, met, order)
  <2> HIDE DEF met, list
  <2>1. TopK \in Nat
    BY Limits
  <2>2. /\ list \in Seq(met) /\ ToSet(list) \subseteq met /\ IsInjective(list)
        /\ Len(list) \in 0..TopK
        /\ \A r \in met : r \in ToSet(list) \/ Len(list) = TopK
        /\ NothingIsSkipped(list, met, order)
    BY <1>1, <1>2, <1>3, <2>1, Lists
  <2>3. Len(list) <= TopK
    BY <2>1, <2>2
  <2> QED
    BY <2>2, <2>3
<1> HIDE DEF list
<1>7. list \in Seq(Rows)
  BY <1>1, <1>6
<1>8. ASSUME NEW r \in Rows, NEW i \in DOMAIN list,
             Place(v, r) <= Place(v, list[i]), Place(k, r) <= Place(k, list[i]),
             Place(v, r) < Place(v, list[i]) \/ Place(k, r) < Place(k, list[i])
      PROVE  Rank(list, r) \in 1..(i - 1)
  <2>1. list[i] \in met /\ i \in 1..Len(list)
    BY <1>6
  <2>2. r \in met /\ Above(Score(v, k, r), Score(v, k, list[i]))
    BY <1>8, <2>1, BetterInBothIsAbove
  <2>3. PICK j \in 1..(i - 1) : list[j] = r
    BY <1>4, <1>5, <1>6, <2>1, <2>2 DEF NothingIsSkipped
  <2>4. j \in DOMAIN list
    BY <1>6, <2>1
  <2>5. Rank(list, list[j]) = j
    BY <1>6, <1>7, <2>4, Ranks
  <2> QED
    BY <2>3, <2>5
<1>9. Respects(v, k, list)
  BY <1>8 DEF Respects
<1> QED
  BY <1>6, <1>7, <1>9 DEF list, met

-----------------------------------------------------------------------------
(***************************************************************************)
(* The index and the locks.                                                *)
(***************************************************************************)

LEMMA Constants ==
  /\ \A v \in Versions : DocOf[v] \in Docs /\ v # 0
  /\ Size \in Nat \ {0}
  /\ \A t \in Workers \cup Requests : ModelOf[t] \in Models /\ t # NoOne
  /\ \A w \in Workers : w \notin Requests
  /\ NoModel \notin Models
BY SearchAssumption

LEMMA Releases ==
  ASSUME StateTyped, NEW t \in Workers \cup Requests, Release(t)
  PROVE  /\ lock' \in [Models -> Workers \cup Requests \cup {NoOne}]
         /\ \A m \in Models : lock'[m] # t
         /\ \A m \in Models : lock[m] # t => lock'[m] = lock[m]
         /\ \A m \in Models : lock'[m] # NoOne => lock'[m] = lock[m]
BY Constants DEF Release, StateTyped

LEMMA NoTaskTyped == NoTask \in Job
BY DEF NoTask, Job

LEMMA NotAskedTyped == NotAsked \in Request
<1>1. <<>> \in Seq(Rows)
  OBVIOUS
<1> QED
  BY <1>1 DEF NotAsked, Request, Modes

\* A job is in the state its steps leave it in.
LEMMA JobTyped ==
  ASSUME StateTyped, NEW w \in Workers
  PROVE  task[w] \in Job /\ task[w].ver \in Versions \cup {0}
         /\ task[w].at \in {"idle", "claim", "write", "complete"}
         /\ task[w].sees \in SUBSET Versions
BY DEF StateTyped, Job

LEMMA RequestTyped ==
  ASSUME StateTyped, NEW q \in Requests
  PROVE  /\ req[q] \in Request
         /\ req[q].at \in {"idle", "resolve", "vector", "keyword", "fuse", "explain", "done",
                           "failed", "read"}
         /\ req[q].mode \in Modes /\ req[q].query \in Queries \cup {0}
         /\ req[q].vector \in Seq(Rows) /\ req[q].keyword \in Seq(Rows)
         /\ req[q].answer \in Seq(Rows)
         /\ req[q].scope \in [local : BOOLEAN, allowed : SUBSET Collections]
BY DEF StateTyped, Request

\* The arms of a request.
LEMMA ArmsOfRequest ==
  ASSUME StateTyped, NEW q \in Requests, req[q].query \in Queries, NEW limit \in Nat
  PROVE  /\ VectorArm(q, limit) \in Seq(Rows)
         /\ ToSet(VectorArm(q, limit)) \subseteq Eligible(Rows, {ModelOf[q]}, req[q].scope)
         /\ IsInjective(VectorArm(q, limit))
         /\ \A r \in Eligible(Rows, {ModelOf[q]}, req[q].scope) :
              r \in ToSet(VectorArm(q, limit)) \/ Len(VectorArm(q, limit)) = limit
         /\ KeywordArm(q, limit) \in Seq(Rows)
         /\ ToSet(KeywordArm(q, limit))
              \subseteq Eligible(Matching[req[q].query], Models, req[q].scope)
         /\ IsInjective(KeywordArm(q, limit))
         /\ \A r \in Eligible(Matching[req[q].query], Models, req[q].scope) :
              r \in ToSet(KeywordArm(q, limit)) \/ Len(KeywordArm(q, limit)) = limit
<1>1. /\ IsOrder(Nearer[req[q].query], Rows) /\ Matching[req[q].query] \in SUBSET Rows
      /\ IsOrder(Fitter[req[q].query], Matching[req[q].query])
  BY SearchAssumption
<1>2. Rows \in SUBSET Rows
  OBVIOUS
<1> DEFINE vector == Arm(Rows, Nearer[req[q].query], {ModelOf[q]}, req[q].scope, limit)
           keyword == Arm(Matching[req[q].query], Fitter[req[q].query], Models, req[q].scope, limit)
<1>3. vector = VectorArm(q, limit) /\ keyword = KeywordArm(q, limit)
  BY DEF VectorArm, KeywordArm
<1>4. /\ vector \in Seq(Rows)
      /\ ToSet(vector) \subseteq Eligible(Rows, {ModelOf[q]}, req[q].scope)
      /\ IsInjective(vector)
      /\ \A r \in Eligible(Rows, {ModelOf[q]}, req[q].scope) :
           r \in ToSet(vector) \/ Len(vector) = limit
  BY <1>1, <1>2, Arms
<1>5. /\ keyword \in Seq(Rows)
      /\ ToSet(keyword) \subseteq Eligible(Matching[req[q].query], Models, req[q].scope)
      /\ IsInjective(keyword)
      /\ \A r \in Eligible(Matching[req[q].query], Models, req[q].scope) :
           r \in ToSet(keyword) \/ Len(keyword) = limit
  BY <1>1, Arms
<1> HIDE DEF vector, keyword
<1> QED
  BY <1>3, <1>4, <1>5

WorkerDoes(w) == ResolveEmbeddingModel(w) \/ WorkerStep(w)

PageMoves(d) == RetireDocument(d) \/ \E c \in Collections \cup {Unknown} : SyncPage(d, c)

RequestDoes(q) ==
  \/ SearchStep(q) \/ Fail(q) \/ GetChunkContext(q)
  \/ \E k \in Queries, s \in Scopes, m \in Modes : Ask(q, k, s, m)

LEMMA StepsAre ==
  ASSUME [Next]_vars
  PROVE  \/ UNCHANGED vars
         \/ Remember /\ \E w \in Workers : WorkerDoes(w)
         \/ Remember /\ \E d \in Docs : PageMoves(d)
         \/ Remember /\ \E q \in Requests : RequestDoes(q)
BY DEF Next, WorkerDoes, PageMoves, RequestDoes

\* A worker's step concerns its job, the version it indexes and the lock it has.
LEMMA WorkerStepsAreLocal ==
  ASSUME StateTyped, JobsAreHeld, NEW w \in Workers, WorkerDoes(w)
  PROVE  /\ StateTyped' /\ UNCHANGED <<coll, gone, req>>
         /\ \A u \in Workers \ {w} : task'[u] = task[u]
         /\ \A m \in Models : lock'[m] = lock[m] \/ lock[m] = w \/ (lock[m] = NoOne /\ lock'[m] = w)
<1> DEFINE LockGoal == /\ lock' \in [Models -> Workers \cup Requests \cup {NoOne}]
                       /\ \A m \in Models : \/ lock'[m] = lock[m] \/ lock[m] = w
                                            \/ (lock[m] = NoOne /\ lock'[m] = w)
           RowGoal == /\ rows' \in [Versions -> 0..Size] /\ active' \in SUBSET Versions
                      /\ by' \in [Versions -> Models \cup {NoModel}]
           TaskGoal == \E j \in Job : task' = [task EXCEPT ![w] = j]
<1>1. /\ task[w] \in Job /\ task \in [Workers -> Job]
      /\ InJob(w) => task[w].ver \in Versions
      /\ ModelOf[w] \in Models
  BY JobTyped, Constants DEF JobsAreHeld, StateTyped
<1>2. TaskGoal /\ RowGoal /\ LockGoal /\ UNCHANGED <<coll, gone, req>> =>
        /\ StateTyped' /\ UNCHANGED <<coll, gone, req>>
        /\ \A u \in Workers \ {w} : task'[u] = task[u]
        /\ \A m \in Models : lock'[m] = lock[m] \/ lock[m] = w \/ (lock[m] = NoOne /\ lock'[m] = w)
  BY DEF StateTyped
<1>3. UNCHANGED <<rows, active, by>> => RowGoal
  BY DEF StateTyped
<1>4. UNCHANGED lock \/ Release(w) => LockGoal
  BY Releases DEF StateTyped
<1>5. lock[ModelOf[w]] = NoOne /\ lock' = [lock EXCEPT ![ModelOf[w]] = w] => LockGoal
  BY <1>1 DEF StateTyped
<1>6. /\ [task[w] EXCEPT !.at = "claim"] \in Job
      /\ \A v \in Versions : [task[w] EXCEPT !.ver = v, !.at = "write"] \in Job
      /\ \A b \in BOOLEAN, set \in SUBSET Versions :
           [task[w] EXCEPT !.at = "complete", !.show = b, !.sees = set] \in Job
  BY <1>1 DEF Job
<1>7. task' = [task EXCEPT ![w] = NoTask] => TaskGoal
  BY NoTaskTyped
<1> HIDE DEF LockGoal, RowGoal
<1>8. CASE ResolveEmbeddingModel(w)
  <2>1. TaskGoal
    BY <1>1, <1>6, <1>8 DEF ResolveEmbeddingModel
  <2> QED
    BY <1>2, <1>3, <1>5, <1>8, <2>1 DEF ResolveEmbeddingModel
<1>9. CASE ClaimNextJob(w)
  <2>1. PICK v \in Versions : task' = [task EXCEPT ![w].ver = v, ![w].at = "write"]
    BY <1>9 DEF ClaimNextJob, Pending
  <2>2. TaskGoal
    BY <1>1, <1>6, <2>1
  <2> QED
    BY <1>2, <1>3, <1>4, <1>9, <2>2 DEF ClaimNextJob
<1>10. CASE FindNoJob(w)
  BY <1>2, <1>3, <1>4, <1>7, <1>10 DEF FindNoJob
<1>11. CASE StartCompleting(w)
  <2>1. (~gone[DocOf[task[w].ver]]) \in BOOLEAN
    OBVIOUS
  <2>2. VersionsOf(DocOf[task[w].ver]) \cap active \in SUBSET Versions
    BY DEF VersionsOf
  <2>3. TaskGoal
    BY <1>1, <1>6, <1>11, <2>1, <2>2 DEF StartCompleting
  <2> QED
    BY <1>2, <1>3, <1>4, <1>11, <2>3 DEF StartCompleting
<1>12. CASE CompleteIndexing(w)
  <2>1. task[w].ver \in Versions /\ Size \in 0..Size
    BY <1>1, <1>12, Constants DEF CompleteIndexing, InJob
  <2>2. RowGoal
    BY <1>1, <1>12, <2>1 DEF CompleteIndexing, StateTyped, RowGoal
  <2> QED
    BY <1>2, <1>4, <1>7, <1>12, <2>2 DEF CompleteIndexing
<1>13. CASE MarkJobFailed(w)
  <2>1. task[w].ver \in Versions /\ 0..(Size - 1) \subseteq 0..Size
    BY <1>1, <1>13, Constants DEF MarkJobFailed, InJob
  <2>2. RowGoal
    BY <1>1, <1>13, <2>1 DEF MarkJobFailed, StateTyped, RowGoal
  <2> QED
    BY <1>2, <1>4, <1>7, <1>13, <2>2 DEF MarkJobFailed
<1> QED
  BY <1>8, <1>9, <1>10, <1>11, <1>12, <1>13 DEF WorkerDoes, WorkerStep

\* A page that moves keeps its text, and does not become a local document.
LEMMA PageStepsAreLocal ==
  ASSUME StateTyped, NEW d \in Docs, PageMoves(d)
  PROVE  /\ StateTyped' /\ UNCHANGED <<rows, by, lock, task, req>>
         /\ active' \subseteq active
         /\ \A w \in Workers : active' # active /\ InJob(w) => DocOf[task[w].ver] # d
         /\ \A c \in Docs : coll'[c] = Local <=> coll[c] = Local
<1>1. CASE RetireDocument(d)
  BY <1>1 DEF RetireDocument, StateTyped, InJob
<1>2. ASSUME NEW c \in Collections \cup {Unknown}, SyncPage(d, c)
      PROVE  /\ StateTyped' /\ UNCHANGED <<rows, by, lock, task, req, active>>
             /\ \A b \in Docs : coll'[b] = Local <=> coll[b] = Local
  BY <1>2, SearchAssumption DEF SyncPage, StateTyped
<1> QED
  BY <1>1, <1>2 DEF PageMoves

\* The rows around a hit are rows.
LEMMA ContextTyped ==
  ASSUME NEW q, NEW hit
  PROVE  Context(q, hit) \in SUBSET Rows
BY DEF Context, Stored

\* A request's step concerns itself and the lock it has.
LEMMA RequestStepsAreLocal ==
  ASSUME StateTyped, NEW q \in Requests, SearchIsHeld(q), ArmsInv(q), RequestDoes(q)
  PROVE  /\ StateTyped' /\ UNCHANGED index
         /\ \A p \in Requests \ {q} : req'[p] = req[p]
         /\ \A m \in Models : lock'[m] = lock[m] \/ lock[m] = q \/ (lock[m] = NoOne /\ lock'[m] = q)
<1> DEFINE Goal == /\ lock' \in [Models -> Workers \cup Requests \cup {NoOne}]
                   /\ \A m \in Models : \/ lock'[m] = lock[m] \/ lock[m] = q
                                        \/ (lock[m] = NoOne /\ lock'[m] = q)
                   /\ \E r \in Request : req' = [req EXCEPT ![q] = r]
                   /\ UNCHANGED index
<1> SUFFICES Goal
  BY DEF StateTyped, index
<1>1. /\ req[q] \in Request /\ req \in [Requests -> Request]
      /\ lock \in [Models -> Workers \cup Requests \cup {NoOne}]
      /\ ModelOf[q] \in Models
  BY RequestTyped, Constants DEF StateTyped
<1>2. /\ [req[q] EXCEPT !.at = "vector"] \in Request
      /\ [req[q] EXCEPT !.at = "explain"] \in Request
      /\ \A arm \in Seq(Rows) : [req[q] EXCEPT !.at = "done", !.answer = arm] \in Request
      /\ \A arm \in Seq(Rows) : [req[q] EXCEPT !.at = "keyword", !.vector = arm] \in Request
      /\ \A arm \in Seq(Rows) : [req[q] EXCEPT !.at = "fuse", !.keyword = arm] \in Request
      /\ \A b \in BOOLEAN : [req[q] EXCEPT !.at = "done", !.warned = b] \in Request
      /\ [NotAsked EXCEPT !.at = "failed"] \in Request
      /\ \A hit \in Rows, set \in SUBSET Rows :
           [NotAsked EXCEPT !.at = "read", !.hit = hit, !.around = set] \in Request
  <2> USE DEF Request
  <2>1. [req[q] EXCEPT !.at = "vector"] \in Request /\ [req[q] EXCEPT !.at = "explain"] \in Request
    BY <1>1
  <2>2. \A arm \in Seq(Rows) : [req[q] EXCEPT !.at = "done", !.answer = arm] \in Request
    BY <1>1
  <2>3. \A arm \in Seq(Rows) : [req[q] EXCEPT !.at = "keyword", !.vector = arm] \in Request
    BY <1>1
  <2>4. \A arm \in Seq(Rows) : [req[q] EXCEPT !.at = "fuse", !.keyword = arm] \in Request
    BY <1>1
  <2>5. \A b \in BOOLEAN : [req[q] EXCEPT !.at = "done", !.warned = b] \in Request
    BY <1>1
  <2>6. [NotAsked EXCEPT !.at = "failed"] \in Request
    BY NotAskedTyped
  <2>7. \A hit \in Rows, set \in SUBSET Rows :
          [NotAsked EXCEPT !.at = "read", !.hit = hit, !.around = set] \in Request
    BY NotAskedTyped
  <2> QED
    BY <2>1, <2>2, <2>3, <2>4, <2>5, <2>6, <2>7
<1>3. ASSUME NEW answer \in Seq(Rows), Finish(q, answer), UNCHANGED index PROVE Goal
  <2>1. CASE req' = [req EXCEPT ![q].at = "explain"] /\ UNCHANGED lock
    BY <1>1, <1>2, <1>3, <2>1
  <2>2. CASE req' = [req EXCEPT ![q].at = "done", ![q].answer = answer] /\ Release(q)
    BY <1>1, <1>2, <1>3, <2>2, Releases
  <2> QED
    BY <1>3, <2>1, <2>2 DEF Finish
<1>4. CASE ResolveModel(q)
  BY <1>1, <1>2, <1>4 DEF ResolveModel
<1>5. CASE SearchChunks(q)
  <2>1. req[q].query \in Queries
    BY <1>5 DEF SearchChunks, SearchIsHeld, Running
  <2>2. VectorArm(q, TopK) \in Seq(Rows) /\ VectorArm(q, Candidates) \in Seq(Rows)
    BY <2>1, Limits, ArmsOfRequest
  <2>3. CASE req[q].mode = "vector"
    BY <1>3, <1>5, <2>2, <2>3 DEF SearchChunks
  <2>4. CASE req[q].mode # "vector"
    BY <1>1, <1>2, <1>5, <2>2, <2>4 DEF SearchChunks
  <2> QED
    BY <2>3, <2>4
<1>6. CASE SearchChunksKeyword(q)
  <2>1. req[q].query \in Queries
    BY <1>6 DEF SearchChunksKeyword, SearchIsHeld, Running
  <2>2. KeywordArm(q, TopK) \in Seq(Rows) /\ KeywordArm(q, Candidates) \in Seq(Rows)
    BY <2>1, Limits, ArmsOfRequest
  <2>3. CASE req[q].mode = "keyword"
    BY <1>3, <1>6, <2>2, <2>3 DEF SearchChunksKeyword
  <2>4. CASE req[q].mode # "keyword"
    BY <1>1, <1>2, <1>6, <2>2, <2>4 DEF SearchChunksKeyword
  <2> QED
    BY <2>3, <2>4
<1>7. CASE Fuse(q)
  <2>1. Fused(req[q].vector, req[q].keyword) \in Seq(Rows)
    <3>1. IsInjective(req[q].vector) /\ IsInjective(req[q].keyword)
      BY <1>7 DEF Fuse, SearchIsHeld, ArmsInv, ArmInv
    <3> QED
      BY <3>1, RequestTyped, Fusing
  <2> QED
    BY <1>3, <1>7, <2>1 DEF Fuse
<1>8. CASE Explain(q)
  <2>1. (Coverage # {} /\ ModelOf[q] \notin Coverage) \in BOOLEAN
    OBVIOUS
  <2> QED
    BY <1>1, <1>2, <1>8, <2>1, Releases DEF Explain
<1>9. CASE Fail(q)
  BY <1>1, <1>2, <1>9, Releases DEF Fail
<1>10. CASE GetChunkContext(q)
  <2>1. PICK hit \in ToSet(req[q].answer) :
          req' = [req EXCEPT ![q] = [NotAsked EXCEPT !.at = "read", !.hit = hit,
                                                     !.around = Context(q, hit)]]
    BY <1>10 DEF GetChunkContext
  <2>2. hit \in Rows /\ Context(q, hit) \in SUBSET Rows
    BY RequestTyped, ContextTyped DEF ToSet
  <2>3. UNCHANGED index /\ UNCHANGED lock
    BY <1>10 DEF GetChunkContext
  <2> QED
    BY <1>1, <1>2, <2>1, <2>2, <2>3
<1>11. ASSUME NEW k \in Queries, NEW s \in Scopes, NEW m \in Modes, Ask(q, k, s, m) PROVE Goal
  <2>1. s \in [local : BOOLEAN, allowed : SUBSET Collections]
    BY SearchAssumption
  <2>2. [NotAsked EXCEPT !.query = k, !.scope = s, !.mode = m,
           !.at = IF m = "keyword" THEN "keyword" ELSE "resolve"] \in Request
    BY <2>1, NotAskedTyped DEF Request
  <2> QED
    BY <1>1, <1>11, <2>2 DEF Ask
<1> QED
  BY <1>4, <1>5, <1>6, <1>7, <1>8, <1>9, <1>10, <1>11 DEF RequestDoes, SearchStep

Ends(w) == CompleteIndexing(w) \/ MarkJobFailed(w)

\* Either way a job ends, it ends for its version alone.
LEMMA Ending ==
  ASSUME StateTyped, JobsAreHeld, NEW w \in Workers, Ends(w)
  PROVE  /\ InJob(w) /\ task[w].ver \in Versions /\ by[task[w].ver] = NoModel
         /\ lock[ModelOf[w]] = w
         /\ by' = [by EXCEPT ![task[w].ver] = ModelOf[w]]
         /\ \A v \in Versions : v # task[w].ver => rows'[v] = rows[v]
         /\ active' \subseteq active \cup {task[w].ver}
         /\ task' = [task EXCEPT ![w] = NoTask]
         /\ Release(w)
<1>1. InJob(w)
  BY DEF Ends, CompleteIndexing, MarkJobFailed, InJob
<1>2. task[w].ver \in Versions /\ by[task[w].ver] = NoModel /\ lock[ModelOf[w]] = w
  BY <1>1 DEF JobsAreHeld, InJob
<1>3. CASE CompleteIndexing(w)
  BY <1>1, <1>2, <1>3 DEF CompleteIndexing, StateTyped
<1>4. CASE MarkJobFailed(w)
  BY <1>1, <1>2, <1>4 DEF MarkJobFailed, StateTyped
<1> QED
  BY <1>3, <1>4 DEF Ends

LEMMA OthersLeaveTheRows ==
  ASSUME NEW w \in Workers, WorkerDoes(w), ~Ends(w)
  PROVE  UNCHANGED <<rows, active, by>>
BY DEF WorkerDoes, WorkerStep, Ends, ResolveEmbeddingModel, ClaimNextJob, FindNoJob, StartCompleting

\* What is indexed stays as it is: rows are neither written nor deleted again.
LEMMA IndexedIsKept ==
  ASSUME StateTyped, IndexInv, NEW w \in Workers, WorkerDoes(w)
  PROVE  \A v \in Versions : by[v] # NoModel => by'[v] = by[v] /\ rows'[v] = rows[v]
<1>1. CASE Ends(w)
  BY <1>1, Ending DEF IndexInv, StateTyped
<1>2. CASE ~Ends(w)
  BY <1>2, OthersLeaveTheRows
<1> QED
  BY <1>1, <1>2

LEMMA UnseenKept ==
  ASSUME StateTyped, IndexInv, NEW w \in Workers, WorkerDoes(w)
  PROVE  UnfinishedIsUnseen'
<1>1. UNCHANGED coll
  BY WorkerStepsAreLocal DEF IndexInv
<1>2. CASE Ends(w)
  <2>1. /\ by' = [by EXCEPT ![task[w].ver] = ModelOf[w]] /\ task[w].ver \in Versions
        /\ \A v \in Versions : v # task[w].ver => rows'[v] = rows[v]
        /\ active' \subseteq active \cup {task[w].ver}
        /\ ModelOf[w] # NoModel
    BY <1>2, Ending, Constants DEF IndexInv
  <2> QED
    BY <1>1, <2>1 DEF IndexInv, UnfinishedIsUnseen, StateTyped
<1>3. CASE ~Ends(w)
  <2>1. UNCHANGED <<rows, active, by>>
    BY <1>3, OthersLeaveTheRows
  <2> QED
    BY <1>1, <2>1 DEF IndexInv, UnfinishedIsUnseen
<1> QED
  BY <1>2, <1>3

\* A worker that has a lock or a job keeps it while another one does something.
LEMMA HeldKept ==
  ASSUME StateTyped, IndexInv, NEW w \in Workers, WorkerDoes(w)
  PROVE  JobsAreHeld'
<1>1. /\ StateTyped' /\ \A u \in Workers \ {w} : task'[u] = task[u]
      /\ \A m \in Models : lock'[m] = lock[m] \/ lock[m] = w \/ (lock[m] = NoOne /\ lock'[m] = w)
  BY WorkerStepsAreLocal DEF IndexInv
<1>2. /\ \A u \in Workers : task[u].at # "idle" => lock[ModelOf[u]] = u
      /\ \A u \in Workers : InJob(u) => task[u].ver \in Versions /\ by[task[u].ver] = NoModel
      /\ \A u \in Workers : ~InJob(u) => task[u].ver = 0
      /\ \A t, u \in Workers : InJob(t) /\ InJob(u) /\ task[t].ver = task[u].ver => u = t
  BY DEF IndexInv, JobsAreHeld
<1>3. ASSUME NEW v \in Versions, by[v] = NoModel, ~Ends(w) \/ v # task[w].ver
      PROVE  by'[v] = NoModel
  <2>1. CASE Ends(w)
    BY <1>3, <2>1, Ending DEF IndexInv, StateTyped
  <2>2. CASE ~Ends(w)
    BY <1>3, <2>2, OthersLeaveTheRows
  <2> QED
    BY <2>1, <2>2
<1>4. Ends(w) => InJob(w)
  BY Ending DEF IndexInv
<1>5. ASSUME NEW u \in Workers \ {w}
      PROVE  /\ (task[u].at # "idle" => lock[ModelOf[u]] = u)'
             /\ (InJob(u) => task[u].ver \in Versions /\ by[task[u].ver] = NoModel)'
             /\ (~InJob(u) => task[u].ver = 0)'
  <2>1. task'[u] = task[u] /\ (InJob(u)' <=> InJob(u))
    BY <1>1 DEF InJob
  <2>2. task[u].at # "idle" => lock'[ModelOf[u]] = u
    BY <1>1, <1>2, Constants
  <2>3. InJob(u) => task[u].ver \in Versions /\ by'[task[u].ver] = NoModel
    BY <1>2, <1>3, <1>4
  <2> QED
    BY <1>2, <2>1, <2>2, <2>3
<1>6. /\ task[w] \in Job /\ task \in [Workers -> Job] /\ ModelOf[w] \in Models
      /\ lock \in [Models -> Workers \cup Requests \cup {NoOne}]
  BY JobTyped, Constants DEF StateTyped
<1>7. /\ (task[w].at # "idle" => lock[ModelOf[w]] = w)'
      /\ (InJob(w) => task[w].ver \in Versions /\ by[task[w].ver] = NoModel)'
      /\ (~InJob(w) => task[w].ver = 0)'
      /\ InJob(w)' => \/ task'[w].ver = task[w].ver /\ InJob(w)
                      \/ \A u \in Workers : task[u].ver # task'[w].ver
  <2>1. CASE ResolveEmbeddingModel(w)
    <3>1. task'[w].at = "claim" /\ task'[w].ver = task[w].ver /\ lock'[ModelOf[w]] = w
      BY <1>6, <2>1 DEF ResolveEmbeddingModel, Job
    <3>2. task[w].ver = 0
      BY <1>2, <2>1 DEF ResolveEmbeddingModel, InJob
    <3> QED
      BY <3>1, <3>2 DEF InJob
  <2>2. CASE ClaimNextJob(w)
    <3>1. PICK v \in Pending : task' = [task EXCEPT ![w].ver = v, ![w].at = "write"]
      BY <2>2 DEF ClaimNextJob
    <3>2. v \in Versions /\ by[v] = NoModel /\ \A u \in Workers : task[u].ver # v
      BY DEF Pending
    <3>3. task'[w].at = "write" /\ task'[w].ver = v
      BY <1>6, <3>1 DEF Job
    <3>4. UNCHANGED <<by, lock>> /\ task[w].at = "claim"
      BY <2>2 DEF ClaimNextJob
    <3> QED
      BY <1>2, <3>2, <3>3, <3>4 DEF InJob
  <2>3. CASE FindNoJob(w)
    <3>1. task'[w] = NoTask
      BY <1>6, <2>3 DEF FindNoJob
    <3> QED
      BY <3>1 DEF InJob, NoTask
  <2>4. CASE StartCompleting(w)
    <3>1. task'[w].at = "complete" /\ task'[w].ver = task[w].ver
      BY <1>6, <2>4 DEF StartCompleting, Job
    <3>2. UNCHANGED <<by, lock>> /\ task[w].at = "write"
      BY <2>4 DEF StartCompleting
    <3> QED
      BY <1>2, <3>1, <3>2 DEF InJob
  <2>5. CASE Ends(w)
    <3>1. task' = [task EXCEPT ![w] = NoTask]
      BY <2>5, Ending DEF IndexInv
    <3>2. task'[w] = NoTask
      BY <1>6, <3>1
    <3> QED
      BY <3>2 DEF InJob, NoTask
  <2> QED
    BY <2>1, <2>2, <2>3, <2>4, <2>5 DEF WorkerDoes, WorkerStep, Ends
<1>8. ASSUME NEW t \in Workers, NEW u \in Workers, InJob(t)', InJob(u)', task'[t].ver = task'[u].ver
      PROVE  u = t
  <2>1. \A x \in Workers \ {w} : task'[x] = task[x] /\ (InJob(x)' <=> InJob(x))
    BY <1>1 DEF InJob
  <2>2. CASE t # w /\ u # w
    BY <1>2, <1>8, <2>1, <2>2
  <2>3. CASE t = w /\ u # w
    BY <1>2, <1>7, <1>8, <2>1, <2>3
  <2>4. CASE t # w /\ u = w
    BY <1>2, <1>7, <1>8, <2>1, <2>4
  <2> QED
    BY <2>2, <2>3, <2>4
<1>9. \A u \in Workers :
        /\ (task[u].at # "idle" => lock[ModelOf[u]] = u)'
        /\ (InJob(u) => task[u].ver \in Versions /\ by[task[u].ver] = NoModel)'
        /\ (~InJob(u) => task[u].ver = 0)'
  BY <1>5, <1>7
<1> QED
  BY <1>8, <1>9 DEF JobsAreHeld

\* What a worker adds hides all that it had to.
LEMMA OneActiveKept ==
  ASSUME StateTyped, IndexInv, NEW w \in Workers, WorkerDoes(w)
  PROVE  OneIsActive'
<1>1. /\ \A u \in Workers \ {w} : task'[u] = task[u]
      /\ task[w] \in Job /\ task \in [Workers -> Job] /\ active \in SUBSET Versions
      /\ active' \in SUBSET Versions
  BY WorkerStepsAreLocal, JobTyped DEF IndexInv, StateTyped
<1>2. /\ \A m \in Models : OneOf(active, m)
      /\ \A u \in Workers : task[u].at = "complete" =>
           \A v \in active : DocOf[v] = DocOf[task[u].ver] /\ by[v] = ModelOf[u] => v \in task[u].sees
  BY DEF IndexInv, OneIsActive
<1>3. \A u \in Workers : task[u].at # "idle" => lock[ModelOf[u]] = u
  BY DEF IndexInv, JobsAreHeld
<1>4. CASE ~Ends(w)
  <2>1. UNCHANGED <<rows, active, by>>
    BY <1>4, OthersLeaveTheRows
  <2>2. \A m \in Models : OneOf(active, m)'
    BY <1>2, <2>1 DEF OneOf
  <2>3. task'[w].at = "complete" =>
          \A v \in active : DocOf[v] = DocOf[task'[w].ver] => v \in task'[w].sees
    <3>1. CASE ResolveEmbeddingModel(w)
      BY <1>1, <3>1 DEF ResolveEmbeddingModel, Job
    <3>2. CASE ClaimNextJob(w)
      <4>1. PICK v \in Pending : task' = [task EXCEPT ![w].ver = v, ![w].at = "write"]
        BY <3>2 DEF ClaimNextJob
      <4> QED
        BY <1>1, <4>1 DEF Job
    <3>3. CASE FindNoJob(w)
      BY <1>1, <3>3 DEF FindNoJob, NoTask
    <3>4. CASE StartCompleting(w)
      <4>1. /\ task'[w].ver = task[w].ver
            /\ task'[w].sees = VersionsOf(DocOf[task[w].ver]) \cap active
        BY <1>1, <3>4 DEF StartCompleting, Job
      <4> QED
        BY <1>1, <4>1 DEF VersionsOf
    <3> QED
      BY <1>4, <3>1, <3>2, <3>3, <3>4 DEF WorkerDoes, WorkerStep, Ends
  <2>4. ASSUME NEW u \in Workers, task'[u].at = "complete", NEW v \in active',
               DocOf[v] = DocOf[task'[u].ver], by'[v] = ModelOf[u]
        PROVE  v \in task'[u].sees
    <3>1. CASE u = w
      BY <2>1, <2>3, <2>4, <3>1
    <3>2. CASE u # w
      BY <1>1, <1>2, <2>1, <2>4, <3>2
    <3> QED
      BY <3>1, <3>2
  <2> QED
    BY <2>2, <2>4 DEF OneIsActive
<1>5. CASE Ends(w)
  <2> DEFINE x == task[w].ver
  <2>1. /\ x \in Versions /\ by[x] = NoModel /\ lock[ModelOf[w]] = w
        /\ by' = [by EXCEPT ![x] = ModelOf[w]]
        /\ \A v \in Versions : v # x => rows'[v] = rows[v]
        /\ active' \subseteq active \cup {x}
        /\ task' = [task EXCEPT ![w] = NoTask]
    BY <1>5, Ending DEF IndexInv
  <2>2. /\ by'[x] = ModelOf[w] /\ x \notin active
        /\ \A v \in Versions : v # x => by'[v] = by[v]
    BY <2>1 DEF IndexInv, UnfinishedIsUnseen, StateTyped
  <2>3. ASSUME NEW v \in active', v # x, DocOf[v] = DocOf[x], by'[v] = ModelOf[w]
        PROVE  rows'[x] # Size
    <3>1. v \in active /\ by[v] = ModelOf[w]
      BY <1>1, <2>1, <2>2, <2>3
    <3>2. CASE CompleteIndexing(w)
      <4>1. task[w].at = "complete" /\ v \notin task[w].sees
        BY <2>3, <3>1, <3>2 DEF CompleteIndexing
      <4> QED
        BY <1>2, <2>3, <3>1, <4>1
    <3>3. CASE MarkJobFailed(w)
      <4>1. PICK n \in 0..(Size - 1) : rows' = [rows EXCEPT ![x] = n]
        BY <3>3 DEF MarkJobFailed
      <4>2. rows'[x] = n
        BY <2>1, <4>1 DEF StateTyped
      <4> QED
        BY <4>2, Constants
    <3> QED
      BY <1>5, <3>2, <3>3 DEF Ends
  <2> HIDE DEF x
  <2>4. ASSUME NEW m \in Models, NEW u \in active', NEW v \in active', DocOf[u] = DocOf[v],
               by'[u] = m, by'[v] = m, rows'[u] = Size, rows'[v] = Size
        PROVE  u = v
    <3>1. CASE u # x /\ v # x
      <4>1. u \in active /\ v \in active /\ u \in Versions /\ v \in Versions
        BY <1>1, <2>1, <3>1
      <4> QED
        BY <1>2, <2>1, <2>2, <2>4, <3>1, <4>1 DEF OneOf
    <3>2. CASE u = x
      BY <2>2, <2>3, <2>4, <3>2
    <3>3. CASE v = x
      BY <2>2, <2>3, <2>4, <3>3
    <3> QED
      BY <3>1, <3>2, <3>3
  <2>5. \A m \in Models : OneOf(active, m)'
    BY <2>4 DEF OneOf
  <2>6. ASSUME NEW u \in Workers, task'[u].at = "complete", NEW v \in active',
               DocOf[v] = DocOf[task'[u].ver], by'[v] = ModelOf[u]
        PROVE  v \in task'[u].sees
    <3>1. u # w
      BY <1>1, <2>1, <2>6 DEF NoTask
    <3>2. task'[u] = task[u] /\ task[u].at = "complete" /\ lock[ModelOf[u]] = u
      BY <1>1, <1>3, <2>6, <3>1
    <3>3. v # x
      BY <2>1, <2>2, <2>6, <3>1, <3>2
    <3>4. v \in active /\ by[v] = ModelOf[u]
      BY <1>1, <2>1, <2>2, <2>6, <3>3
    <3> QED
      BY <1>2, <2>6, <3>2, <3>4
  <2> QED
    BY <2>5, <2>6 DEF OneIsActive
<1> QED
  BY <1>4, <1>5

LEMMA IndexKept ==
  ASSUME StateTyped, IndexInv, \A q \in Requests : SearchIsHeld(q) /\ ArmsInv(q), [Next]_vars
  PROVE  StateTyped' /\ IndexInv'
<1>1. CASE UNCHANGED vars
  <2> USE <1>1 DEF vars, index
  <2>1. StateTyped'
    BY DEF StateTyped
  <2>2. UnfinishedIsUnseen' /\ JobsAreHeld'
    BY DEF IndexInv, UnfinishedIsUnseen, JobsAreHeld, InJob
  <2>3. OneIsActive'
    BY DEF IndexInv, OneIsActive, OneOf
  <2> QED
    BY <2>1, <2>2, <2>3 DEF IndexInv
<1>2. ASSUME NEW w \in Workers, WorkerDoes(w)
      PROVE  StateTyped' /\ IndexInv'
  BY <1>2, WorkerStepsAreLocal, UnseenKept, HeldKept, OneActiveKept DEF IndexInv
<1>3. ASSUME NEW d \in Docs, PageMoves(d)
      PROVE  StateTyped' /\ IndexInv'
  <2>1. /\ StateTyped' /\ UNCHANGED <<rows, by, lock, task>>
        /\ active' \subseteq active
        /\ \A c \in Docs : coll'[c] = Local <=> coll[c] = Local
    BY <1>3, PageStepsAreLocal
  <2>2. UnfinishedIsUnseen'
    BY <2>1 DEF IndexInv, UnfinishedIsUnseen
  <2>3. JobsAreHeld'
    BY <2>1 DEF IndexInv, JobsAreHeld, InJob
  <2>4. OneIsActive'
    BY <2>1 DEF IndexInv, OneIsActive, OneOf
  <2> QED
    BY <2>1, <2>2, <2>3, <2>4 DEF IndexInv
<1>4. ASSUME NEW q \in Requests, RequestDoes(q)
      PROVE  StateTyped' /\ IndexInv'
  <2>1. /\ StateTyped' /\ UNCHANGED <<rows, active, by, coll, task>>
        /\ \A m \in Models : lock'[m] = lock[m] \/ lock[m] = q \/ (lock[m] = NoOne /\ lock'[m] = q)
    BY <1>4, RequestStepsAreLocal DEF index
  <2>2. UnfinishedIsUnseen'
    BY <2>1 DEF IndexInv, UnfinishedIsUnseen
  <2>3. \A w \in Workers : task[w].at # "idle" => lock'[ModelOf[w]] = w
    BY <2>1, Constants DEF IndexInv, JobsAreHeld
  <2>4. JobsAreHeld'
    BY <2>1, <2>3 DEF IndexInv, JobsAreHeld, InJob
  <2>5. OneIsActive'
    BY <2>1 DEF IndexInv, OneIsActive, OneOf
  <2> QED
    BY <2>1, <2>2, <2>4, <2>5 DEF IndexInv
<1> QED
  BY <1>1, <1>2, <1>3, <1>4, StepsAre

-----------------------------------------------------------------------------
(***************************************************************************)
(* The history of a request.                                               *)
(***************************************************************************)

\* A row has a model, and a row in sight is active.
LEMMA StoredHasModel ==
  ASSUME StateTyped, IndexInv, NEW r \in Stored
  PROVE  r \in Rows /\ r[1] \in Versions /\ by[r[1]] # NoModel /\ by[r[1]] \in Models
<1>1. r[1] \in Versions /\ r[2] \in 1..Size /\ r[2] <= rows[r[1]]
  BY DEF Stored, Rows
<1>2. rows[r[1]] # 0
  BY <1>1, Constants
<1> QED
  BY <1>1, <1>2 DEF IndexInv, UnfinishedIsUnseen, StateTyped, Stored

\* Who may read a row is who finds it in scope.
LEMMA ReadableIs ==
  ASSUME IndexInv, NEW scope \in [local : BOOLEAN, allowed : SUBSET Collections]
  PROVE  Readable(scope) = {r \in Active : InScope(r, scope)}
<1>1. \A r \in Active : DocOf[r[1]] \in Docs
  BY Constants DEF Active, Stored, Rows
<1>2. \A d \in Docs : coll[d] = Local <=> Home[d] = Local
  BY DEF IndexInv, UnfinishedIsUnseen
<1>3. Local \notin scope.allowed
  BY SearchAssumption
<1> QED
  BY <1>1, <1>2, <1>3 DEF Readable, InScope

\* A step of [Next]_vars, as one request sees it.
LEMMA StepsOf ==
  ASSUME StateTyped, IndexInv, \A p \in Requests : SearchIsHeld(p) /\ ArmsInv(p), [Next]_vars,
         NEW q \in Requests
  PROVE  \/ UNCHANGED vars
         \/ Remember /\ req'[q] = req[q]
         \/ Remember /\ RequestDoes(q) /\ UNCHANGED index
<1>1. ASSUME NEW w \in Workers, WorkerDoes(w)
      PROVE  UNCHANGED req
  BY <1>1, WorkerStepsAreLocal DEF IndexInv
<1>2. ASSUME NEW d \in Docs, PageMoves(d)
      PROVE  UNCHANGED req
  BY <1>2, PageStepsAreLocal
<1>3. ASSUME NEW p \in Requests, RequestDoes(p)
      PROVE  UNCHANGED index /\ (p # q => req'[q] = req[q])
  BY <1>3, RequestStepsAreLocal
<1> QED
  BY <1>1, <1>2, <1>3, StepsAre

\* What is stored stays stored, by the model it is by.
LEMMA StoredIsKept ==
  ASSUME StateTyped, IndexInv, \A p \in Requests : SearchIsHeld(p) /\ ArmsInv(p), [Next]_vars
  PROVE  /\ \A v \in Versions : by[v] # NoModel => by'[v] = by[v] /\ rows'[v] = rows[v]
         /\ \A r \in Stored : r \in Stored' /\ by'[r[1]] = by[r[1]] /\ rows'[r[1]] = rows[r[1]]
<1>1. \A v \in Versions : by[v] # NoModel => by'[v] = by[v] /\ rows'[v] = rows[v]
  <2>1. CASE UNCHANGED vars
    BY <2>1 DEF vars, index
  <2>2. ASSUME NEW w \in Workers, WorkerDoes(w)
        PROVE  \A v \in Versions : by[v] # NoModel => by'[v] = by[v] /\ rows'[v] = rows[v]
    BY <2>2, IndexedIsKept
  <2>3. ASSUME NEW d \in Docs, PageMoves(d)
        PROVE  UNCHANGED <<by, rows>>
    BY <2>3, PageStepsAreLocal
  <2>4. ASSUME NEW p \in Requests, RequestDoes(p)
        PROVE  UNCHANGED <<by, rows>>
    BY <2>4, RequestStepsAreLocal DEF index
  <2> QED
    BY <2>1, <2>2, <2>3, <2>4, StepsAre
<1>2. ASSUME NEW r \in Stored
      PROVE  r \in Stored' /\ by'[r[1]] = by[r[1]] /\ rows'[r[1]] = rows[r[1]]
  <2>1. r \in Rows /\ r[1] \in Versions /\ by[r[1]] # NoModel
    BY StoredHasModel
  <2>2. by'[r[1]] = by[r[1]] /\ rows'[r[1]] = rows[r[1]]
    BY <1>1, <2>1
  <2> QED
    BY <2>1, <2>2 DEF Stored
<1> QED
  BY <1>1, <1>2

\* Who holds a model's lock sees no version of it appear.
LEMMA HeldModelIsKept ==
  ASSUME StateTyped, IndexInv, \A p \in Requests : SearchIsHeld(p) /\ ArmsInv(p), [Next]_vars,
         NEW q \in Requests, lock[ModelOf[q]] = q
  PROVE  \A v \in active' : by'[v] = ModelOf[q] => v \in active /\ by[v] = ModelOf[q]
<1>1. CASE UNCHANGED vars
  BY <1>1 DEF vars, index
<1>2. ASSUME NEW w \in Workers, WorkerDoes(w)
      PROVE  \A v \in active' : by'[v] = ModelOf[q] => v \in active /\ by[v] = ModelOf[q]
  <2>1. CASE Ends(w)
    <3>1. /\ task[w].ver \in Versions /\ lock[ModelOf[w]] = w
          /\ by' = [by EXCEPT ![task[w].ver] = ModelOf[w]]
          /\ active' \subseteq active \cup {task[w].ver}
      BY <2>1, Ending DEF IndexInv
    <3>2. ModelOf[w] # ModelOf[q]
      BY <3>1, Constants
    <3> QED
      BY <3>1, <3>2 DEF StateTyped
  <2>2. CASE ~Ends(w)
    BY <1>2, <2>2, OthersLeaveTheRows
  <2> QED
    BY <2>1, <2>2
<1>3. ASSUME NEW d \in Docs, PageMoves(d)
      PROVE  \A v \in active' : by'[v] = ModelOf[q] => v \in active /\ by[v] = ModelOf[q]
  BY <1>3, PageStepsAreLocal
<1>4. ASSUME NEW p \in Requests, RequestDoes(p)
      PROVE  \A v \in active' : by'[v] = ModelOf[q] => v \in active /\ by[v] = ModelOf[q]
  BY <1>4, RequestStepsAreLocal DEF index
<1> QED
  BY <1>1, <1>2, <1>3, <1>4, StepsAre

\* How a request goes on.
LEMMA Moves ==
  ASSUME StateTyped, NEW q \in Requests, RequestDoes(q)
  PROVE  /\ Running(q) /\ Running(q)' => /\ req'[q].scope = req[q].scope
                                         /\ req'[q].mode = req[q].mode
                                         /\ req'[q].query = req[q].query
         /\ Running(q)' /\ ~Running(q) => req[q].at = "idle"
         /\ req'[q].at = "done" => Running(q) /\ /\ req'[q].scope = req[q].scope
                                                 /\ req'[q].mode = req[q].mode
                                                 /\ req'[q].query = req[q].query
<1>1. req[q] \in Request /\ req \in [Requests -> Request]
  BY RequestTyped DEF StateTyped
<1>2. ASSUME NEW answer, Finish(q, answer), Running(q)
      PROVE  /\ req'[q].scope = req[q].scope /\ req'[q].mode = req[q].mode
             /\ req'[q].query = req[q].query
  BY <1>1, <1>2 DEF Finish, Request
<1>3. CASE ResolveModel(q)
  BY <1>1, <1>3 DEF ResolveModel, Request, Running
<1>4. CASE SearchChunks(q)
  <2>1. Running(q)
    BY <1>4 DEF SearchChunks, Running
  <2>2. CASE req[q].mode = "vector"
    BY <1>2, <1>4, <2>1, <2>2 DEF SearchChunks
  <2>3. CASE req[q].mode # "vector"
    BY <1>1, <1>4, <2>1, <2>3 DEF SearchChunks, Request
  <2> QED
    BY <2>2, <2>3
<1>5. CASE SearchChunksKeyword(q)
  <2>1. Running(q)
    BY <1>5 DEF SearchChunksKeyword, Running
  <2>2. CASE req[q].mode = "keyword"
    BY <1>2, <1>5, <2>1, <2>2 DEF SearchChunksKeyword
  <2>3. CASE req[q].mode # "keyword"
    BY <1>1, <1>5, <2>1, <2>3 DEF SearchChunksKeyword, Request
  <2> QED
    BY <2>2, <2>3
<1>6. CASE Fuse(q)
  BY <1>2, <1>6 DEF Fuse, Running
<1>7. CASE Explain(q)
  BY <1>1, <1>7 DEF Explain, Request, Running
<1>8. CASE Fail(q)
  BY <1>1, <1>8 DEF Fail, NotAsked, Running
<1>9. CASE GetChunkContext(q)
  <2>1. PICK hit : req' = [req EXCEPT ![q] = [NotAsked EXCEPT !.at = "read", !.hit = hit,
                                                     !.around = Context(q, hit)]]
    BY <1>9 DEF GetChunkContext
  <2>2. req'[q].at = "read"
    BY <1>1, <2>1 DEF NotAsked
  <2> QED
    BY <2>2 DEF Running
<1>10. ASSUME NEW k, NEW s, NEW m, Ask(q, k, s, m)
       PROVE  ~Running(q) /\ req[q].at = "idle" /\ req'[q].at # "done"
  BY <1>1, <1>10 DEF Ask, NotAsked, Running
<1> QED
  BY <1>3, <1>4, <1>5, <1>6, <1>7, <1>8, <1>9, <1>10 DEF RequestDoes, SearchStep

\* The history goes on as the request does.
LEMMA HistoryKept ==
  ASSUME StateTyped, IndexInv, past \in [Requests -> History],
         \A p \in Requests : SearchIsHeld(p) /\ ArmsInv(p), [Next]_vars,
         NEW q \in Requests, HistoryInv(q)
  PROVE  /\ HistoryInv(q)'
         /\ Running(q) /\ Running(q)' =>
              past[q].was \subseteq past'[q].was /\ past'[q].stayed \subseteq past[q].stayed
         /\ req'[q].at = "done" => past'[q] = past[q]
<1>1. CASE UNCHANGED vars
  <2> USE <1>1 DEF vars, index
  <2>1. Active' = Active /\ Stored' = Stored /\ (Running(q)' <=> Running(q))
    BY DEF Active, Stored, Running
  <2>2. Readable(req[q].scope)' = Readable(req[q].scope)
    BY DEF Readable, Active, Stored
  <2> QED
    BY <2>1, <2>2 DEF HistoryInv
<1>2. CASE Remember /\ (req'[q] = req[q] \/ RequestDoes(q))
  <2> DEFINE now == Readable(req[q].scope)'
  <2>1. /\ req'[q].at = "done" => past'[q] = past[q]
        /\ req'[q].at # "done" /\ ~Running(q)' => past'[q] = Nothing
        /\ Running(q)' => past'[q] =
             [was |-> past[q].was \cup now, stayed |-> past[q].stayed \cap now,
              models |-> past[q].models
                           \cup (IF Active' = {} THEN {NoModel} ELSE {by'[r[1]] : r \in Active'})]
    BY <1>2 DEF Remember, Running
  <2>2. now \subseteq Active' /\ Active' \subseteq Stored'
    BY DEF Readable, Active
  <2>3. Stored \subseteq Stored'
    BY StoredIsKept
  <2>4. /\ Running(q)' => Running(q) \/ req[q].at = "idle"
        /\ req'[q].at = "done" => Running(q) \/ req[q].at = "done"
    BY <1>2, Moves DEF Running
  <2>5. ~Running(q) /\ req[q].at # "done" => past[q] = Nothing
    BY DEF HistoryInv
  <2>6. Running(q)' => past[q].was \subseteq Stored
    BY <2>4, <2>5 DEF HistoryInv, Nothing
  <2> HIDE DEF now
  <2>7. Running(q)' =>
          /\ now \subseteq past'[q].was /\ past'[q].stayed \subseteq now
          /\ past[q].was \subseteq past'[q].was /\ past'[q].stayed \subseteq past[q].stayed
          /\ past'[q].was \subseteq Stored' /\ past'[q].stayed \subseteq Stored'
    BY <2>1, <2>2, <2>3, <2>6
  <2>8. Running(q)' => IF Active' = {} THEN NoModel \in past'[q].models
                       ELSE \A r \in Active' : by'[r[1]] \in past'[q].models
    BY <2>1
  <2>9. req'[q].at = "done" => past'[q].was \subseteq Stored' /\ past'[q].stayed \subseteq Stored'
    BY <2>1, <2>3, <2>4 DEF HistoryInv
  <2>10. HistoryInv(q)'
    BY <2>1, <2>7, <2>8, <2>9 DEF HistoryInv, now
  <2> QED
    BY <2>1, <2>7, <2>10
<1> QED
  BY <1>1, <1>2, StepsOf

-----------------------------------------------------------------------------
(***************************************************************************)
(* A request that does nothing itself.                                     *)
(***************************************************************************)

\* Two versions of a page that count as one still do.
LEMMA OneOfKept ==
  ASSUME StateTyped, IndexInv, \A p \in Requests : SearchIsHeld(p) /\ ArmsInv(p), [Next]_vars,
         NEW m \in Models, NEW set, NEW new, OneOf(set, m),
         \A v \in new : by'[v] = m => v \in set /\ by[v] = m /\ v \in Versions
  PROVE  \A u, v \in new :
           DocOf[u] = DocOf[v] /\ by'[u] = m /\ by'[v] = m /\ rows'[u] = Size /\ rows'[v] = Size
             => u = v
<1>1. m # NoModel
  BY Constants
<1>2. \A v \in Versions : by[v] # NoModel => by'[v] = by[v] /\ rows'[v] = rows[v]
  BY StoredIsKept
<1>3. \A v \in new : by'[v] = m => v \in set /\ by[v] = m /\ rows'[v] = rows[v]
  BY <1>1, <1>2
<1> QED
  BY <1>3 DEF OneOf

\* What was read stays good in every step of the others.
LEMMA ArmKept ==
  ASSUME NEW q \in Requests, NEW arm, NEW matched, NEW new, NEW limit,
         ArmInv(q, arm, matched, limit),
         past[q].was \subseteq past'[q].was, past'[q].stayed \subseteq past[q].stayed,
         past[q].stayed \cap new \subseteq matched
  PROVE  /\ ToSet(arm) \subseteq past'[q].was
         /\ IsInjective(arm)
         /\ \A r \in past'[q].stayed \cap new : r \in ToSet(arm) \/ Len(arm) = limit
BY DEF ArmInv

LEMMA HeldSearchKept ==
  ASSUME StateTyped, IndexInv, \A p \in Requests : SearchIsHeld(p) /\ ArmsInv(p), [Next]_vars,
         NEW q \in Requests, req'[q] = req[q]
  PROVE  lock[ModelOf[q]] = q => lock'[ModelOf[q]] = q \/ RequestDoes(q)
<1>1. ModelOf[q] \in Models /\ q # NoOne /\ q \notin Workers
  BY Constants
<1>2. CASE UNCHANGED vars
  BY <1>2 DEF vars
<1>3. ASSUME NEW w \in Workers, WorkerDoes(w)
      PROVE  lock[ModelOf[q]] = q => lock'[ModelOf[q]] = q
  BY <1>1, <1>3, WorkerStepsAreLocal DEF IndexInv
<1>4. ASSUME NEW d \in Docs, PageMoves(d)
      PROVE  UNCHANGED lock
  BY <1>4, PageStepsAreLocal
<1>5. ASSUME NEW p \in Requests, RequestDoes(p), p # q
      PROVE  lock[ModelOf[q]] = q => lock'[ModelOf[q]] = q
  BY <1>1, <1>5, RequestStepsAreLocal
<1> QED
  BY <1>2, <1>3, <1>4, <1>5, StepsAre

\* No step of a request leaves it where it was.
LEMMA RequestsMove ==
  ASSUME StateTyped, NEW q \in Requests, RequestDoes(q)
  PROVE  req'[q].at # req[q].at
<1>1. req[q] \in Request /\ req \in [Requests -> Request]
  BY RequestTyped DEF StateTyped
<1>2. ASSUME NEW answer, Finish(q, answer)
      PROVE  req'[q].at \in {"explain", "done"}
  BY <1>1, <1>2 DEF Finish, Request
<1>3. CASE ResolveModel(q)
  BY <1>1, <1>3 DEF ResolveModel, Request
<1>4. CASE SearchChunks(q)
  <2>1. CASE req[q].mode = "vector"
    BY <1>2, <1>4, <2>1 DEF SearchChunks
  <2>2. CASE req[q].mode # "vector"
    BY <1>1, <1>4, <2>2 DEF SearchChunks, Request
  <2> QED
    BY <2>1, <2>2
<1>5. CASE SearchChunksKeyword(q)
  <2>1. CASE req[q].mode = "keyword"
    BY <1>2, <1>5, <2>1 DEF SearchChunksKeyword
  <2>2. CASE req[q].mode # "keyword"
    BY <1>1, <1>5, <2>2 DEF SearchChunksKeyword, Request
  <2> QED
    BY <2>1, <2>2
<1>6. CASE Fuse(q)
  BY <1>2, <1>6 DEF Fuse
<1>7. CASE Explain(q)
  BY <1>1, <1>7 DEF Explain, Request
<1>8. CASE Fail(q)
  BY <1>1, <1>8 DEF Fail, NotAsked, Running
<1>9. CASE GetChunkContext(q)
  <2>1. PICK hit : req' = [req EXCEPT ![q] = [NotAsked EXCEPT !.at = "read", !.hit = hit,
                                                     !.around = Context(q, hit)]]
    BY <1>9 DEF GetChunkContext
  <2>2. req'[q].at = "read"
    BY <1>1, <2>1 DEF NotAsked
  <2> QED
    BY <1>9, <2>2 DEF GetChunkContext
<1>10. ASSUME NEW k, NEW s, NEW m, Ask(q, k, s, m)
       PROVE  req'[q].at # req[q].at
  BY <1>1, <1>10 DEF Ask, NotAsked
<1> QED
  BY <1>3, <1>4, <1>5, <1>6, <1>7, <1>8, <1>9, <1>10 DEF RequestDoes, SearchStep

LEMMA OtherStepsKeep ==
  ASSUME StateTyped, IndexInv, past \in [Requests -> History],
         \A p \in Requests : SearchIsHeld(p) /\ ArmsInv(p), [Next]_vars,
         NEW q \in Requests, RequestInv(q), req'[q] = req[q]
  PROVE  RequestInv(q)'
<1>1. /\ HistoryInv(q)'
      /\ Running(q) => past[q].was \subseteq past'[q].was /\ past'[q].stayed \subseteq past[q].stayed
      /\ req[q].at = "done" => past'[q] = past[q]
  BY HistoryKept DEF RequestInv, Running
<1>2. SearchIsHeld(q)'
  <2>1. lock[ModelOf[q]] = q => lock'[ModelOf[q]] = q
    BY HeldSearchKept, RequestsMove
  <2> QED
    BY <2>1 DEF RequestInv, SearchIsHeld, Running
<1>3. /\ \A r \in Stored : r \in Rows /\ r[1] \in Versions /\ by[r[1]] # NoModel
      /\ \A r \in Stored : by'[r[1]] = by[r[1]] /\ rows'[r[1]] = rows[r[1]]
      /\ ModelOf[q] \in Models
  BY StoredHasModel, StoredIsKept, Constants
<1>4. Running(q) \/ req[q].at = "done" => past[q].was \subseteq Stored /\ past[q].stayed \subseteq Stored
  BY DEF RequestInv, HistoryInv
<1>5. ASSUME Running(q) \/ req[q].at = "done", NEW arm, ToSet(arm) \subseteq past[q].was
      PROVE  \A v \in VersionsIn(arm) : v \in Versions /\ by'[v] = by[v]
  BY <1>3, <1>4, <1>5 DEF VersionsIn
<1>6. ArmsInv(q)'
  <2>1. SUFFICES ASSUME req[q].mode = "hybrid", req[q].at \in {"keyword", "fuse"}
                 PROVE  ArmsInv(q)'
    BY DEF ArmsInv
  <2>2. /\ ArmInv(q, req[q].vector, Embedded(q), Candidates)
        /\ OneOf(VersionsIn(req[q].vector) \cup active, ModelOf[q])
    BY <2>1 DEF RequestInv, ArmsInv
  <2>3. /\ Running(q) /\ past[q].stayed \subseteq Stored /\ past[q].was \subseteq Stored
        /\ past[q].was \subseteq past'[q].was /\ past'[q].stayed \subseteq past[q].stayed
        /\ lock[ModelOf[q]] = q
    BY <1>1, <1>4, <2>1 DEF Running, RequestInv, SearchIsHeld
  <2>4. ArmInv(q, req[q].vector, Embedded(q), Candidates)'
    <3>1. past[q].stayed \cap Embedded(q)' \subseteq Embedded(q)
      BY <1>3, <2>3 DEF Embedded
    <3> QED
      BY <2>2, <2>3, <3>1, ArmKept DEF ArmInv
  <2>5. OneOf(VersionsIn(req[q].vector) \cup active, ModelOf[q])'
    <3>1. \A v \in VersionsIn(req[q].vector) : v \in Versions /\ by'[v] = by[v]
      BY <1>5, <2>2, <2>3 DEF ArmInv
    <3>2. \A v \in active' : by'[v] = ModelOf[q] => v \in active /\ by[v] = ModelOf[q]
      BY <2>3, HeldModelIsKept
    <3> DEFINE seen == VersionsIn(req[q].vector) \cup active
               new == VersionsIn(req[q].vector) \cup active'
    <3>3. \A v \in new : by'[v] = ModelOf[q] => v \in seen /\ by[v] = ModelOf[q] /\ v \in Versions
      BY <3>1, <3>2 DEF StateTyped
    <3>4. \A u, v \in new : DocOf[u] = DocOf[v] /\ by'[u] = ModelOf[q] /\ by'[v] = ModelOf[q]
                            /\ rows'[u] = Size /\ rows'[v] = Size => u = v
      <4>1. OneOf(seen, ModelOf[q])
        BY <2>2
      <4> HIDE DEF seen, new
      <4> QED
        BY <1>3, <3>3, <4>1, OneOfKept
    <3>5. VersionsIn(req[q].vector)' = VersionsIn(req[q].vector)
      BY DEF VersionsIn
    <3> QED
      BY <3>4, <3>5 DEF OneOf
  <2>6. ASSUME req[q].at = "fuse"
        PROVE  /\ ArmInv(q, req[q].keyword, Matching[req[q].query], Candidates)'
               /\ OneOf(VersionsIn(req[q].vector) \cup VersionsIn(req[q].keyword), ModelOf[q])'
    <3>1. /\ ArmInv(q, req[q].keyword, Matching[req[q].query], Candidates)
          /\ OneOf(VersionsIn(req[q].vector) \cup VersionsIn(req[q].keyword), ModelOf[q])
      BY <2>1, <2>6 DEF RequestInv, ArmsInv
    <3>2. ArmInv(q, req[q].keyword, Matching[req[q].query], Candidates)'
      BY <2>3, <3>1, ArmKept DEF ArmInv
    <3>3. \A v \in VersionsIn(req[q].vector) \cup VersionsIn(req[q].keyword) :
            v \in Versions /\ by'[v] = by[v]
      BY <1>5, <2>2, <2>3, <3>1 DEF ArmInv
    <3>4. \A u, v \in VersionsIn(req[q].vector) \cup VersionsIn(req[q].keyword) :
            DocOf[u] = DocOf[v] /\ by'[u] = ModelOf[q] /\ by'[v] = ModelOf[q]
              /\ rows'[u] = Size /\ rows'[v] = Size => u = v
      BY <1>3, <3>1, <3>3, OneOfKept
    <3>5. /\ VersionsIn(req[q].vector)' = VersionsIn(req[q].vector)
          /\ VersionsIn(req[q].keyword)' = VersionsIn(req[q].keyword)
      BY DEF VersionsIn
    <3> QED
      BY <3>2, <3>4, <3>5 DEF OneOf
  <2> QED
    BY <2>4, <2>5, <2>6 DEF ArmsInv
<1>7. AnswerInv(q)'
  <2>1. SUFFICES ASSUME req[q].at \in {"explain", "done"} PROVE AnswerInv(q)'
    BY DEF AnswerInv
  <2>2. /\ past[q].was \subseteq Stored /\ past[q].stayed \subseteq Stored
        /\ past[q].was \subseteq past'[q].was /\ past'[q].stayed \subseteq past[q].stayed
        /\ req[q].at = "done" => past'[q] = past[q]
    BY <1>1, <1>4, <2>1 DEF Running
  <2>3. Good(q, req[q].answer)
    BY <2>1 DEF RequestInv, AnswerInv
  <2>4. \A r \in past'[q].stayed : CouldMatch(q, r)' => CouldMatch(q, r)
    BY <1>3, <2>2 DEF CouldMatch
  <2>5. OneOf(VersionsIn(req[q].answer), ModelOf[q])'
    <3>1. \A v \in VersionsIn(req[q].answer) : v \in Versions /\ by'[v] = by[v]
      BY <1>5, <2>1, <2>3 DEF Good, Running
    <3>2. \A u, v \in VersionsIn(req[q].answer) :
            DocOf[u] = DocOf[v] /\ by'[u] = ModelOf[q] /\ by'[v] = ModelOf[q]
              /\ rows'[u] = Size /\ rows'[v] = Size => u = v
      BY <1>3, <2>3, <3>1, OneOfKept DEF Good
    <3>3. VersionsIn(req[q].answer)' = VersionsIn(req[q].answer)
      BY DEF VersionsIn
    <3> QED
      BY <3>2, <3>3 DEF OneOf
  <2>6. Good(q, req[q].answer)'
    BY <2>2, <2>3, <2>4, <2>5 DEF Good
  <2>7. ASSUME req[q].at = "done"
        PROVE  \A r \in past'[q].stayed : by'[r[1]] = by[r[1]]
    BY <1>3, <2>2, <2>7
  <2> QED
    BY <2>2, <2>6, <2>7 DEF RequestInv, AnswerInv, Respects
<1>8. ContextInv(q)'
  BY DEF RequestInv, ContextInv
<1> QED
  BY <1>1, <1>2, <1>6, <1>7, <1>8 DEF RequestInv

-----------------------------------------------------------------------------
(***************************************************************************)
(* A request's own steps.                                                  *)
(***************************************************************************)

\* What an arm is when it is read.
LEMMA ArmsAreRead ==
  ASSUME StateTyped, IndexInv, NEW q \in Requests, Running(q), HistoryInv(q), SearchIsHeld(q),
         NEW limit \in Nat
  PROVE  /\ ArmInv(q, VectorArm(q, limit), Embedded(q), limit)
         /\ VersionsIn(VectorArm(q, limit)) \subseteq active
         /\ ArmInv(q, KeywordArm(q, limit), Matching[req[q].query], limit)
         /\ VersionsIn(KeywordArm(q, limit)) \subseteq active
<1> DEFINE scope == req[q].scope
           some == Matching[req[q].query]
           vector == VectorArm(q, limit)
           keyword == KeywordArm(q, limit)
<1>1. req[q].query \in Queries
  BY DEF SearchIsHeld
<1>2. /\ ToSet(vector) \subseteq Eligible(Rows, {ModelOf[q]}, scope)
      /\ IsInjective(vector)
      /\ \A r \in Eligible(Rows, {ModelOf[q]}, scope) : r \in ToSet(vector) \/ Len(vector) = limit
      /\ ToSet(keyword) \subseteq Eligible(some, Models, scope)
      /\ IsInjective(keyword)
      /\ \A r \in Eligible(some, Models, scope) : r \in ToSet(keyword) \/ Len(keyword) = limit
  BY <1>1, ArmsOfRequest
<1>3. Readable(scope) = {r \in Active : InScope(r, scope)}
  BY RequestTyped, ReadableIs
<1>4. past[q].stayed \subseteq Readable(scope) /\ Readable(scope) \subseteq past[q].was
  BY DEF HistoryInv
<1>5. \A r \in Active : r \in Rows /\ r \in Stored /\ by[r[1]] \in Models /\ r[1] \in active
  BY StoredHasModel DEF Active
<1>6. /\ Eligible(Rows, {ModelOf[q]}, scope) \subseteq Readable(scope)
      /\ Eligible(some, Models, scope) \subseteq Readable(scope)
      /\ Eligible(Rows, {ModelOf[q]}, scope) \subseteq Active
      /\ Eligible(some, Models, scope) \subseteq Active
      /\ past[q].stayed \cap Embedded(q) \subseteq Eligible(Rows, {ModelOf[q]}, scope)
      /\ past[q].stayed \cap some \subseteq Eligible(some, Models, scope)
  BY <1>3, <1>4, <1>5 DEF Eligible, Embedded
<1> HIDE DEF vector, keyword, some, scope
<1>7. /\ ArmInv(q, vector, Embedded(q), limit) /\ ArmInv(q, keyword, some, limit)
  BY <1>2, <1>4, <1>6 DEF ArmInv
<1>8. VersionsIn(vector) \subseteq active /\ VersionsIn(keyword) \subseteq active
  BY <1>2, <1>5, <1>6 DEF VersionsIn
<1> QED
  BY <1>7, <1>8 DEF vector, keyword, some

\* An arm alone is an answer of its mode.
LEMMA ArmsAreGood ==
  ASSUME StateTyped, IndexInv, NEW q \in Requests, Running(q), HistoryInv(q), SearchIsHeld(q)
  PROVE  /\ req[q].mode = "vector" => Good(q, VectorArm(q, TopK))
         /\ req[q].mode = "keyword" => Good(q, KeywordArm(q, TopK))
<1> DEFINE vector == VectorArm(q, TopK)
           keyword == KeywordArm(q, TopK)
<1>1. /\ ArmInv(q, vector, Embedded(q), TopK) /\ VersionsIn(vector) \subseteq active
      /\ ArmInv(q, keyword, Matching[req[q].query], TopK) /\ VersionsIn(keyword) \subseteq active
  BY Limits, ArmsAreRead
<1> HIDE DEF vector, keyword
<1>2. OneOf(active, ModelOf[q])
  BY Constants DEF IndexInv, OneIsActive
<1>3. OneOf(VersionsIn(vector), ModelOf[q]) /\ OneOf(VersionsIn(keyword), ModelOf[q])
  BY <1>1, <1>2 DEF OneOf
<1>4. past[q].stayed \subseteq Stored
  BY DEF HistoryInv
<1>5. req[q].mode = "vector" => \A r \in past[q].stayed : CouldMatch(q, r) => r \in Embedded(q)
  BY <1>4 DEF CouldMatch, Embedded
<1>6. req[q].mode = "keyword" =>
        \A r \in past[q].stayed : CouldMatch(q, r) => r \in Matching[req[q].query]
  BY DEF CouldMatch
<1>7. /\ req[q].mode = "vector" => Good(q, vector)
      /\ req[q].mode = "keyword" => Good(q, keyword)
  BY <1>1, <1>3, <1>5, <1>6 DEF Good, ArmInv
<1> QED
  BY <1>7 DEF vector, keyword

\* The two arms fused are an answer.
LEMMA FusedIsGood ==
  ASSUME StateTyped, NEW q \in Requests, req[q].at = "fuse", HistoryInv(q), SearchIsHeld(q),
         ArmsInv(q)
  PROVE  /\ Fused(req[q].vector, req[q].keyword) \in Seq(Rows)
         /\ Good(q, Fused(req[q].vector, req[q].keyword))
         /\ Respects(req[q].vector, req[q].keyword, Fused(req[q].vector, req[q].keyword))
<1> DEFINE v == req[q].vector
           k == req[q].keyword
           list == Fused(v, k)
<1>1. /\ ArmInv(q, v, Embedded(q), Candidates)
      /\ ArmInv(q, k, Matching[req[q].query], Candidates)
      /\ OneOf(VersionsIn(v) \cup VersionsIn(k), ModelOf[q])
  BY DEF ArmsInv, SearchIsHeld
<1>2. v \in Seq(Rows) /\ k \in Seq(Rows) /\ past[q].stayed \subseteq Stored
  BY RequestTyped DEF HistoryInv, Running
<1>3. IsInjective(v) /\ IsInjective(k) /\ ToSet(v) \cup ToSet(k) \subseteq past[q].was
  BY <1>1 DEF ArmInv
<1> HIDE DEF v, k
<1>4. /\ list \in Seq(Rows) /\ ToSet(list) \subseteq ToSet(v) \cup ToSet(k) /\ IsInjective(list)
      /\ Len(list) <= TopK
      /\ \A r \in ToSet(v) \cup ToSet(k) : r \in ToSet(list) \/ Len(list) = TopK
      /\ Respects(v, k, list)
  BY <1>2, <1>3, Fusing
<1> HIDE DEF list
<1>5. OneOf(VersionsIn(list), ModelOf[q])
  <2>1. VersionsIn(list) \subseteq VersionsIn(v) \cup VersionsIn(k)
    BY <1>4 DEF VersionsIn
  <2> QED
    BY <1>1, <2>1 DEF OneOf
<1>6. ASSUME Len(list) # TopK
      PROVE  Len(v) # Candidates /\ Len(k) # Candidates
  <2>1. ToSet(v) \subseteq ToSet(list) /\ ToSet(k) \subseteq ToSet(list)
    BY <1>4, <1>6
  <2>2. Len(v) <= Len(list) /\ Len(k) <= Len(list)
    BY <1>2, <1>3, <1>4, <2>1, NoShorter
  <2>3. /\ Len(v) \in Nat /\ Len(k) \in Nat /\ Len(list) \in Nat
        /\ TopK \in Nat /\ Candidates \in Nat /\ Candidates >= TopK
    BY <1>2, <1>4, Limits
  <2> QED
    BY <1>4, <1>6, <2>2, <2>3
<1>7. \A r \in past[q].stayed : CouldMatch(q, r) =>
        r \in Embedded(q) \/ r \in Matching[req[q].query]
  BY <1>2 DEF CouldMatch, Embedded
<1>8. Good(q, list)
  <2>1. ASSUME NEW r \in past[q].stayed, CouldMatch(q, r), Len(list) # TopK
        PROVE  r \in ToSet(list)
    BY <1>1, <1>4, <1>6, <1>7, <2>1 DEF ArmInv
  <2> QED
    BY <1>3, <1>4, <1>5, <2>1 DEF Good
<1> QED
  BY <1>4, <1>8 DEF list, v, k

LEMMA FinishKeeps ==
  ASSUME StateTyped, NEW q \in Requests, Running(q), SearchIsHeld(q), UNCHANGED index,
         req[q].mode # "keyword" => lock[ModelOf[q]] = q,
         NEW answer \in Seq(Rows), Finish(q, answer), Good(q, answer),
         req[q].mode = "hybrid" => Respects(req[q].vector, req[q].keyword, answer),
         Running(q)' => past[q].was \subseteq past'[q].was /\ past'[q].stayed \subseteq past[q].stayed,
         req'[q].at = "done" => past'[q] = past[q]
  PROVE  SearchIsHeld(q)' /\ ArmsInv(q)' /\ AnswerInv(q)' /\ ContextInv(q)'
<1>1. req[q] \in Request /\ req \in [Requests -> Request]
  BY RequestTyped DEF StateTyped
<1>2. CASE answer = <<>> /\ req[q].mode # "keyword"
  <2>1. /\ req' = [req EXCEPT ![q].at = "explain"] /\ lock' = lock
    BY <1>2 DEF Finish
  <2>2. /\ req'[q].at = "explain" /\ req'[q].answer = req[q].answer
        /\ req'[q].mode = req[q].mode /\ req'[q].query = req[q].query
    BY <1>1, <2>1 DEF Request
  <2>3. req[q].answer = <<>> /\ req[q].query \in Queries
    BY DEF SearchIsHeld
  <2>4. SearchIsHeld(q)'
    BY <1>2, <2>1, <2>2, <2>3 DEF SearchIsHeld, Running
  <2>5. past[q].was \subseteq past'[q].was /\ past'[q].stayed \subseteq past[q].stayed
    BY <2>2 DEF Running
  <2>6. Good(q, req[q].answer)'
    BY <1>2, <2>2, <2>3, <2>5 DEF Good, CouldMatch, OneOf, VersionsIn, index
  <2>7. AnswerInv(q)'
    BY <2>2, <2>6 DEF AnswerInv
  <2> QED
    BY <2>2, <2>4, <2>7 DEF ArmsInv, ContextInv
<1>3. CASE ~(answer = <<>> /\ req[q].mode # "keyword")
  <2>1. req' = [req EXCEPT ![q].at = "done", ![q].answer = answer]
    BY <1>3 DEF Finish
  <2>2. /\ req'[q].at = "done" /\ req'[q].answer = answer /\ req'[q].mode = req[q].mode
        /\ req'[q].query = req[q].query
        /\ req'[q].vector = req[q].vector /\ req'[q].keyword = req[q].keyword
    BY <1>1, <2>1 DEF Request
  <2>3. past'[q] = past[q]
    BY <2>2
  <2>4. Good(q, req[q].answer)'
    BY <2>2, <2>3 DEF Good, CouldMatch, OneOf, VersionsIn, index
  <2>5. AnswerInv(q)'
    BY <1>3, <2>2, <2>4 DEF AnswerInv, Respects
  <2> QED
    BY <2>2, <2>5 DEF SearchIsHeld, ArmsInv, ContextInv, Running
<1> QED
  BY <1>2, <1>3

LEMMA OwnStepsKeep ==
  ASSUME StateTyped, IndexInv, past \in [Requests -> History],
         \A p \in Requests : SearchIsHeld(p) /\ ArmsInv(p), [Next]_vars,
         NEW q \in Requests, RequestInv(q), RequestDoes(q), UNCHANGED index
  PROVE  RequestInv(q)'
<1>1. req[q] \in Request /\ req \in [Requests -> Request] /\ ModelOf[q] \in Models
  BY RequestTyped, Constants DEF StateTyped
<1>2. /\ HistoryInv(q) /\ SearchIsHeld(q) /\ ArmsInv(q) /\ AnswerInv(q) /\ HistoryInv(q)'
      /\ Running(q) /\ Running(q)' =>
           past[q].was \subseteq past'[q].was /\ past'[q].stayed \subseteq past[q].stayed
      /\ req'[q].at = "done" => past'[q] = past[q]
  BY HistoryKept DEF RequestInv
<1>3. ASSUME Running(q), req[q].mode # "keyword" => lock[ModelOf[q]] = q,
             NEW answer \in Seq(Rows), Finish(q, answer), Good(q, answer),
             req[q].mode = "hybrid" => Respects(req[q].vector, req[q].keyword, answer)
      PROVE  RequestInv(q)'
  BY <1>2, <1>3, FinishKeeps DEF RequestInv
<1>4. CASE ResolveModel(q)
  <2>1. /\ req'[q].at = "vector" /\ req'[q].query = req[q].query /\ req'[q].mode = req[q].mode
        /\ req'[q].answer = req[q].answer
    BY <1>1, <1>4 DEF ResolveModel, Request
  <2>2. req[q].at = "resolve" /\ lock'[ModelOf[q]] = q
    BY <1>1, <1>4 DEF ResolveModel, StateTyped
  <2> QED
    BY <1>2, <2>1, <2>2 DEF RequestInv, SearchIsHeld, ArmsInv, AnswerInv, ContextInv, Running
<1>5. CASE SearchChunks(q)
  <2>1. /\ req[q].at = "vector" /\ Running(q) /\ req[q].mode # "keyword" /\ lock[ModelOf[q]] = q
        /\ req[q].query \in Queries /\ req[q].answer = <<>>
    BY <1>2, <1>5 DEF SearchChunks, Running, SearchIsHeld
  <2>2. CASE req[q].mode = "vector"
    <3>1. VectorArm(q, TopK) \in Seq(Rows)
      BY <2>1, Limits, ArmsOfRequest
    <3>2. Good(q, VectorArm(q, TopK))
      BY <1>2, <2>1, <2>2, ArmsAreGood
    <3> QED
      BY <1>3, <1>5, <2>1, <2>2, <3>1, <3>2 DEF SearchChunks
  <2>3. CASE req[q].mode # "vector"
    <3> DEFINE arm == VectorArm(q, Candidates)
    <3>1. /\ req' = [req EXCEPT ![q].at = "keyword", ![q].vector = arm] /\ UNCHANGED lock
          /\ req[q].mode = "hybrid"
      BY <1>5, <2>1, <2>3, RequestTyped DEF SearchChunks, Modes
    <3>2. ArmInv(q, arm, Embedded(q), Candidates) /\ VersionsIn(arm) \subseteq active
      BY <1>2, <2>1, Limits, ArmsAreRead
    <3> HIDE DEF arm
    <3>3. /\ req'[q].at = "keyword" /\ req'[q].query = req[q].query /\ req'[q].mode = "hybrid"
          /\ req'[q].answer = <<>> /\ req'[q].vector = arm
      BY <1>1, <2>1, <3>1 DEF Request
    <3>4. past[q].was \subseteq past'[q].was /\ past'[q].stayed \subseteq past[q].stayed
      BY <1>2, <2>1, <3>3 DEF Running
    <3>5. OneOf(active, ModelOf[q])
      BY <1>1 DEF IndexInv, OneIsActive
    <3>6. ArmInv(q, req[q].vector, Embedded(q), Candidates)'
      BY <3>2, <3>3, <3>4 DEF ArmInv, Embedded, Stored, index
    <3>7. OneOf(VersionsIn(req[q].vector) \cup active, ModelOf[q])'
      BY <3>2, <3>3, <3>5 DEF OneOf, VersionsIn, index
    <3>8. ArmsInv(q)'
      BY <3>3, <3>6, <3>7 DEF ArmsInv
    <3> QED
      BY <1>2, <2>1, <3>1, <3>3, <3>8
      DEF RequestInv, SearchIsHeld, AnswerInv, ContextInv, Running
  <2> QED
    BY <2>2, <2>3
<1>6. CASE SearchChunksKeyword(q)
  <2>1. /\ req[q].at = "keyword" /\ Running(q) /\ req[q].mode # "vector"
        /\ req[q].mode # "keyword" => lock[ModelOf[q]] = q
        /\ req[q].query \in Queries /\ req[q].answer = <<>>
    BY <1>2, <1>6 DEF SearchChunksKeyword, Running, SearchIsHeld
  <2>2. CASE req[q].mode = "keyword"
    <3>1. KeywordArm(q, TopK) \in Seq(Rows)
      BY <2>1, Limits, ArmsOfRequest
    <3>2. Good(q, KeywordArm(q, TopK))
      BY <1>2, <2>1, <2>2, ArmsAreGood
    <3> QED
      BY <1>3, <1>6, <2>1, <2>2, <3>1, <3>2 DEF SearchChunksKeyword
  <2>3. CASE req[q].mode # "keyword"
    <3> DEFINE arm == KeywordArm(q, Candidates)
    <3>1. /\ req' = [req EXCEPT ![q].at = "fuse", ![q].keyword = arm] /\ UNCHANGED lock
          /\ req[q].mode = "hybrid"
      BY <1>6, <2>1, <2>3, RequestTyped DEF SearchChunksKeyword, Modes
    <3>2. /\ ArmInv(q, arm, Matching[req[q].query], Candidates) /\ VersionsIn(arm) \subseteq active
      BY <1>2, <2>1, Limits, ArmsAreRead
    <3>3. /\ ArmInv(q, req[q].vector, Embedded(q), Candidates)
          /\ OneOf(VersionsIn(req[q].vector) \cup active, ModelOf[q])
      BY <1>2, <2>1, <3>1 DEF ArmsInv
    <3> HIDE DEF arm
    <3>4. /\ req'[q].at = "fuse" /\ req'[q].query = req[q].query /\ req'[q].mode = "hybrid"
          /\ req'[q].answer = <<>> /\ req'[q].vector = req[q].vector /\ req'[q].keyword = arm
      BY <1>1, <2>1, <3>1 DEF Request
    <3>5. past[q].was \subseteq past'[q].was /\ past'[q].stayed \subseteq past[q].stayed
      BY <1>2, <2>1, <3>4 DEF Running
    <3>6. ArmInv(q, req[q].vector, Embedded(q), Candidates)'
      BY <3>3, <3>4, <3>5 DEF ArmInv, Embedded, Stored, index
    <3>7. ArmInv(q, req[q].keyword, Matching[req[q].query], Candidates)'
      BY <3>2, <3>4, <3>5 DEF ArmInv
    <3>8. OneOf(VersionsIn(req[q].vector) \cup active, ModelOf[q])'
      BY <3>3, <3>4 DEF OneOf, VersionsIn, index
    <3>9. OneOf(VersionsIn(req[q].vector) \cup VersionsIn(req[q].keyword), ModelOf[q])'
      BY <3>2, <3>3, <3>4 DEF OneOf, VersionsIn, index
    <3>10. ArmsInv(q)'
      BY <3>4, <3>6, <3>7, <3>8, <3>9 DEF ArmsInv
    <3> QED
      BY <1>2, <2>1, <3>1, <3>4, <3>10
      DEF RequestInv, SearchIsHeld, AnswerInv, ContextInv, Running
  <2> QED
    BY <2>2, <2>3
<1>7. CASE Fuse(q)
  <2>1. req[q].at = "fuse" /\ Running(q) /\ req[q].mode = "hybrid" /\ lock[ModelOf[q]] = q
    BY <1>2, <1>7 DEF Fuse, Running, SearchIsHeld
  <2>2. /\ Fused(req[q].vector, req[q].keyword) \in Seq(Rows)
        /\ Good(q, Fused(req[q].vector, req[q].keyword))
        /\ Respects(req[q].vector, req[q].keyword, Fused(req[q].vector, req[q].keyword))
    BY <1>2, <2>1, FusedIsGood
  <2> QED
    BY <1>3, <1>7, <2>1, <2>2 DEF Fuse
<1>8. CASE Explain(q)
  <2> DEFINE warned == Coverage # {} /\ ModelOf[q] \notin Coverage
  <2>1. req[q].at = "explain" /\ Running(q) /\ req[q].answer = <<>> /\ Good(q, <<>>)
    BY <1>2, <1>8 DEF Explain, Running, SearchIsHeld, AnswerInv
  <2>2. /\ req'[q].at = "done" /\ req'[q].query = req[q].query /\ req'[q].mode = req[q].mode
        /\ req'[q].answer = <<>> /\ req'[q].warned = warned
    BY <1>1, <1>8, <2>1 DEF Explain, Request
  <2>3. past'[q] = past[q]
    BY <1>2, <2>2
  <2>4. IF warned THEN \A r \in past[q].stayed : by[r[1]] # ModelOf[q]
        ELSE past[q].models \cap {ModelOf[q], NoModel} # {}
    <3>1. past[q].stayed \subseteq Active
      BY <1>2, <2>1 DEF HistoryInv, Readable
    <3>2. CASE warned
      BY <3>1, <3>2 DEF Coverage
    <3>3. CASE ~warned /\ Active = {}
      BY <1>2, <2>1, <3>3 DEF HistoryInv
    <3>4. CASE ~warned /\ Active # {}
      <4>1. PICK r \in Active : by[r[1]] = ModelOf[q]
        BY <3>4 DEF Coverage
      <4>2. by[r[1]] \in past[q].models
        BY <1>2, <2>1, <3>4 DEF HistoryInv
      <4> QED
        BY <3>4, <4>1, <4>2
    <3> QED
      BY <3>2, <3>3, <3>4
  <2> HIDE DEF warned
  <2>5. Good(q, req[q].answer)'
    BY <2>1, <2>2, <2>3 DEF Good, CouldMatch, OneOf, VersionsIn, index
  <2>6. Respects(req[q].vector, req[q].keyword, req[q].answer)'
    BY <2>2 DEF Respects
  <2>7. AnswerInv(q)'
    BY <2>2, <2>3, <2>4, <2>5, <2>6 DEF AnswerInv, index
  <2> QED
    BY <1>2, <2>2, <2>7 DEF RequestInv, SearchIsHeld, ArmsInv, ContextInv, Running
<1>9. CASE Fail(q)
  <2>1. req'[q].at = "failed"
    BY <1>1, <1>9 DEF Fail, NotAsked
  <2> QED
    BY <1>2, <2>1 DEF RequestInv, SearchIsHeld, ArmsInv, AnswerInv, ContextInv, Running
<1>10. CASE GetChunkContext(q)
  <2>1. PICK hit \in ToSet(req[q].answer) :
          req' = [req EXCEPT ![q] = [NotAsked EXCEPT !.at = "read", !.hit = hit,
                                                     !.around = Context(q, hit)]]
    BY <1>10 DEF GetChunkContext
  <2>2. req'[q].at = "read" /\ req'[q].hit = hit /\ req'[q].around = Context(q, hit)
    BY <1>1, <2>1 DEF NotAsked
  <2>3. hit \in Stored
    BY <1>2, <1>10 DEF GetChunkContext, AnswerInv, Good, HistoryInv
  <2>4. \A r \in Context(q, hit) : r[1] = hit[1] /\ hit \in Context(q, hit)
    <3>1. hit[2] \in Int
      BY <2>3, Constants DEF Stored, Rows
    <3>2. hit[2] - hit[2] \in -1..1
      BY <3>1
    <3> QED
      BY <2>3, <3>2 DEF Context, InScope
  <2>5. ContextInv(q)'
    BY <2>2, <2>4 DEF ContextInv
  <2> QED
    BY <1>2, <2>2, <2>5 DEF RequestInv, SearchIsHeld, ArmsInv, AnswerInv, Running
<1>11. ASSUME NEW k \in Queries, NEW s, NEW m \in Modes, Ask(q, k, s, m)
       PROVE  RequestInv(q)'
  <2>1. /\ req'[q].query = k /\ req'[q].mode = m /\ req'[q].answer = <<>>
        /\ req'[q].at = IF m = "keyword" THEN "keyword" ELSE "resolve"
    BY <1>1, <1>11 DEF Ask, NotAsked
  <2> QED
    BY <1>2, <2>1 DEF RequestInv, SearchIsHeld, ArmsInv, AnswerInv, ContextInv, Running
<1> QED
  BY <1>4, <1>5, <1>6, <1>7, <1>8, <1>9, <1>10, <1>11 DEF RequestDoes, SearchStep

-----------------------------------------------------------------------------
(***************************************************************************)
(* The theorems.                                                           *)
(***************************************************************************)

LEMMA InitInv == Init => IInv
<1> SUFFICES ASSUME Init PROVE IInv
  OBVIOUS
<1> USE DEF Init
<1>1. StateTyped
  <2>1. coll \in [Docs -> Collections \cup {Local, Unknown}]
    BY SearchAssumption
  <2>2. rows \in [Versions -> 0..Size]
    BY Constants
  <2>3. req \in [Requests -> Request] /\ task \in [Workers -> Job]
    BY NotAskedTyped, NoTaskTyped
  <2> QED
    BY <2>1, <2>2, <2>3 DEF StateTyped
<1>2. TypeOK
  <2>1. Nothing \in History
    BY DEF Nothing, History
  <2> QED
    BY <1>1, <2>1 DEF TypeOK
<1>3. IndexInv
  <2>1. UnfinishedIsUnseen
    BY DEF UnfinishedIsUnseen
  <2>2. JobsAreHeld
    BY DEF JobsAreHeld, InJob, NoTask
  <2>3. OneIsActive
    BY DEF OneIsActive, OneOf, NoTask
  <2> QED
    BY <2>1, <2>2, <2>3 DEF IndexInv
<1>4. ASSUME NEW q \in Requests PROVE RequestInv(q)
  <2>1. req[q] = NotAsked /\ past[q] = Nothing /\ req[q].at = "idle"
    BY <1>4 DEF NotAsked
  <2> QED
    BY <2>1 DEF RequestInv, HistoryInv, SearchIsHeld, ArmsInv, AnswerInv, ContextInv, Running
<1> QED
  BY <1>2, <1>3, <1>4 DEF IInv

LEMMA PastTyped ==
  ASSUME StateTyped', past \in [Requests -> History], Remember
  PROVE  past' \in [Requests -> History]
<1>1. ASSUME NEW q \in Requests
      PROVE  [was |-> past[q].was \cup Readable(req[q].scope)',
              stayed |-> past[q].stayed \cap Readable(req[q].scope)',
              models |-> past[q].models
                \cup (IF Active' = {} THEN {NoModel} ELSE {by'[r[1]] : r \in Active'})] \in History
  <2>1. Readable(req[q].scope)' \subseteq Rows /\ Active' \subseteq Rows
    BY DEF Readable, Active, Stored
  <2>2. \A r \in Active' : by'[r[1]] \in Models \cup {NoModel}
    BY <2>1 DEF StateTyped, Rows
  <2>3. past[q] \in History
    OBVIOUS
  <2> QED
    BY <2>1, <2>2, <2>3 DEF History
<1>2. Nothing \in History
  BY DEF Nothing, History
<1> QED
  BY <1>1, <1>2 DEF Remember

LEMMA NextInv == IInv /\ [Next]_vars => IInv'
<1> SUFFICES ASSUME IInv, [Next]_vars PROVE IInv'
  OBVIOUS
<1>1. /\ StateTyped /\ IndexInv /\ past \in [Requests -> History]
      /\ \A q \in Requests : RequestInv(q)
      /\ \A q \in Requests : SearchIsHeld(q) /\ ArmsInv(q)
  BY DEF IInv, TypeOK, RequestInv
<1>2. StateTyped' /\ IndexInv'
  BY <1>1, IndexKept
<1>3. past' \in [Requests -> History]
  <2>1. UNCHANGED past \/ Remember
    BY DEF Next, vars
  <2> QED
    BY <1>1, <1>2, <2>1, PastTyped
<1>4. ASSUME NEW q \in Requests PROVE RequestInv(q)'
  <2>1. CASE UNCHANGED vars
    <3>1. req'[q] = req[q]
      BY <2>1 DEF vars
    <3> QED
      BY <1>1, <3>1, OtherStepsKeep
  <2>2. CASE req'[q] = req[q]
    BY <1>1, <2>2, OtherStepsKeep
  <2>3. CASE RequestDoes(q) /\ UNCHANGED index
    BY <1>1, <2>3, OwnStepsKeep
  <2> QED
    BY <1>1, <2>1, <2>2, <2>3, StepsOf
<1> QED
  BY <1>2, <1>3, <1>4 DEF IInv, TypeOK

LEMMA Invariance == Spec => []IInv
<1> QED
  BY InitInv, NextInv, PTL DEF Spec

\* What a caller is shown was searchable and the caller's to read at some moment of
\* the request, whatever was indexed, removed or moved while its statements ran.
THEOREM ShownWasTrue == Spec => []AnswersWereTrue
<1>1. IInv => AnswersWereTrue
  BY DEF IInv, RequestInv, AnswerInv, Good, AnswersWereTrue, Answered
<1> QED
  BY <1>1, Invariance, PTL

\* What was there for the caller all along is in the answer, or the answer is full:
\* neither the filters nor the cuts of the arms nor the fusion lose it.
THEOREM NoSlotIsWasted == Spec => []SlotsAreNotWasted
<1>1. IInv => SlotsAreNotWasted
  BY DEF IInv, RequestInv, AnswerInv, Good, SlotsAreNotWasted, Answered
<1> QED
  BY <1>1, Invariance, PTL

\* The row lock of the model holds for the two arms together: no answer has two
\* versions of a page by one model.
THEOREM OneVersionIsShown == Spec => []OneVersionPerModel
<1>1. IInv => OneVersionPerModel
  <2> SUFFICES ASSUME IInv, NEW q \in Requests, Answered(q),
                      NEW r \in ToSet(req[q].answer), NEW s \in ToSet(req[q].answer),
                      DocOf[r[1]] = DocOf[s[1]], by[r[1]] = by[s[1]], by[r[1]] = ModelOf[q],
                      rows[r[1]] = Size, rows[s[1]] = Size
               PROVE  r[1] = s[1]
    BY DEF OneVersionPerModel
  <2>1. OneOf(VersionsIn(req[q].answer), ModelOf[q])
    BY DEF IInv, RequestInv, AnswerInv, Good, Answered
  <2>2. r[1] \in VersionsIn(req[q].answer) /\ s[1] \in VersionsIn(req[q].answer)
    BY DEF VersionsIn
  <2> QED
    BY <2>1, <2>2 DEF OneOf
<1> QED
  BY <1>1, Invariance, PTL

\* Reciprocal rank fusion, ties and the cut at top_k included, contradicts neither arm.
THEOREM FusionIsFair == Spec => []FusionRespectsBothArms
<1>1. IInv => FusionRespectsBothArms
  BY DEF IInv, RequestInv, AnswerInv, Respects, FusionRespectsBothArms, Answered
<1> QED
  BY <1>1, Invariance, PTL

\* Whoever gets nothing is told when the model has nothing indexed, and only then.
THEOREM NothingIsExplained == Spec => []EmptySearchIsExplained
<1>1. IInv => EmptySearchIsExplained
  BY DEF IInv, RequestInv, AnswerInv, EmptySearchIsExplained, Answered
<1> QED
  BY <1>1, Invariance, PTL

\* What is read around a hit is of the hit's own version, however late it is read.
THEOREM ContextIsOfItsVersion == Spec => []ContextIsOfTheHit
<1>1. IInv => ContextIsOfTheHit
  BY DEF IInv, RequestInv, ContextInv, ContextIsOfTheHit
<1> QED
  BY <1>1, Invariance, PTL

=============================================================================
