-------------------------- MODULE AdminViewsProofs ---------------------------
(***************************************************************************)
(* Proofs about AdminViews, for any jobs, workers and limits.              *)
(*                                                                         *)
(* A list that jobs do not leave only grows, so a job's position in it     *)
(* never falls: a job that has not been seen is still ahead of the reader. *)
(* That an empty page is the end of the list needs more: positions are     *)
(* gapless, because no two jobs have the same time of creation.            *)
(***************************************************************************)
EXTENDS AdminViews, JobStoreProofs, FiniteSetTheorems

(***************************************************************************)
(* Positions in an ordered finite set                                      *)
(***************************************************************************)

(* There are n ranks below n.                                              *)
LEMMA InitialRanks ==
  ASSUME NEW n \in Nat
  PROVE  IsFiniteSet(0..(n - 1)) /\ Cardinality(0..(n - 1)) = n
BY FS_Interval

Rank(M, c, j) == Cardinality({i \in M : c[i] > c[j]})

(* Ranks are smaller than the size of the set.                             *)
LEMMA RankBound ==
  ASSUME NEW M, IsFiniteSet(M), NEW c, \A i \in M : c[i] \in Nat, NEW j \in M
  PROVE  Rank(M, c, j) \in 0..(Cardinality(M) - 1)
<1> DEFINE A == {i \in M : c[i] > c[j]}
<1>1. A \in SUBSET (M \ {j})
  OBVIOUS
<1>2. IsFiniteSet(M \ {j}) /\ Cardinality(M \ {j}) = Cardinality(M) - 1
  BY FS_RemoveElement
<1>3. IsFiniteSet(A) /\ Cardinality(A) <= Cardinality(M \ {j})
  BY <1>1, <1>2, FS_Subset
<1>4. Cardinality(A) \in Nat /\ Cardinality(M) \in Nat
  BY <1>3, FS_CardinalityType
<1> QED BY <1>2, <1>3, <1>4 DEF Rank

(* A greater value has a smaller rank.                                     *)
LEMMA RankOrder ==
  ASSUME NEW M, IsFiniteSet(M), NEW c, \A i \in M : c[i] \in Nat,
         NEW i \in M, NEW j \in M, c[i] > c[j]
  PROVE  Rank(M, c, i) < Rank(M, c, j)
<1> DEFINE A == {k \in M : c[k] > c[i]}
           B == {k \in M : c[k] > c[j]}
<1>1. A \cup {i} \in SUBSET B /\ i \notin A /\ A \in SUBSET M /\ B \in SUBSET M
  OBVIOUS
<1>2. IsFiniteSet(A) /\ IsFiniteSet(B)
  BY <1>1, FS_Subset
<1>3. Cardinality(A \cup {i}) = Cardinality(A) + 1
  BY <1>1, <1>2, FS_AddElement
<1>4. Cardinality(A \cup {i}) <= Cardinality(B)
  BY <1>1, <1>2, FS_Subset
<1>5. Cardinality(A) \in Nat /\ Cardinality(B) \in Nat
  BY <1>2, FS_CardinalityType
<1> QED BY <1>3, <1>4, <1>5 DEF Rank

Distinct(M, c) == \A i, j \in M : c[i] = c[j] => i = j

(* Different elements have different ranks.                                *)
LEMMA RankInjective ==
  ASSUME NEW M, IsFiniteSet(M), NEW c, \A i \in M : c[i] \in Nat,
         Distinct(M, c), NEW i \in M, NEW j \in M,
         Rank(M, c, i) = Rank(M, c, j)
  PROVE  i = j
<1>1. Rank(M, c, i) \in Int /\ Rank(M, c, j) \in Int
  BY RankBound
<1>2. ~(c[i] > c[j]) /\ ~(c[j] > c[i])
  BY <1>1, RankOrder
<1>3. c[i] = c[j]
  BY <1>2
<1> QED BY <1>3 DEF Distinct

(* Every rank below the size of the set is that of an element.             *)
LEMMA RankOnto ==
  ASSUME NEW M, IsFiniteSet(M), NEW c, \A i \in M : c[i] \in Nat,
         Distinct(M, c), NEW n \in Nat, n < Cardinality(M)
  PROVE  \E j \in M : Rank(M, c, j) = n
<1> DEFINE T == 0..(Cardinality(M) - 1)
           r == [j \in M |-> Rank(M, c, j)]
<1>1. Cardinality(M) \in Nat
  BY FS_CardinalityType
<1>2. IsFiniteSet(T) /\ Cardinality(T) = Cardinality(M)
  BY <1>1, InitialRanks
<1>3. \A j \in M : Rank(M, c, j) \in T
  BY RankBound
<1>4. \A i, j \in M : Rank(M, c, i) = Rank(M, c, j) => i = j
  BY RankInjective
<1>5. r \in Injection(M, T)
  BY <1>3, <1>4 DEF Injection, IsInjective
<1> HIDE DEF T
<1>6. r \in Surjection(M, T)
  BY <1>2, <1>5, FS_Injection
<1>7. n \in T
  BY <1>1 DEF T
<1> QED BY <1>6, <1>7 DEF Surjection

(* No more elements than there are ranks from o to o + l - 1 have one.     *)
LEMMA PageBound ==
  ASSUME NEW M, IsFiniteSet(M), NEW c, \A i \in M : c[i] \in Nat,
         Distinct(M, c), NEW o \in Nat, NEW l \in Nat
  PROVE  LET P == {j \in M : Rank(M, c, j) >= o /\ Rank(M, c, j) < o + l}
         IN  Cardinality(P) \in Nat /\ Cardinality(P) <= l
<1> DEFINE P == {j \in M : Rank(M, c, j) >= o /\ Rank(M, c, j) < o + l}
           T == o..(o + l - 1)
           r == [j \in P |-> Rank(M, c, j)]
<1>1. \A j \in P : Rank(M, c, j) \in Int
  BY RankBound
<1>2. \A j \in P : Rank(M, c, j) \in T
  BY <1>1
<1>3. \A i, j \in P : Rank(M, c, i) = Rank(M, c, j) => i = j
  BY RankInjective
<1>4. r \in Injection(P, T)
  BY <1>2, <1>3 DEF Injection, IsInjective
<1>5. IsFiniteSet(T) /\ Cardinality(T) = l
  BY FS_Interval
<1> HIDE DEF P, T
<1>6. IsFiniteSet(P) /\ Cardinality(P) <= l
  BY <1>4, <1>5, FS_Injection
<1> QED BY <1>6, FS_CardinalityType DEF P

(***************************************************************************)
(* The invariant                                                           *)
(***************************************************************************)

(* What the requests so far have established about the list: everything    *)
(* that was due and has not been seen is still ahead.                      *)
Ahead ==
  (view.at \in {"count", "rows"} /\ Lasting(view.filter)) =>
    \A j \in view.due \ view.seen :
      j \in Matching(view.filter)
        /\ Position(j, view.filter) >= view.offset

(* The list has not become smaller since it was counted.                   *)
Counted ==
  (view.at = "rows" /\ Lasting(view.filter)) =>
    view.total <= Cardinality(Matching(view.filter))

(* Jobs that have run were claimed by a worker, whose row is still there.  *)
RunsHaveWorkers == (\E j \in Jobs : jobs[j].attempt >= 1) => Registered # {}

CountsHaveWorkers ==
  (view.at = "workers"
     /\ \E s \in Terminal \cup {"RUNNING"} : view.counts[s] > 0)
    => Registered # {}

TimesDiffer == \A j \in Existing : created[j] # 0

AdminInv ==
  /\ StoreInv /\ AdminTypeOK /\ TimesDiffer
  /\ Ahead /\ Counted /\ ListsAreComplete /\ TotalsAreReached
  /\ RunsHaveWorkers /\ CountsHaveWorkers /\ StatsKnowTheWorkers

(* The view before the first request, field by field.                      *)
LEMMA NoViewFields ==
  /\ NoView \in View
  /\ NoView.at = "idle" /\ NoView.seen = {} /\ NoView.offset = 0
  /\ \A s \in Statuses : NoView.counts[s] = 0
BY AdminAssumption DEF NoView, View, At, Filter

(* Nothing is there and nobody looks.                                      *)
LEMMA AdminInit == Init => AdminInv
<1> HAVE Init
<1>1. StoreInv
  BY InitInv DEF Init
<1>2. Existing = {} /\ \A j \in Jobs : jobs[j].attempt = 0
  BY DEF Init, StoreInit, NoRow, Existing
<1>3. AdminTypeOK /\ TimesDiffer
  BY <1>2, NoViewFields DEF Init, AdminTypeOK, TimesDiffer
<1> QED BY <1>1, <1>2, <1>3, NoViewFields
        DEF Init, AdminInv, Ahead, Counted, ListsAreComplete, TotalsAreReached,
            RunsHaveWorkers, CountsHaveWorkers, StatsKnowTheWorkers

(* A list is a finite set ordered by different times of creation.          *)
LEMMA ListOrder ==
  ASSUME AdminTypeOK, NEW f
  PROVE  /\ IsFiniteSet(Matching(f)) /\ Matching(f) \in SUBSET Existing
         /\ Existing \in SUBSET Jobs
         /\ \A i \in Matching(f) : created[i] \in Nat
         /\ Distinct(Matching(f), created)
         /\ \A j : Position(j, f) = Rank(Matching(f), created, j)
<1>1. Matching(f) \in SUBSET Existing /\ Existing \in SUBSET Jobs
  BY DEF Matching, Existing
<1>2. IsFiniteSet(Matching(f))
  BY <1>1, FS_Subset, AdminAssumption
<1>3. \A j : Position(j, f) = Rank(Matching(f), created, j)
  BY DEF Position, Rank, Newer
<1>4. \A i \in Jobs : created[i] \in Nat
  BY DEF AdminTypeOK, Times
<1> QED BY <1>1, <1>2, <1>3, <1>4 DEF AdminTypeOK, Distinct

(***************************************************************************)
(* Steps of the store                                                      *)
(***************************************************************************)

(* The times of creation stay different.                                   *)
LEMMA TimesStep ==
  ASSUME AdminInv, TablesChange
  PROVE  /\ AdminTypeOK' /\ TimesDiffer' /\ Existing \subseteq Existing'
         /\ \A j \in Existing : created'[j] = created[j]
<1> USE DEF AdminInv, AdminTypeOK, TimesDiffer
<1>1. view' = view
  BY DEF TablesChange
<1>2. CASE Existing' = Existing /\ UNCHANGED created
  BY <1>1, <1>2
<1>3. CASE \E j \in Jobs \ Existing :
             Existing' = Existing \cup {j} /\ CreatedAt(j)
  <2>1. PICK j \in Jobs \ Existing :
               Existing' = Existing \cup {j} /\ CreatedAt(j)
    BY <1>3
  <2>2. PICK t \in Times : /\ \A i \in Jobs : created[i] # t
                           /\ created' = [created EXCEPT ![j] = t]
    BY <2>1 DEF CreatedAt
  <2>3. t # 0
    BY DEF Times
  <2>4. Existing \subseteq Jobs
    BY DEF Existing
  <2>5. created'[j] = t /\ \A i \in Jobs \ {j} : created'[i] = created[i]
    BY <2>2
  <2>6. created' \in [Jobs -> {0} \cup Times]
    BY <2>2
  <2> QED BY <1>1, <2>1, <2>2, <2>3, <2>4, <2>5, <2>6
<1> QED BY <1>2, <1>3 DEF TablesChange

(* Jobs do not leave a lasting list.                                       *)
LEMMA ListsGrow ==
  ASSUME AdminInv, TablesChange, NEW f, Lasting(f)
  PROVE  Matching(f) \subseteq Matching(f)'
<1>1. Existing \subseteq Existing' /\ Existing \subseteq Jobs
  BY TimesStep DEF Existing
<1>2. CASE f.status = "ALL" /\ f.worker = NONE
  BY <1>1, <1>2 DEF Matching
<1>3. CASE f.status \in Terminal
  <2> SUFFICES ASSUME NEW j \in Matching(f) PROVE j \in Matching(f)'
    OBVIOUS
  <2>1. j \in Existing /\ j \in Jobs /\ jobs[j].status \in Terminal
    BY <1>1, <1>3 DEF Matching, Terminal
  <2>2. jobs'[j] = jobs[j]
    BY <2>1, TerminalKept DEF TablesChange, AdminInv, StoreInv
  <2> QED BY <1>1, <2>1, <2>2 DEF Matching
<1> QED BY <1>2, <1>3 DEF Lasting

(* A job's position in a list that grows does not fall.                    *)
LEMMA PositionsGrow ==
  ASSUME AdminInv, TablesChange, NEW f, Lasting(f), NEW j \in Matching(f)
  PROVE  /\ Position(j, f) \in Int /\ Position(j, f)' \in Int
         /\ Position(j, f)' >= Position(j, f)
         /\ Cardinality(Matching(f)') >= Cardinality(Matching(f))
<1> DEFINE A == {i \in Matching(f) : Newer(i, j)}
           B == {i \in Matching(f)' : created'[i] > created'[j]}
<1>1. /\ IsFiniteSet(Matching(f)) /\ Matching(f) \in SUBSET Existing
  BY ListOrder DEF AdminInv
<1>2. IsFiniteSet(Matching(f)')
  <2>1. Matching(f)' \in SUBSET Jobs
    BY DEF Matching, Existing
  <2> QED BY <2>1, FS_Subset, AdminAssumption
<1>3. Matching(f) \subseteq Matching(f)'
  BY ListsGrow
<1>4. A \in SUBSET B /\ A \in SUBSET Matching(f) /\ B \in SUBSET Matching(f)'
  BY <1>1, <1>3, TimesStep DEF Newer
<1>5. IsFiniteSet(A) /\ IsFiniteSet(B) /\ Cardinality(A) <= Cardinality(B)
  BY <1>1, <1>2, <1>4, FS_Subset
<1>6. Cardinality(A) \in Nat /\ Cardinality(B) \in Nat
  BY <1>5, FS_CardinalityType
<1>7. Cardinality(Matching(f)) <= Cardinality(Matching(f)')
  BY <1>2, <1>3, FS_Subset
<1>8. /\ Cardinality(Matching(f)) \in Nat /\ Cardinality(Matching(f)') \in Nat
  BY <1>1, <1>2, FS_CardinalityType
<1>9. Position(j, f) = Cardinality(A) /\ Position(j, f)' = Cardinality(B)
  BY DEF Position, Newer
<1> QED BY <1>5, <1>6, <1>7, <1>8, <1>9

(* Registered workers stay, and attempts begin with a registered worker.   *)
LEMMA WorkersStep ==
  ASSUME AdminInv, TablesChange
  PROVE  Registered \subseteq Registered' /\ RunsHaveWorkers'
<1>1. StoreTypeOK /\ [StoreNext]_storeVars
  BY DEF TablesChange, AdminInv, StoreInv
<1>2. Registered \subseteq Registered'
  BY <1>1, WorkersStay DEF Registered
<1>3. ASSUME NEW j \in Jobs, jobs'[j].attempt >= 1 PROVE Registered' # {}
  <2>1. jobs[j] \in JobRow
    BY <1>1 DEF StoreTypeOK
  <2>2. Effect(j)
    BY <1>1, Effects
  <2>3. CASE jobs[j].attempt >= 1
    BY <1>2, <2>3 DEF AdminInv, RunsHaveWorkers
  <2>4. CASE ~(jobs[j].attempt >= 1)
    <3>1. ~Created(j)
      BY <1>3, NewRowFields, StoreAssumption DEF Created, JobStatus
    <3>2. jobs'[j].attempt = jobs[j].attempt \/ Claimed(j)
      <4>1. CASE Kept(j)
        <5>1. CASE jobs'[j] = jobs[j]
          BY <5>1
        <5>2. CASE OnlyLease(j)
          <6>1. PICK l \in {"live", "expired"} :
                        jobs'[j] = [jobs[j] EXCEPT !.lease = l]
            BY <5>2 DEF OnlyLease
          <6> QED BY <2>1, <6>1, EditedFields
        <5> QED BY <4>1, <5>1, <5>2 DEF Kept
      <4>2. CASE Queued(j)
        BY <2>1, <4>2, EditedFields DEF Queued
      <4>3. CASE Completed(j)
        BY <2>1, <4>3, CompletedFields DEF Completed
      <4>4. CASE AttemptLost(j)
        BY <2>1, <4>4, FailedFields DEF AttemptLost
      <4> QED BY <2>2, <3>1, <4>1, <4>2, <4>3, <4>4 DEF Effect
    <3>3. Claimed(j)
      BY <1>3, <2>4, <3>2
    <3>4. Registered # {}
      BY <3>3 DEF Claimed, Claimable, Registered
    <3> QED BY <1>2, <3>4
  <2> QED BY <2>3, <2>4
<1> QED BY <1>2, <1>3 DEF RunsHaveWorkers

(* Whatever happens to the tables, the view remains good.                  *)
LEMMA TablesStep == AdminInv /\ TablesChange => AdminInv'
<1> SUFFICES ASSUME AdminInv, TablesChange PROVE AdminInv'
  OBVIOUS
<1>1. StoreInv'
  BY NextInv DEF TablesChange, AdminInv
<1>2. view' = view
  BY DEF TablesChange
<1> DEFINE f == view.filter
<1>3. ASSUME Lasting(f), NEW j \in Matching(f)
      PROVE  /\ j \in Matching(f)' /\ Position(j, f)' >= Position(j, f)
             /\ Position(j, f) \in Int /\ Position(j, f)' \in Int
  BY <1>2, <1>3, ListsGrow, PositionsGrow
<1>4. Ahead'
  BY <1>2, <1>3 DEF AdminInv, Ahead, Lasting, AdminTypeOK, View
<1>5. Counted'
  <2>1. ASSUME Lasting(f)
        PROVE  /\ Cardinality(Matching(f)) <= Cardinality(Matching(f)')
               /\ Cardinality(Matching(f)) \in Nat
               /\ Cardinality(Matching(f)') \in Nat
    <3>1. IsFiniteSet(Matching(f))
      BY ListOrder DEF AdminInv
    <3>2. IsFiniteSet(Matching(f)')
      <4>1. Matching(f)' \in SUBSET Jobs
        BY DEF Matching, Existing
      <4> QED BY <4>1, FS_Subset, AdminAssumption
    <3>3. Matching(f) \in SUBSET (Matching(f)')
      BY <1>2, <2>1, ListsGrow
    <3> QED BY <3>1, <3>2, <3>3, FS_Subset, FS_CardinalityType
  <2> QED BY <1>2, <2>1 DEF AdminInv, Counted, Lasting, AdminTypeOK, View
<1>6. AdminTypeOK' /\ TimesDiffer' /\ Registered \subseteq Registered'
        /\ RunsHaveWorkers'
  BY TimesStep, WorkersStep
<1>7. CountsHaveWorkers'
  BY <1>2, <1>6 DEF AdminInv, CountsHaveWorkers
<1>8. ListsAreComplete' /\ TotalsAreReached' /\ StatsKnowTheWorkers'
  BY <1>2 DEF AdminInv, ListsAreComplete, TotalsAreReached,
              StatsKnowTheWorkers, Lasting
<1> QED BY <1>1, <1>4, <1>5, <1>6, <1>7, <1>8 DEF AdminInv

(***************************************************************************)
(* Steps of the view                                                       *)
(***************************************************************************)

(* What a step of the view has to show: the tables are left alone.         *)
LEMMA LookStep ==
  ASSUME AdminInv, UNCHANGED <<storeVars, created>>, view' \in View,
         Ahead', Counted', ListsAreComplete', TotalsAreReached',
         CountsHaveWorkers', StatsKnowTheWorkers'
  PROVE  AdminInv'
<1>1. StoreInv'
  BY NextInv DEF AdminInv, storeVars
<1>2. AdminTypeOK' /\ TimesDiffer' /\ RunsHaveWorkers'
  BY DEF AdminInv, AdminTypeOK, TimesDiffer, RunsHaveWorkers, Existing,
         Registered, storeVars
<1> QED BY <1>1, <1>2 DEF AdminInv

(* The limit of a request is between 1 and the greatest.                   *)
LEMMA LimitBounds ==
  ASSUME NEW n \in Limits
  PROVE  EffectiveLimit(n) \in 1..MaxLimit
BY AdminAssumption DEF EffectiveLimit

(* Nobody has seen anything yet, and everything due is in the list.        *)
LEMMA OpenListStep ==
  ASSUME AdminInv, NEW f \in Filter, NEW n \in Limits, OpenList(f, n)
  PROVE  AdminInv'
<1>1. /\ view'.at = "count" /\ view'.filter = f /\ view'.offset = 0
      /\ view'.due = Matching(f)
  BY NoViewFields DEF OpenList, View
<1>2. view' \in View
  <2>1. Matching(f) \in SUBSET Jobs
    BY DEF Matching, Existing
  <2> QED BY <2>1, LimitBounds, NoViewFields DEF OpenList, View, At
<1>3. \A j \in Matching(f) : Position(j, f) >= 0
  <2> TAKE j \in Matching(f)
  <2>1. Rank(Matching(f), created, j) >= 0
    <3> DEFINE M == Matching(f)
    <3>1. /\ IsFiniteSet(M) /\ \A i \in M : created[i] \in Nat
      BY ListOrder DEF AdminInv
    <3> HIDE DEF M
    <3>2. ASSUME NEW i \in M
          PROVE  Rank(M, created, i) \in 0..(Cardinality(M) - 1)
      BY <3>1, RankBound
    <3>3. Cardinality(M) \in Nat
      BY <3>1, FS_CardinalityType
    <3> QED BY <3>2, <3>3 DEF M
  <2> QED BY <2>1, ListOrder DEF AdminInv
<1>4. Ahead'
  BY <1>1, <1>3
     DEF Ahead, OpenList, Matching, Existing, Position, Newer, storeVars
<1>5. /\ Counted' /\ ListsAreComplete' /\ TotalsAreReached'
      /\ CountsHaveWorkers' /\ StatsKnowTheWorkers'
  BY <1>1 DEF Counted, ListsAreComplete, TotalsAreReached, CountsHaveWorkers,
              StatsKnowTheWorkers
<1> QED BY <1>2, <1>4, <1>5, LookStep DEF OpenList

(* The list has the size that is counted.                                  *)
LEMMA CountJobsStep ==
  ASSUME AdminInv, CountJobs
  PROVE  AdminInv'
<1> DEFINE f == view.filter
<1>1. view \in View
  BY DEF AdminInv, AdminTypeOK
<1>2. Total(f) \in Nat /\ Total(f) = Cardinality(Matching(f))
  BY ListOrder, FS_CardinalityType DEF AdminInv, Total
<1>3. view' = [view EXCEPT !.at = "rows", !.total = Total(f)]
  BY DEF CountJobs
<1>4. /\ view' \in View /\ view'.at = "rows" /\ view'.filter = f
      /\ view'.total = Cardinality(Matching(f))
      /\ view'.offset = view.offset /\ view'.due = view.due
      /\ view'.seen = view.seen /\ view.at = "count"
  BY <1>1, <1>2, <1>3 DEF View, At, CountJobs
<1>5. Ahead'
  BY <1>4 DEF CountJobs, AdminInv, Ahead, Lasting, Matching, Existing,
              Position, Newer, storeVars
<1>6. Counted'
  BY <1>2, <1>4 DEF CountJobs, Counted, Matching, Existing, storeVars
<1>7. /\ ListsAreComplete' /\ TotalsAreReached'
      /\ CountsHaveWorkers' /\ StatsKnowTheWorkers'
  BY <1>4 DEF ListsAreComplete, TotalsAreReached, CountsHaveWorkers,
              StatsKnowTheWorkers
<1> QED BY <1>4, <1>5, <1>6, <1>7, LookStep DEF CountJobs

(* An empty page is the end of the list; another one holds at most as many *)
(* jobs as its limit, so no job between it and the next one is skipped.    *)
LEMMA PageFacts ==
  ASSUME AdminTypeOK, NEW f, NEW l \in Nat \ {0}, NEW o \in Nat
  PROVE  /\ Cardinality(Page(f, l, o)) \in 0..l
         /\ Page(f, l, o) \in SUBSET Jobs
         /\ \A j \in Matching(f) :
              /\ Position(j, f) \in 0..(Cardinality(Matching(f)) - 1)
              /\ (Position(j, f) >= o /\ j \notin Page(f, l, o))
                   => Position(j, f) >= o + l
         /\ Cardinality(Matching(f)) \in Nat
         /\ Page(f, l, o) = {} => /\ Cardinality(Matching(f)) <= o
                                  /\ Cardinality(Page(f, l, o)) = 0
<1> DEFINE M == Matching(f)
           P == {j \in M : /\ Rank(M, created, j) >= o
                           /\ Rank(M, created, j) < o + l}
<1>1. /\ IsFiniteSet(M) /\ M \subseteq Jobs
      /\ \A i \in M : created[i] \in Nat
      /\ Distinct(M, created)
      /\ \A j : Position(j, f) = Rank(M, created, j)
  BY ListOrder
<1>2. Page(f, l, o) = P
  BY <1>1 DEF Page
<1> HIDE DEF M
<1>3. Cardinality(P) \in Nat /\ Cardinality(P) <= l
  BY <1>1, PageBound
<1>4. \A j \in M : Rank(M, created, j) \in 0..(Cardinality(M) - 1)
  BY <1>1, RankBound
<1>5. Cardinality(M) \in Nat
  BY <1>1, FS_CardinalityType
<1>6. ASSUME P = {} PROVE Cardinality(M) <= o
  <2> SUFFICES ASSUME o < Cardinality(M) PROVE FALSE
    BY <1>5
  <2>1. PICK j \in M : Rank(M, created, j) = o
    BY <1>1, RankOnto
  <2>2. j \in P
    BY <2>1
  <2> QED BY <1>6, <2>2
<1>7. P = {} => Cardinality(P) = 0
  BY FS_EmptySet
<1>8. \A j \in M : (Rank(M, created, j) >= o /\ j \notin P)
                   => Rank(M, created, j) >= o + l
  BY <1>4
<1> HIDE DEF P
<1>9. P \in SUBSET Jobs
  BY <1>1 DEF P
<1> QED BY <1>1, <1>2, <1>3, <1>4, <1>5, <1>6, <1>7, <1>8, <1>9 DEF M

(* A page hands out what is next, or ends the list.                        *)
LEMMA ListJobsStep ==
  ASSUME AdminInv, ListJobs
  PROVE  AdminInv'
<1> DEFINE f == view.filter
           P == Page(f, view.limit, view.offset)
<1>1. view \in View /\ AdminTypeOK
  BY DEF AdminInv, AdminTypeOK
<1>2. view.limit \in Nat \ {0} /\ view.offset \in Nat /\ view.total \in Nat
  BY <1>1, AdminAssumption DEF View
<1>3. /\ Cardinality(P) \in 0..view.limit
      /\ P \in SUBSET Jobs
      /\ \A j \in Matching(f) :
           /\ Position(j, f) \in 0..(Cardinality(Matching(f)) - 1)
           /\ (Position(j, f) >= view.offset /\ j \notin P)
                => Position(j, f) >= view.offset + view.limit
      /\ Cardinality(Matching(f)) \in Nat
      /\ P = {} => /\ Cardinality(Matching(f)) <= view.offset
                   /\ Cardinality(P) = 0
  BY <1>1, <1>2, PageFacts
<1>4. view' = [view EXCEPT !.at = IF P = {} THEN "listed" ELSE "count",
                           !.seen = @ \cup P,
                           !.offset = @ + Cardinality(P)]
  BY DEF ListJobs
<1> HIDE DEF P
<1>5. /\ view'.at = IF P = {} THEN "listed" ELSE "count"
      /\ view'.filter = f /\ view'.due = view.due /\ view.at = "rows"
      /\ view'.seen = view.seen \cup P
      /\ view'.offset = view.offset + Cardinality(P)
      /\ view'.total = view.total
  BY <1>1, <1>4 DEF View, ListJobs
<1>6. view' \in View
  <2> DEFINE a == IF P = {} THEN "listed" ELSE "count"
             s == view.seen \cup P
             o == view.offset + Cardinality(P)
  <2>1. a \in At
    BY DEF At
  <2>2. s \in SUBSET Jobs
    BY <1>1, <1>3 DEF View
  <2>3. o \in Nat
    BY <1>2, <1>3
  <2>4. view' = [view EXCEPT !.at = a, !.seen = s, !.offset = o]
    BY <1>4
  <2> HIDE DEF a, s, o
  <2> QED BY <1>1, <2>1, <2>2, <2>3, <2>4 DEF View
<1>7. ASSUME Lasting(f), NEW j \in view.due \ view.seen
      PROVE  j \in Matching(f) /\ Position(j, f) >= view.offset
  BY <1>5, <1>7 DEF AdminInv, Ahead
<1>8. Ahead'
  <2>1. ASSUME Lasting(f), NEW j \in view'.due \ view'.seen
        PROVE  j \in Matching(f) /\ Position(j, f) >= view'.offset
    <3>1. j \in Matching(f) /\ Position(j, f) >= view.offset /\ j \notin P
      BY <1>5, <1>7, <2>1
    <3>2. Position(j, f) >= view.offset + view.limit /\ Position(j, f) \in Int
      BY <1>3, <3>1
    <3> QED BY <1>2, <1>3, <1>5, <3>1, <3>2
  <2> QED BY <1>5, <2>1 DEF ListJobs, Ahead, Lasting, Matching, Existing,
                            Position, Newer, storeVars
<1>9. ListsAreComplete'
  <2> SUFFICES ASSUME P = {}, Lasting(f), NEW j \in view.due \ view.seen
               PROVE  FALSE
    BY <1>5 DEF ListsAreComplete, Lasting
  <2>1. j \in Matching(f) /\ Position(j, f) >= view.offset
    BY <1>7
  <2> QED BY <1>2, <1>3, <2>1
<1>10. TotalsAreReached'
  BY <1>2, <1>3, <1>5 DEF AdminInv, Counted, TotalsAreReached, Lasting
<1>11. Counted' /\ CountsHaveWorkers' /\ StatsKnowTheWorkers'
  BY <1>5 DEF Counted, CountsHaveWorkers, StatsKnowTheWorkers
<1> QED BY <1>6, <1>8, <1>9, <1>10, <1>11, LookStep DEF ListJobs

(***************************************************************************)
(* Statistics                                                              *)
(***************************************************************************)

(* The numbers of jobs and of workers are natural.                         *)
LEMMA Numbers ==
  /\ \A s : Cardinality({j \in Jobs : jobs[j].status = s}) \in Nat
  /\ \A S : /\ IsFiniteSet({w \in Workers : workers[w] \in S})
            /\ Cardinality({w \in Workers : workers[w] \in S}) \in Nat
<1>1. \A s : {j \in Jobs : jobs[j].status = s} \in SUBSET Jobs
  OBVIOUS
<1>2. \A S : {w \in Workers : workers[w] \in S} \in SUBSET Workers
  OBVIOUS
<1> QED BY <1>1, <1>2, FS_Subset, FS_CardinalityType, AdminAssumption

(* Nothing is counted yet.                                                 *)
LEMMA OpenStatsStep ==
  ASSUME AdminInv, OpenStats
  PROVE  AdminInv'
<1>1. /\ view' = [NoView EXCEPT !.at = "jobs"]
  BY DEF OpenStats, StatsQueries
<1>2. view' \in View /\ view'.at = "jobs"
  BY <1>1, NoViewFields DEF View, At
<1>3. /\ Ahead' /\ Counted' /\ ListsAreComplete' /\ TotalsAreReached'
      /\ CountsHaveWorkers' /\ StatsKnowTheWorkers'
  BY <1>2 DEF Ahead, Counted, ListsAreComplete, TotalsAreReached,
              CountsHaveWorkers, StatsKnowTheWorkers
<1> QED BY <1>2, <1>3, LookStep DEF OpenStats

(* Who has counted jobs that ran will count the workers after it.          *)
LEMMA CountByStatusStep ==
  ASSUME AdminInv, CountByStatus
  PROVE  AdminInv'
<1> DEFINE c == [s \in Statuses |->
                   Cardinality({j \in Jobs : jobs[j].status = s})]
<1>1. view \in View
  BY DEF AdminInv, AdminTypeOK
<1>2. c \in [Statuses -> Nat]
  BY Numbers
<1>3. view' = [view EXCEPT !.at = "workers", !.counts = c]
  BY DEF CountByStatus, AfterQuery, StatsQueries
<1> HIDE DEF c
<1>4. view' \in View /\ view'.at = "workers" /\ view'.counts = c
  BY <1>1, <1>2, <1>3 DEF View, At
<1>5. ASSUME NEW s \in Terminal \cup {"RUNNING"}, c[s] > 0
      PROVE  Registered # {}
  <2>1. s \in Statuses
    BY DEF Terminal, Statuses, JobStatus
  <2>2. {j \in Jobs : jobs[j].status = s} # {}
    BY <1>5, <2>1, FS_EmptySet DEF c
  <2>3. PICK j \in Jobs : jobs[j].status = s
    BY <2>2
  <2>4. jobs[j].attempt >= 1
    BY <2>3 DEF AdminInv, StoreInv, AttemptsWithinLimit, StoreTypeOK, JobRow,
                Terminal
  <2> QED BY <2>4 DEF AdminInv, RunsHaveWorkers
<1>6. CountsHaveWorkers'
  BY <1>4, <1>5 DEF CountsHaveWorkers, CountByStatus, Registered, storeVars
<1>7. /\ Ahead' /\ Counted' /\ ListsAreComplete' /\ TotalsAreReached'
      /\ StatsKnowTheWorkers'
  BY <1>4 DEF Ahead, Counted, ListsAreComplete, TotalsAreReached,
              StatsKnowTheWorkers
<1> QED BY <1>4, <1>6, <1>7, LookStep DEF CountByStatus

(* A registered worker is counted as active or as dead.                    *)
LEMMA CountWorkersStep ==
  ASSUME AdminInv, CountWorkers
  PROVE  AdminInv'
<1> DEFINE A == {w \in Workers : workers[w] \in {"ACTIVE", "STALE"}}
           D == {w \in Workers : workers[w] = "DEAD"}
<1>1. view \in View
  BY DEF AdminInv, AdminTypeOK
<1>2. /\ IsFiniteSet(A) /\ IsFiniteSet(D)
      /\ Cardinality(A) \in Nat /\ Cardinality(D) \in Nat
  <2>1. D = {w \in Workers : workers[w] \in {"DEAD"}}
    OBVIOUS
  <2> QED BY <2>1, Numbers
<1>3. Registered # {} => Cardinality(A) > 0 \/ Cardinality(D) > 0
  <2>1. Registered # {} => A # {} \/ D # {}
    BY DEF Registered, AdminInv, StoreInv, StoreTypeOK, WorkerStatus
  <2> QED BY <1>2, <2>1, FS_EmptySet
<1>4. view' = [view EXCEPT !.at = "stats", !.active = Cardinality(A),
                           !.dead = Cardinality(D)]
  BY DEF CountWorkers, AfterQuery, StatsQueries
<1> HIDE DEF A, D
<1>5. /\ view' \in View /\ view'.at = "stats" /\ view'.counts = view.counts
      /\ view'.active = Cardinality(A) /\ view'.dead = Cardinality(D)
  BY <1>1, <1>2, <1>4 DEF View, At
<1>6. StatsKnowTheWorkers'
  BY <1>2, <1>3, <1>5 DEF CountWorkers, AdminInv, CountsHaveWorkers,
                          StatsKnowTheWorkers
<1>7. /\ Ahead' /\ Counted' /\ ListsAreComplete' /\ TotalsAreReached'
      /\ CountsHaveWorkers'
  BY <1>5 DEF Ahead, Counted, ListsAreComplete, TotalsAreReached,
              CountsHaveWorkers
<1> QED BY <1>5, <1>6, <1>7, LookStep DEF CountWorkers

(***************************************************************************)
(* The theorems                                                            *)
(***************************************************************************)

(* Every step keeps the inductive invariant.                               *)
LEMMA AdminNext == AdminInv /\ [Next]_vars => AdminInv'
<1> SUFFICES ASSUME AdminInv, [Next]_vars PROVE AdminInv'
  OBVIOUS
<1>1. CASE TablesChange
  BY <1>1, TablesStep
<1>2. CASE ViewStep
  BY <1>2, OpenListStep, CountJobsStep, ListJobsStep, OpenStatsStep,
     CountByStatusStep, CountWorkersStep DEF ViewStep
<1>3. CASE UNCHANGED vars
  <2>1. UNCHANGED <<storeVars, created>> /\ view' = view /\ view' \in View
    BY <1>3 DEF vars, AdminInv, AdminTypeOK
  <2>2. /\ Ahead' /\ Counted' /\ ListsAreComplete' /\ TotalsAreReached'
        /\ CountsHaveWorkers' /\ StatsKnowTheWorkers'
    BY <2>1 DEF AdminInv, Ahead, Counted, ListsAreComplete, TotalsAreReached,
                CountsHaveWorkers, StatsKnowTheWorkers, Lasting, Matching,
                Existing, Position, Newer, Registered, storeVars
  <2> QED BY <2>1, <2>2, LookStep
<1> QED BY <1>1, <1>2, <1>3 DEF Next

(* The inductive invariant holds in every reachable state.                 *)
THEOREM AdminCorrect == Spec => []AdminInv
BY AdminInit, AdminNext, PTL DEF Spec

(* The view has its type, and no two jobs have one time of creation.       *)
THEOREM AdminTypeCorrect == Spec => []AdminTypeOK
<1>1. AdminInv => AdminTypeOK
  BY DEF AdminInv
<1> QED BY <1>1, AdminCorrect, PTL

(* Reading all jobs, or those that ended, to the first empty page misses   *)
(* none that was there at the beginning.                                   *)
THEOREM ListsMissNothing == Spec => []ListsAreComplete
<1>1. AdminInv => ListsAreComplete
  BY DEF AdminInv
<1> QED BY <1>1, AdminCorrect, PTL

(* The total of a page of such a list never exceeds what can be had, and   *)
(* GetAdminStats shows no jobs that ran without showing a worker.          *)
THEOREM AnswersAlwaysAgree == Spec => []AnswersAgree
<1>1. AdminInv => AnswersAgree
  BY DEF AdminInv, AnswersAgree
<1> QED BY <1>1, AdminCorrect, PTL

(* The tables the administrator looks at change only as the store lets     *)
(* them: looking changes nothing.                                          *)
LEMMA ViewsUseTheStore == Spec => StoreSpec
<1>1. Init => StoreInit
  BY DEF Init
<1>2. [Next]_vars => [StoreNext]_storeVars
  <2>1. TablesChange => StoreNext
    BY DEF TablesChange
  <2>2. ViewStep => UNCHANGED storeVars
    BY DEF ViewStep, OpenList, CountJobs, ListJobs, OpenStats, CountByStatus,
           CountWorkers
  <2> QED BY <2>1, <2>2 DEF Next, vars
<1> QED BY <1>1, <1>2, PTL DEF Spec, StoreSpec

(* Whatever an administrator reads in between, jobs go through their life  *)
(* as the abstract specification of it says.                               *)
THEOREM LifecycleUnderViews == Spec => ImplementsLifecycle
BY ViewsUseTheStore, StoreImplementsLifecycle
=============================================================================
