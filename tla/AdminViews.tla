----------------------------- MODULE AdminViews ------------------------------
(***************************************************************************)
(* The admin endpoints (internal/api/admin.go, internal/store/admin.go):   *)
(* the job list with its filters and pages, and the statistics.  (The list *)
(* of workers and a single worker are one statement each.)                 *)
(*                                                                         *)
(* They change nothing, but one answer is made of several statements, and  *)
(* a list of several requests, without a common snapshot: between any two  *)
(* of them jobs are created, claimed, finished and reaped.  The tables and *)
(* all that happens to them are JobStore's.  One administrator looks at a  *)
(* time; the views do not affect each other.                               *)
(*                                                                         *)
(* Whoever reads a list page by page goes on from the number of jobs       *)
(* received so far, until a page comes back empty.                         *)
(***************************************************************************)
EXTENDS JobStore

CONSTANTS Limits,       \* values of the limit parameter
          DefaultLimit, \* 50 in the code
          MaxLimit      \* 200 in the code

ASSUME AdminAssumption ==
  /\ IsFiniteSet(Jobs) /\ IsFiniteSet(Workers)
  /\ Limits \subseteq Int
  /\ MaxLimit \in Nat \ {0} /\ DefaultLimit \in 1..MaxLimit

VARIABLES
  created, \* jobs.created_at; all that matters is the order
  view     \* where the administrator's requests are

vars == <<storeVars, created, view>>

(* The filters: a status or "ALL", a worker or NONE for all of them.       *)
Statuses == JobStatus \ {"ABSENT"}

Filter == [status : Statuses \cup {"ALL"}, worker : Workers \cup {NONE}]

(* The statements of GetAdminStats, in order.                              *)
StatsQueries_WorkersFirst == <<"workers", "jobs">>

StatsQueries == <<"jobs", "workers">>

(* The next statement; or what is on the screen.                           *)
At == {"count", "rows", "jobs", "workers", "idle", "listed", "stats"}

View == [at : At, filter : Filter, limit : 1..MaxLimit, offset : Nat,
         total : Nat, seen : SUBSET Jobs, due : SUBSET Jobs,
         counts : [Statuses -> Nat], active : Nat, dead : Nat]

NoView ==
  [at |-> "idle", filter |-> [status |-> "ALL", worker |-> NONE],
   limit |-> DefaultLimit, offset |-> 0, total |-> 0, seen |-> {}, due |-> {},
   counts |-> [s \in Statuses |-> 0], active |-> 0, dead |-> 0]

OnScreen == {"idle", "listed", "stats"}

Times == 1..Cardinality(Jobs)

Init ==
  /\ StoreInit
  /\ created = [j \in Jobs |-> 0]
  /\ view = NoView

(***************************************************************************)
(* The job list                                                            *)
(***************************************************************************)

Existing == {j \in Jobs : jobs[j].status # "ABSENT"}

(* The WHERE clause of both statements of ListJobs.                        *)
Matching(f) ==
  {j \in Existing : /\ f.status \in {"ALL", jobs[j].status}
                    /\ f.worker \in {NONE, jobs[j].worker}}

(* ORDER BY created_at DESC; no two jobs have the same time.               *)
Newer_RecentlyRun(i, j) ==
  \/ jobs[i].attempt > jobs[j].attempt
  \/ jobs[i].attempt = jobs[j].attempt /\ created[i] > created[j]

Newer(i, j) == created[i] > created[j]

Position(j, f) == Cardinality({i \in Matching(f) : Newer(i, j)})

Page(f, limit, offset) ==
  {j \in Matching(f) :
     Position(j, f) >= offset /\ Position(j, f) < offset + limit}

(* What ListJobs makes of the limit that it is given.                      *)
EffectiveLimit_Uncapped(n) == IF n <= 0 THEN DefaultLimit ELSE n

EffectiveLimit(n) ==
  IF n <= 0 THEN DefaultLimit ELSE IF n > MaxLimit THEN MaxLimit ELSE n

(* The first of the requests for the pages of a list.                      *)
OpenList(f, n) ==
  /\ view.at \in OnScreen
  /\ view' = [NoView EXCEPT !.at = "count", !.filter = f,
                            !.limit = EffectiveLimit(n), !.due = Matching(f)]
  /\ UNCHANGED <<storeVars, created>>

Total_Unfiltered(f) == Cardinality(Existing)

Total(f) == Cardinality(Matching(f))

CountJobs ==
  /\ view.at = "count"
  /\ view' = [view EXCEPT !.at = "rows", !.total = Total(view.filter)]
  /\ UNCHANGED <<storeVars, created>>

(* The answer to one page; the next one is asked for if it has any jobs.   *)
ListJobs ==
  /\ view.at = "rows"
  /\ LET page == Page(view.filter, view.limit, view.offset) IN
       view' = [view EXCEPT !.at = IF page = {} THEN "listed" ELSE "count",
                            !.seen = @ \cup page,
                            !.offset = @ + Cardinality(page)]
  /\ UNCHANGED <<storeVars, created>>

(***************************************************************************)
(* Statistics                                                              *)
(***************************************************************************)

OpenStats ==
  /\ view.at \in OnScreen
  /\ view' = [NoView EXCEPT !.at = StatsQueries[1]]
  /\ UNCHANGED <<storeVars, created>>

AfterQuery(q) == IF q = StatsQueries[1] THEN StatsQueries[2] ELSE "stats"

(* One statement counts all statuses.  QueueDepth is counts["DISPATCHED"]. *)
CountByStatus ==
  /\ view.at = "jobs"
  /\ view' = [view EXCEPT !.at = AfterQuery("jobs"),
       !.counts = [s \in Statuses |->
                     Cardinality({j \in Jobs : jobs[j].status = s})]]
  /\ UNCHANGED <<storeVars, created>>

CountWorkers ==
  /\ view.at = "workers"
  /\ view' = [view EXCEPT !.at = AfterQuery("workers"),
       !.active = Cardinality({w \in Workers :
                                 workers[w] \in {"ACTIVE", "STALE"}}),
       !.dead = Cardinality({w \in Workers : workers[w] = "DEAD"})]
  /\ UNCHANGED <<storeVars, created>>

Registered == {w \in Workers : workers[w] # "ABSENT"}

(***************************************************************************)

(* created_at is the start of the transaction that inserts the job: one    *)
(* that commits late appears behind jobs that are already listed.          *)
CreatedAt(j) ==
  \E t \in Times :
    /\ \A i \in Jobs : created[i] # t
    /\ created' = [created EXCEPT ![j] = t]

TablesChange ==
  /\ StoreNext
  /\ \/ Existing' = Existing /\ UNCHANGED created
     \/ \E j \in Jobs \ Existing :
          Existing' = Existing \cup {j} /\ CreatedAt(j)
  /\ UNCHANGED view

ViewStep ==
  \/ \E f \in Filter, n \in Limits : OpenList(f, n)
  \/ CountJobs \/ ListJobs \/ OpenStats \/ CountByStatus \/ CountWorkers

Next == TablesChange \/ ViewStep

Spec == Init /\ [][Next]_vars

(***************************************************************************)
(* Properties                                                              *)
(***************************************************************************)

(* The view has its type, and jobs have a time of creation of their own.   *)
AdminTypeOK ==
  /\ view \in View
  /\ created \in [Jobs -> {0} \cup Times]
  /\ \A i, j \in Existing : created[i] = created[j] => i = j

(* Lists that a job does not leave again: all jobs, or those that ended    *)
(* in one of the final states, of all workers or of one.                   *)
Lasting(f) == f.status \in Terminal \/ (f.status = "ALL" /\ f.worker = NONE)

(* Whoever reads such a list to its end has seen every job that was in it  *)
(* when the reading began, however many were created or ended meanwhile:   *)
(* a job only ever moves to later pages.  (It may be seen twice.)  In the  *)
(* other lists a job may be skipped, for those before it may leave.        *)
ListsAreComplete ==
  (view.at = "listed" /\ Lasting(view.filter)) => view.due \subseteq view.seen

(* The total of a page, which another statement has counted before, never  *)
(* promises jobs that cannot be had: as long as it exceeds the offset the  *)
(* page is not empty.                                                      *)
TotalsAreReached ==
  (view.at = "listed" /\ Lasting(view.filter)) => view.total <= view.offset

(* The statistics never show jobs that ran without a worker that could     *)
(* have run them, although jobs and workers are counted by two statements: *)
(* workers are counted last, and none is ever removed.                     *)
StatsKnowTheWorkers ==
  (view.at = "stats" /\ \E s \in Terminal \cup {"RUNNING"} : view.counts[s] > 0)
    => view.active + view.dead > 0

(* What two statements without a common snapshot say together is true: the *)
(* total of a list of its pages, the job counts of the workers.            *)
AnswersAgree == TotalsAreReached /\ StatsKnowTheWorkers
=============================================================================
