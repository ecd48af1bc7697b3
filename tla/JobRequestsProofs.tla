-------------------------- MODULE JobRequestsProofs ---------------------------
(***************************************************************************)
(* Proofs about JobRequests, for any number of requests, keys and jobs.    *)
(*                                                                         *)
(* Between its steps a handler relies on what it knows of the job it has   *)
(* found or is about to create.  The strengthening says what that is; most *)
(* of the work is to show that no other request spoils it.                 *)
(***************************************************************************)
EXTENDS JobRequests, JobStoreProofs

(* An id that an upload was stored under, before its row is inserted.      *)
Drawn(q) == q.kind = "multipart" /\ q.at = "insert"

(* What a handler knows at each of its calls.                              *)
Knows(q) ==
  /\ q.at = "lookup" => q.kind = "json"
  /\ q.at \in {"check", "exists", "queue", "reply", "answered"} =>
       q.job \in Jobs
  /\ Drawn(q) \/ q.at = "queue" => q.job \in inputs
  /\ (q.at \in {"reply", "answered"} /\ q.kind = "json" /\ q.key # NoKey) =>
       key[q.job] = q.key

(* An id drawn for an upload has no row yet, and is nobody else's.         *)
DrawnOnce ==
  \A r \in Requests : Drawn(request[r]) =>
    /\ jobs[request[r].job].status = "ABSENT"
    /\ \A s \in Requests \ {r} : Drawn(request[s]) =>
                                   request[s].job # request[r].job

KeysOfRows == \A j \in Jobs : key[j] # NoKey => jobs[j].status # "ABSENT"

KeysUnique == \A i, j \in Jobs : key[i] = key[j] /\ key[i] # NoKey => i = j

StorageOfRows == \A j \in Jobs : storage[j] = NONE <=> jobs[j].status = "ABSENT"

RequestTypes ==
  /\ request \in [Requests -> Request]
  /\ key \in [Jobs -> Keys \cup {NoKey}]
  /\ storage \in [Jobs -> {NONE, "local", "r2"}]
  /\ inputs \subseteq Jobs /\ sends \in 0..MaxSends

RequestInv ==
  /\ StoreInv /\ RequestTypes
  /\ \A r \in Requests : Knows(request[r])
  /\ DrawnOnce /\ KeysOfRows /\ KeysUnique /\ StorageOfRows
  /\ DispatchedHasInput

(* The invariant has the properties as conjuncts or consequences.          *)
LEMMA RequestInvImplies ==
  RequestInv => RequestsTypeOK /\ OneJobPerKey /\ DispatchedHasInput
BY DEF RequestInv, RequestsTypeOK, OneJobPerKey, StoreInv, RequestTypes,
       Knows, Drawn, DrawnOnce, KeysUnique, StorageOfRows

(* No requests, no rows.                                                   *)
LEMMA RequestInit == Init => RequestInv
<1> HAVE Init
<1>1. StoreInv
  BY InitInv DEF Init
<1>2. \A j \in Jobs : jobs[j].status = "ABSENT"
  BY DEF Init, StoreInit, NoRow
<1>3. RequestTypes
  BY RequestAssumption DEF Init, RequestTypes, Request, Idle, At, Kinds
<1>4. \A r \in Requests : Knows(request[r]) /\ ~Drawn(request[r])
  BY DEF Init, Idle, Knows, Drawn
<1>5. \A j \in Jobs : key[j] = NoKey /\ storage[j] = NONE
  BY DEF Init
<1> QED BY <1>1, <1>2, <1>3, <1>4, <1>5, RequestAssumption
        DEF RequestInv, DrawnOnce, KeysOfRows, KeysUnique, StorageOfRows,
            DispatchedHasInput

(* A step of one request that leaves the tables alone.  The step may draw  *)
(* a fresh id or learn of a job, and it may add an input object.           *)
LEMMA OwnStep ==
  ASSUME RequestInv, NEW r \in Requests, NEW q \in Request,
         request' = [request EXCEPT ![r] = q],
         UNCHANGED <<storeVars, key, storage>>,
         inputs \subseteq inputs', inputs' \subseteq Jobs,
         sends' \in 0..MaxSends,
         Knows(q)', Drawn(q) => Fresh(q.job) \/ q = request[r]
  PROVE  RequestInv'
<1>1. StoreInv'
  BY NextInv DEF RequestInv, storeVars
<1>2. request \in [Requests -> Request]
  BY DEF RequestInv, RequestTypes
<1>3. /\ request'[r] = q
      /\ \A s \in Requests \ {r} : request'[s] = request[s]
  BY <1>2
<1>4. RequestTypes'
  BY <1>2 DEF RequestInv, RequestTypes
<1>5. \A s \in Requests : Knows(request[s])'
  <2> TAKE s \in Requests
  <2>1. CASE s = r
    BY <1>3, <2>1 DEF Knows, Drawn
  <2>2. CASE s # r
    BY <1>3, <2>2 DEF RequestInv, Knows, Drawn
  <2> QED BY <2>1, <2>2
<1>6. DrawnOnce'
  BY <1>3 DEF RequestInv, DrawnOnce, Drawn, Fresh, storeVars
<1>7. DispatchedHasInput'
  BY DEF RequestInv, DispatchedHasInput, storeVars
<1>8. KeysOfRows' /\ KeysUnique' /\ StorageOfRows'
  BY DEF RequestInv, KeysOfRows, KeysUnique, StorageOfRows, storeVars
<1> QED BY <1>1, <1>4, <1>5, <1>6, <1>7, <1>8 DEF RequestInv

(* A job is created under an id with no row, for a local job, for an       *)
(* upload that is in object storage, or to wait for its input.             *)
LEMMA InsertStep ==
  ASSUME RequestInv, [StoreNext]_storeVars, NEW r \in Requests, NEW j \in Jobs,
         NEW k \in Keys \cup {NoKey}, NEW mode \in {"local", "r2"},
         Inserted(r, j, k, mode), UNCHANGED <<inputs, sends>>,
         ~KeyTaken(k), jobs[j].status = "ABSENT",
         request[r].at = "insert",
         request[r].kind = "json" => k = request[r].key,
         Fresh(j) \/ (Drawn(request[r]) /\ j = request[r].job),
         jobs'[j].status # "ABSENT",
         mode = "r2" => jobs'[j].status = "NEW" \/ j \in inputs,
         \A i \in Jobs \ {j} : jobs'[i] = jobs[i]
  PROVE  RequestInv'
<1> DEFINE q == [request[r] EXCEPT !.at = "reply", !.job = j]
<1>1. StoreInv'
  BY NextInv DEF RequestInv
<1>2. /\ request \in [Requests -> Request]
      /\ key \in [Jobs -> Keys \cup {NoKey}]
      /\ storage \in [Jobs -> {NONE, "local", "r2"}]
  BY DEF RequestInv, RequestTypes
<1>3. /\ q \in Request /\ q.at = "reply" /\ q.job = j
      /\ q.kind = request[r].kind /\ q.key = request[r].key
  BY <1>2 DEF Request, At
<1>4. request' = [request EXCEPT ![r] = q]
  BY <1>2 DEF Inserted, GotoWith, Request
<1> HIDE DEF q
<1>5. /\ request'[r] = q
      /\ \A s \in Requests \ {r} : request'[s] = request[s]
  BY <1>2, <1>4
<1>6. /\ key'[j] = k /\ storage'[j] = mode
      /\ \A i \in Jobs \ {j} : key'[i] = key[i] /\ storage'[i] = storage[i]
  BY <1>2 DEF Inserted
<1>7. RequestTypes'
  BY <1>2, <1>3, <1>4 DEF RequestInv, RequestTypes, Inserted
<1>8. \A s \in Requests : Knows(request[s])'
  <2> TAKE s \in Requests
  <2>1. CASE s = r
    BY <1>3, <1>5, <1>6, <2>1 DEF Knows, Drawn
  <2>2. CASE s # r
    <3>1. Knows(request[s]) /\ request'[s] = request[s]
      BY <1>5, <2>2 DEF RequestInv
    <3>2. request[s].at \in {"reply", "answered"} /\ request[s].kind = "json"
            /\ request[s].key # NoKey
          => key'[request[s].job] = request[s].key
      BY <1>6, <3>1 DEF Knows, RequestInv, KeysOfRows
    <3> QED BY <3>1, <3>2 DEF Knows, Drawn
  <2> QED BY <2>1, <2>2
<1>9. DrawnOnce'
  <2> SUFFICES ASSUME NEW s \in Requests, Drawn(request[s])'
               PROVE  /\ jobs'[request'[s].job].status = "ABSENT"
                      /\ \A t \in Requests \ {s} : Drawn(request[t])' =>
                                         request'[t].job # request'[s].job
    BY DEF DrawnOnce
  <2>1. s # r /\ request'[s] = request[s]
    BY <1>3, <1>5 DEF Drawn
  <2>2. Drawn(request[s]) /\ request[s].job \in Jobs
    BY <2>1 DEF Drawn, RequestInv, RequestTypes, Knows
  <2>3. request[s].job # j
    BY <2>1, <2>2 DEF Fresh, RequestInv, DrawnOnce
  <2>4. jobs[request[s].job].status = "ABSENT"
    BY <2>2 DEF RequestInv, DrawnOnce
  <2>5. \A t \in Requests \ {s} : Drawn(request[t])' =>
          t # r /\ request'[t] = request[t] /\ Drawn(request[t])
    BY <1>3, <1>5 DEF Drawn
  <2> QED BY <2>1, <2>2, <2>3, <2>4, <2>5 DEF RequestInv, DrawnOnce
<1>10. KeysOfRows'
  BY <1>6 DEF RequestInv, KeysOfRows
<1>11. KeysUnique'
  BY <1>2, <1>6 DEF RequestInv, KeysUnique, KeyTaken, WithKey
<1>12. StorageOfRows'
  BY <1>6, RequestAssumption DEF RequestInv, StorageOfRows
<1>13. DispatchedHasInput'
  BY <1>6 DEF RequestInv, DispatchedHasInput
<1> QED BY <1>1, <1>7, <1>8, <1>9, <1>10, <1>11, <1>12, <1>13 DEF RequestInv

(* A transaction that neither creates a job nor releases it to workers     *)
(* before its input is there.                                              *)
LEMMA TableOnlyStep ==
  ASSUME RequestInv, [StoreNext]_storeVars,
         UNCHANGED <<key, storage, inputs, sends>>,
         \A i \in Jobs :
           /\ jobs'[i].status = "ABSENT" <=> jobs[i].status = "ABSENT"
           /\ jobs[i].status = "NEW" => jobs'[i].status = "NEW" \/ i \in inputs,
         \/ request' = request
         \/ \E r \in Requests : request' = [request EXCEPT ![r] = Idle]
  PROVE  RequestInv'
<1>1. StoreInv'
  BY NextInv DEF RequestInv
<1>2. Idle \in Request /\ Knows(Idle)' /\ ~Drawn(Idle)
  BY DEF Idle, Request, At, Kinds, Knows, Drawn
<1>3. request \in [Requests -> Request]
  BY DEF RequestInv, RequestTypes
<1>4. \A s \in Requests : request'[s] \in {request[s], Idle}
  BY <1>3
<1>5. RequestTypes'
  BY <1>2, <1>3 DEF RequestInv, RequestTypes
<1>6. \A s \in Requests : Knows(request[s])'
  BY <1>2, <1>4 DEF RequestInv, Knows, Drawn
<1>7. \A s \in Requests : Drawn(request'[s]) =>
        request'[s] = request[s] /\ request[s].job \in Jobs
  BY <1>2, <1>4 DEF RequestInv, RequestTypes, Knows, Drawn
<1>8. DrawnOnce'
  BY <1>7 DEF RequestInv, DrawnOnce, Drawn
<1>9. KeysOfRows' /\ KeysUnique' /\ StorageOfRows' /\ DispatchedHasInput'
  BY DEF RequestInv, KeysOfRows, KeysUnique, StorageOfRows, DispatchedHasInput
<1> QED BY <1>1, <1>5, <1>6, <1>8, <1>9 DEF RequestInv

(* Workers, the reaper and the relay neither create jobs nor release them. *)
LEMMA ServedJobs ==
  ASSUME StoreInv, TableStep \/ \E j \in Jobs : ServeStep(j), NEW k \in Jobs
  PROVE  /\ jobs'[k].status = "ABSENT" <=> jobs[k].status = "ABSENT"
         /\ jobs[k].status = "NEW" => jobs'[k].status = "NEW"
<1>0. /\ jobs \in [Jobs -> JobRow] /\ jobs[k] \in JobRow
      /\ jobs[k].status \in {"ABSENT", "NEW"} => jobs[k].lease = "none"
  BY DEF StoreInv, StoreTypeOK, LeaseDiscipline
<1>1. CASE jobs' = jobs
  BY <1>1
<1>2. CASE ReapOrphanJobs
  <2>1. FailedRow(jobs[k]).status \in {"FAILED", "DISPATCHED"}
    BY <1>0, FailedFields DEF JobRow
  <2>2. jobs'[k] = IF k \in Orphans THEN FailedRow(jobs[k]) ELSE jobs[k]
    BY <1>2 DEF ReapOrphanJobs
  <2>3. k \in Orphans => jobs[k].status = "RUNNING"
    BY DEF Orphans, Orphan
  <2> QED BY <2>1, <2>2, <2>3
<1>3. ASSUME NEW j \in Jobs, ServeStep(j)
      PROVE  /\ jobs'[k].status = "ABSENT" <=> jobs[k].status = "ABSENT"
             /\ jobs[k].status = "NEW" => jobs'[k].status = "NEW"
  <2>1. \/ jobs'[k] = jobs[k]
        \/ \E l : jobs'[k] = [jobs[k] EXCEPT !.lease = l]
        \/ /\ jobs[k].status \in {"DISPATCHED", "RUNNING"}
           /\ \/ \E w \in Workers : jobs'[k] = ClaimedRow(jobs[k], w)
              \/ jobs'[k] \in {CompletedRow(jobs[k]), FailedRow(jobs[k])}
    <3> USE <1>0
    <3>1. ASSUME NEW w \in Workers, ClaimJob(j, w)
          PROVE  \/ jobs'[k] = jobs[k]
                 \/ jobs[k].status = "DISPATCHED"
                    /\ jobs'[k] = ClaimedRow(jobs[k], w)
      BY <3>1 DEF ClaimJob, Claimable
    <3>2. ASSUME NEW w \in Workers, NEW g, RenewLease(j, w, g)
          PROVE  \E l : \/ jobs'[k] = [jobs[k] EXCEPT !.lease = l]
                        \/ jobs'[k] = jobs[k]
      BY <3>2 DEF RenewLease
    <3>3. CASE LeaseExpires(j)
      BY <3>3 DEF LeaseExpires
    <3>4. ASSUME NEW w \in Workers, NEW g, NEW art,
                 \/ FinishAgain(j, art) \/ FinishSuccess(j, w, g, art)
                 \/ FinishFailure(j, w, g, art)
          PROVE  \/ jobs'[k] = jobs[k]
                 \/ /\ jobs[k].status \in {"DISPATCHED", "RUNNING"}
                    /\ jobs'[k] \in {CompletedRow(jobs[k]), FailedRow(jobs[k])}
      BY <3>4 DEF FinishAgain, FinishSuccess, FinishFailure, FinishAccepted,
                  ActiveFinish, HoldsLease, LateFinish
    <3> QED BY <1>3, <3>1, <3>2, <3>3, <3>4 DEF ServeStep
  <2>2. \A w \in Workers : ClaimedRow(jobs[k], w).status = "RUNNING"
    BY <1>0, ClaimedFields
  <2>3. /\ CompletedRow(jobs[k]).status = "COMPLETED"
        /\ FailedRow(jobs[k]).status \in {"FAILED", "DISPATCHED"}
    BY <1>0, CompletedFields, FailedFields DEF JobRow
  <2>4. \A l : [jobs[k] EXCEPT !.lease = l].status = jobs[k].status
    BY <1>0, EditedFields
  <2> QED BY <2>1, <2>2, <2>3, <2>4
<1> QED BY <1>1, <1>2, <1>3
        DEF TableStep, WorkerStep, RegisterWorker, Heartbeat, HeartbeatAges,
            MarkStaleWorkersDead, MarkOutboxPublishedTx

(* A handler that goes on has a request of its kind.                       *)
LEMMA RequestGoesOn ==
  ASSUME NEW q \in Request, NEW at \in At
  PROVE  LET p == [q EXCEPT !.at = at]
         IN /\ p \in Request /\ p.at = at /\ p.job = q.job
            /\ p.kind = q.kind /\ p.key = q.key
BY DEF Request

(* The calls of a handler that change no table.                            *)
LEMMA HandlerSteps ==
  ASSUME RequestInv, NEW r \in Requests,
         \/ Fails(r) \/ Lookup(r) \/ Answer(r) \/ PutInput(r)
         \/ SubmitCheck(r) \/ SubmitExists(r)
         \/ \E j \in Jobs : UploadInput(r, j)
         \/ \E kind \in Kinds, k \in Keys \cup {NoKey}, j \in Jobs \cup {NONE} :
              Send(r, kind, k, j)
  PROVE  RequestInv'
<1>0. /\ request \in [Requests -> Request] /\ request[r] \in Request
      /\ Knows(request[r]) /\ inputs \subseteq Jobs /\ sends \in 0..MaxSends
      /\ sends \in Int /\ MaxSends \in Nat
  BY RequestAssumption DEF RequestInv, RequestTypes
<1>1. ASSUME UNCHANGED <<storeVars, key, storage, inputs, sends>>,
             NEW q \in Request, request' = [request EXCEPT ![r] = q],
             Knows(q), ~Drawn(q) \/ q = request[r]
      PROVE  RequestInv'
  <2>1. Knows(q)'
    BY <1>1 DEF Knows, Drawn
  <2> QED BY <1>0, <1>1, <2>1, OwnStep
<1>2. ASSUME UNCHANGED <<storeVars, key, storage, inputs, sends>>, End(r)
      PROVE  RequestInv'
  <2>1. Idle \in Request /\ Knows(Idle) /\ ~Drawn(Idle)
    BY DEF Idle, Request, At, Kinds, Knows, Drawn
  <2> QED BY <1>1, <1>2, <2>1 DEF End
<1>3. ASSUME UNCHANGED <<storeVars, key, storage, inputs, sends>>,
             NEW at \in At, Goto(r, at), at # "insert",
             at \in {"exists", "queue"} => request[r].job \in Jobs,
             at = "queue" => request[r].job \in inputs,
             at # "lookup",
             at \in {"check", "reply", "answered"} => request[r].at = "reply"
      PROVE  RequestInv'
  <2> DEFINE q == [request[r] EXCEPT !.at = at]
  <2>1. /\ q \in Request /\ q.at = at /\ q.job = request[r].job
        /\ q.kind = request[r].kind /\ q.key = request[r].key
    BY <1>0, RequestGoesOn
  <2>2. request' = [request EXCEPT ![r] = q]
    BY <1>0, <1>3 DEF Goto
  <2> HIDE DEF q
  <2>3. Knows(q) /\ ~Drawn(q)
    BY <1>0, <1>3, <2>1 DEF Knows, Drawn
  <2> QED BY <1>1, <1>3, <2>1, <2>2, <2>3
<1>4. CASE Fails(r)
  BY <1>2, <1>4 DEF Fails
<1>5. CASE Lookup(r)
  <2>1. CASE WithKey(request[r].key) = {}
    <3> DEFINE q == [request[r] EXCEPT !.at = "insert"]
    <3>1. /\ q \in Request /\ q.at = "insert" /\ q.kind = request[r].kind
      <4>1. "insert" \in At
        BY DEF At
      <4> QED BY <1>0, <4>1, RequestGoesOn
    <3>2. request' = [request EXCEPT ![r] = q] /\ request[r].at = "lookup"
      BY <1>0, <1>5, <2>1 DEF Lookup, Goto
    <3> HIDE DEF q
    <3>3. Knows(q) /\ ~Drawn(q)
      BY <1>0, <3>1, <3>2 DEF Knows, Drawn
    <3> QED BY <1>1, <1>5, <3>1, <3>2, <3>3 DEF Lookup
  <2>2. ASSUME NEW j \in WithKey(request[r].key), GotoWith(r, "answered", j)
        PROVE  RequestInv'
    <3> DEFINE q == [request[r] EXCEPT !.at = "answered", !.job = j]
    <3>1. j \in Jobs /\ key[j] = request[r].key
      BY <2>2 DEF WithKey
    <3>2. /\ q \in Request /\ q.at = "answered" /\ q.job = j
          /\ q.kind = request[r].kind /\ q.key = request[r].key
      <4>1. "answered" \in At
        BY DEF At
      <4> QED BY <1>0, <3>1, <4>1 DEF Request
    <3>3. request' = [request EXCEPT ![r] = q]
      BY <1>0, <2>2 DEF GotoWith, Request
    <3> HIDE DEF q
    <3>4. Knows(q) /\ ~Drawn(q)
      BY <3>1, <3>2 DEF Knows, Drawn
    <3> QED BY <1>1, <1>5, <3>2, <3>3, <3>4 DEF Lookup
  <2> QED BY <1>5, <2>1, <2>2 DEF Lookup
<1>6. CASE Answer(r)
  BY <1>2, <1>3, <1>6 DEF Answer, At
<1>7. CASE SubmitCheck(r)
  BY <1>0, <1>2, <1>3, <1>7 DEF SubmitCheck, At, Knows
<1>8. CASE SubmitExists(r)
  BY <1>0, <1>2, <1>3, <1>8 DEF SubmitExists, At, Knows
<1>9. CASE PutInput(r)
  <2>1. request[r].job \in Jobs
    BY <1>0, <1>9 DEF PutInput, Knows
  <2>2. request' = [request EXCEPT ![r] = request[r]]
    BY <1>0, <1>9 DEF PutInput
  <2>3. /\ inputs \subseteq inputs' /\ inputs' \subseteq Jobs
        /\ sends' \in 0..MaxSends /\ UNCHANGED <<storeVars, key, storage>>
    BY <1>0, <1>9, <2>1 DEF PutInput
  <2>4. Knows(request[r])'
    BY <1>0, <1>9, <2>3 DEF PutInput, Knows, Drawn
  <2>5. LET q == request[r] IN Knows(q)'
    BY <1>9, <2>4 DEF PutInput
  <2> QED BY <1>0, <2>2, <2>3, <2>5, OwnStep
<1>10. ASSUME NEW j \in Jobs, UploadInput(r, j)
       PROVE  RequestInv'
  <2>1. "insert" \in At
    BY DEF At
  <2>2. PICK q \in Request : /\ q.at = "insert" /\ q.job = j
                             /\ request' = [request EXCEPT ![r] = q]
    <3> DEFINE p == [request[r] EXCEPT !.at = "insert", !.job = j]
    <3>1. p \in Request /\ p.at = "insert" /\ p.job = j
      BY <1>0, <2>1 DEF Request
    <3>2. request' = [request EXCEPT ![r] = p]
      BY <1>0, <1>10 DEF UploadInput, GotoWith, Request
    <3> QED BY <3>1, <3>2
  <2>3. /\ inputs' = inputs \cup {j} /\ sends' = sends /\ Fresh(j)
        /\ UNCHANGED <<storeVars, key, storage>>
    BY <1>10 DEF UploadInput
  <2>4. Knows(q)'
    BY <2>2, <2>3 DEF Knows, Drawn
  <2> QED BY <1>0, <2>2, <2>3, <2>4, OwnStep
<1>11. ASSUME NEW kind \in Kinds, NEW k \in Keys \cup {NoKey},
              NEW j \in Jobs \cup {NONE}, Send(r, kind, k, j)
       PROVE  RequestInv'
  <2>1. PICK at \in At : /\ request' = [request EXCEPT ![r] =
                              [kind |-> kind, key |-> k, job |-> j, at |-> at]]
                         /\ at = "lookup" => kind = "json"
                         /\ at \in {"insert", "lookup", "upload", "check"}
                         /\ at = "check" => j # NONE
                         /\ at = "insert" => kind # "multipart"
    <3>1. CASE kind = "json"
      BY <1>11, <3>1 DEF Send, At
    <3>2. CASE kind = "multipart"
      BY <1>11, <3>2 DEF Send, At
    <3>3. CASE kind = "init"
      BY <1>11, <3>3 DEF Send, At
    <3>4. CASE kind = "submit"
      BY <1>11, <3>4 DEF Send, At
    <3> QED BY <3>1, <3>2, <3>3, <3>4 DEF Kinds
  <2> DEFINE q == [kind |-> kind, key |-> k, job |-> j, at |-> at]
  <2>2. /\ q \in Request /\ q.at = at /\ q.kind = kind /\ q.job = j
    BY DEF Request
  <2>3. request' = [request EXCEPT ![r] = q]
    BY <2>1
  <2> HIDE DEF q
  <2>4. /\ inputs' = inputs /\ sends' \in 0..MaxSends
        /\ UNCHANGED <<storeVars, key, storage>>
    BY <1>0, <1>11 DEF Send
  <2>5. Knows(q)' /\ ~Drawn(q)
    BY <2>1, <2>2 DEF Knows, Drawn
  <2> QED BY <1>0, <2>2, <2>3, <2>4, <2>5, OwnStep
<1> QED BY <1>4, <1>5, <1>6, <1>7, <1>8, <1>9, <1>10, <1>11

(* What the two transactions that insert a row do.                         *)
LEMMA InsertedRow ==
  ASSUME StoreInv, NEW j \in Jobs, NEW m \in MaxAttemptsInputs,
         CreateJob(j, m) \/ CreateAndDispatch(j, m)
  PROVE  /\ [StoreNext]_storeVars
         /\ jobs[j].status = "ABSENT"
         /\ \A i \in Jobs \ {j} : jobs'[i] = jobs[i]
         /\ jobs'[j].status # "ABSENT"
         /\ CreateJob(j, m) => jobs'[j].status = "NEW"
<1>1. jobs \in [Jobs -> JobRow]
  BY DEF StoreInv, StoreTypeOK
<1>2. /\ NewRow("NEW", m).status = "NEW"
      /\ NewRow("DISPATCHED", m).status = "DISPATCHED"
  BY StoreAssumption, NewRowFields DEF JobStatus
<1>3. [StoreNext]_storeVars
  BY DEF StoreNext, JobStep, CreateStep
<1> QED BY <1>1, <1>2, <1>3 DEF CreateJob, CreateAndDispatch

(* Every step keeps the invariant.                                         *)
LEMMA RequestNext == RequestInv /\ [Next]_vars => RequestInv'
<1> SUFFICES ASSUME RequestInv, [Next]_vars PROVE RequestInv'
  OBVIOUS
<1>0. StoreInv /\ jobs \in [Jobs -> JobRow] /\ inputs \subseteq Jobs
  BY DEF RequestInv, RequestTypes, StoreInv, StoreTypeOK
<1>1. ASSUME NEW r \in Requests, NEW j \in Jobs, NEW m \in MaxAttemptsInputs,
             createJob(r, j, m)
      PROVE  RequestInv'
  <2> DEFINE k == request[r].key
  <2>1. /\ CreateAndDispatch(j, m) /\ Inserted(r, j, k, "local") /\ Fresh(j)
        /\ ~KeyTaken(k) /\ UNCHANGED <<inputs, sends>>
        /\ request[r].at = "insert" /\ k \in Keys \cup {NoKey}
    BY <1>1 DEF createJob, RequestInv, RequestTypes, Request
  <2>2. PICK kk \in Keys \cup {NoKey} : kk = k
    BY <2>1
  <2>3. Inserted(r, j, kk, "local") /\ ~KeyTaken(kk)
    BY <2>1, <2>2
  <2> QED BY <1>0, <2>1, <2>2, <2>3, InsertedRow, InsertStep
<1>2. ASSUME NEW r \in Requests, NEW m \in MaxAttemptsInputs,
             createJobFromUpload(r, m)
      PROVE  RequestInv'
  <2>1. /\ Drawn(request[r]) /\ request[r].at = "insert"
        /\ request[r].kind # "json" /\ UNCHANGED <<inputs, sends>>
    BY <1>2 DEF createJobFromUpload, Drawn
  <2>2. request[r].job \in inputs
    BY <2>1 DEF RequestInv, Knows
  <2>3. PICK j \in Jobs : j = request[r].job
    BY <1>0, <2>2
  <2>4. CreateAndDispatch(j, m) /\ Inserted(r, j, NoKey, "r2")
    BY <1>2, <2>3 DEF createJobFromUpload
  <2>5. ~KeyTaken(NoKey)
    BY DEF KeyTaken, WithKey
  <2> QED BY <1>0, <2>1, <2>2, <2>3, <2>4, <2>5, InsertedRow, InsertStep
<1>3. ASSUME NEW r \in Requests, NEW j \in Jobs, NEW m \in MaxAttemptsInputs,
             initR2Job(r, j, m)
      PROVE  RequestInv'
  <2>1. /\ CreateJob(j, m) /\ Inserted(r, j, NoKey, "r2") /\ Fresh(j)
        /\ UNCHANGED <<inputs, sends>> /\ request[r].kind # "json"
        /\ request[r].at = "insert"
    BY <1>3 DEF initR2Job
  <2>2. ~KeyTaken(NoKey)
    BY DEF KeyTaken, WithKey
  <2> QED BY <1>0, <2>1, <2>2, InsertedRow, InsertStep
<1>4. ASSUME NEW r \in Requests, submitR2Job(r)
      PROVE  RequestInv'
  <2>1. request[r].job \in inputs /\ request[r].job \in Jobs
    BY <1>0, <1>4 DEF submitR2Job, RequestInv, Knows
  <2>2. PICK j \in Jobs : j = request[r].job
    BY <2>1
  <2>3. QueueJob(j)
    BY <1>4, <2>2 DEF submitR2Job
  <2>4. [StoreNext]_storeVars
    BY <2>3 DEF StoreNext, JobStep, CreateStep
  <2>5. jobs[j].status = "NEW" /\ jobs'[j].status = "DISPATCHED"
        /\ \A i \in Jobs \ {j} : jobs'[i] = jobs[i]
    <3>1. [jobs[j] EXCEPT !.status = "DISPATCHED"].status = "DISPATCHED"
      BY <1>0, EditedFields
    <3> QED BY <1>0, <2>3, <3>1 DEF QueueJob
  <2>6. request' = [request EXCEPT ![r] = Idle]
        /\ UNCHANGED <<key, storage, inputs, sends>>
    BY <1>4 DEF submitR2Job, End
  <2>7. \A i \in Jobs :
          /\ jobs'[i].status = "ABSENT" <=> jobs[i].status = "ABSENT"
          /\ jobs[i].status = "NEW" => jobs'[i].status = "NEW" \/ i \in inputs
    BY <2>1, <2>2, <2>5
  <2> QED BY <2>4, <2>6, <2>7, TableOnlyStep
<1>5. CASE (TableStep \/ \E j \in Jobs : ServeStep(j)) /\ UNCHANGED requestVars
  <2>1. [StoreNext]_storeVars
    BY <1>5 DEF StoreNext, JobStep
  <2>2. \A i \in Jobs :
          /\ jobs'[i].status = "ABSENT" <=> jobs[i].status = "ABSENT"
          /\ jobs[i].status = "NEW" => jobs'[i].status = "NEW"
    BY <1>0, <1>5, ServedJobs
  <2> QED BY <1>5, <2>1, <2>2, TableOnlyStep DEF requestVars
<1>6. CASE UNCHANGED vars
  <2>1. [StoreNext]_storeVars
    BY <1>6 DEF vars
  <2>2. UNCHANGED <<key, storage, inputs, sends, request, jobs>>
    BY <1>6 DEF vars, requestVars, storeVars
  <2> QED BY <2>1, <2>2, TableOnlyStep
<1> QED BY <1>1, <1>2, <1>3, <1>4, <1>5, <1>6, HandlerSteps
        DEF Next, RequestStep

(* A handler changes the tables by one transaction of the store, on a job  *)
(* that there is: ids that requests carry come from uuid.New(), from a row *)
(* or from the client, who has it from an answer.                          *)
LEMMA RequestStoreStep == RequestInv /\ [Next]_vars => [StoreNext]_storeVars
<1> SUFFICES ASSUME RequestInv, [Next]_vars PROVE [StoreNext]_storeVars
  OBVIOUS
<1>0. inputs \subseteq Jobs
  BY DEF RequestInv, RequestTypes
<1>1. ASSUME NEW j \in Jobs, NEW m \in MaxAttemptsInputs,
             CreateJob(j, m) \/ CreateAndDispatch(j, m)
      PROVE  StoreNext
  BY <1>1 DEF StoreNext, JobStep, CreateStep
<1>2. ASSUME NEW r \in Requests, NEW m \in MaxAttemptsInputs,
             createJobFromUpload(r, m)
      PROVE  StoreNext
  <2>1. request[r].job \in inputs
    BY <1>2 DEF createJobFromUpload, RequestInv, Knows, Drawn
  <2>2. PICK j \in Jobs : j = request[r].job
    BY <1>0, <2>1
  <2>3. CreateAndDispatch(j, m)
    BY <1>2, <2>2 DEF createJobFromUpload
  <2> QED BY <1>1, <2>3
<1>3. ASSUME NEW r \in Requests, submitR2Job(r)
      PROVE  StoreNext
  <2>1. request[r].job \in inputs
    BY <1>3 DEF submitR2Job, RequestInv, Knows
  <2>2. PICK j \in Jobs : j = request[r].job
    BY <1>0, <2>1
  <2>3. QueueJob(j)
    BY <1>3, <2>2 DEF submitR2Job
  <2> QED BY <2>3 DEF StoreNext, JobStep, CreateStep
<1>4. ASSUME NEW r \in Requests, NEW j \in Jobs, NEW m \in MaxAttemptsInputs,
             createJob(r, j, m) \/ initR2Job(r, j, m)
      PROVE  StoreNext
  BY <1>1, <1>4 DEF createJob, initR2Job
<1>5. ASSUME NEW r \in Requests,
             \/ Fails(r) \/ Lookup(r) \/ Answer(r) \/ PutInput(r)
             \/ SubmitCheck(r) \/ SubmitExists(r)
             \/ \E j \in Jobs : UploadInput(r, j)
             \/ \E kind \in Kinds, k \in Keys \cup {NoKey},
                   j \in Jobs \cup {NONE} : Send(r, kind, k, j)
      PROVE  UNCHANGED storeVars
  BY <1>5 DEF Fails, Lookup, Answer, PutInput, SubmitCheck, SubmitExists,
              UploadInput, Send
<1>6. CASE TableStep \/ \E j \in Jobs : ServeStep(j)
  BY <1>6 DEF StoreNext, JobStep
<1>7. CASE UNCHANGED vars
  BY <1>7 DEF vars
<1> QED BY <1>2, <1>3, <1>4, <1>5, <1>6, <1>7 DEF Next, RequestStep

(* In every behaviour of the handlers and the tables.                      *)
THEOREM RequestsCorrect == Spec => []RequestInv
BY RequestInit, RequestNext, PTL DEF Spec

(* However requests overlap, fail or are repeated, the tables only see     *)
(* what the store allows: every theorem about JobStore holds of them.      *)
THEOREM RequestsUseTheStore == Spec => StoreSpec
<1>1. Init => StoreInit
  BY DEF Init
<1> QED BY <1>1, RequestStoreStep, RequestsCorrect, PTL DEF Spec, StoreSpec

(* Rows and requests keep their types, and an id drawn for an upload is    *)
(* nobody else's.                                                          *)
THEOREM RequestsTypeCorrect == Spec => []RequestsTypeOK
BY RequestInvImplies, RequestsCorrect, PTL

(* createJob looks for the idempotency key before it inserts; concurrent   *)
(* and repeated requests still get one job for a key, and all get that one *)
THEOREM KeyNamesOneJob == Spec => []OneJobPerKey
BY RequestInvImplies, RequestsCorrect, PTL

(* submitR2Job checks the object, the row and the status in separate       *)
(* steps, and createJobFromUpload uploads before it inserts: an R2 job is  *)
(* never dispatched without its input.                                     *)
THEOREM DispatchedJobsHaveInput == Spec => []DispatchedHasInput
BY RequestInvImplies, RequestsCorrect, PTL
=============================================================================
