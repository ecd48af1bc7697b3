----------------------------- MODULE JobRequests -----------------------------
(***************************************************************************)
(* The HTTP handlers by which clients create jobs: POST /jobs with a JSON  *)
(* body (createJob) or with the input file (createJobFromUpload), POST     *)
(* /jobs/init (initR2Job) and POST /jobs/{id}/submit (submitR2Job).        *)
(*                                                                         *)
(* A handler is a sequence of calls to the database and to object storage, *)
(* each a step of its own: between the look at the idempotency key, the    *)
(* status or the input object and the transaction that relies on it other  *)
(* requests run.  Any step may fail, and the answer may be lost after the  *)
(* job was created; the client may then send the request again.            *)
(*                                                                         *)
(* JobStore has the transactions and everything that happens to a job      *)
(* later; its most general workers run beside the requests.                *)
(***************************************************************************)
EXTENDS JobStore

CONSTANTS Requests,  \* requests being served at the same time
          Keys,      \* values of the Idempotency-Key header
          NoKey,     \* the header is absent
          MaxSends   \* bound on requests and retries

ASSUME RequestAssumption ==
  /\ NoKey \notin Keys /\ MaxSends \in Nat
  /\ NONE \notin Jobs /\ NONE \notin {"local", "r2"}

VARIABLES
  request, \* per request: where its handler is
  key,     \* jobs.idempotency_key
  storage, \* jobs.storage
  inputs,  \* the jobs whose input object is in object storage
  sends    \* requests sent so far

requestVars == <<request, key, storage, inputs, sends>>
vars == <<storeVars, requestVars>>

Kinds == {"json", "multipart", "init", "submit"}

(* The handler's next call; or the client has an answer it makes use of;   *)
(* or it has none, or needs it no longer.                                  *)
At == {"lookup", "insert", "upload", "reply", "check", "exists", "queue",
       "answered", "idle"}

Request == [at : At, kind : Kinds, key : Keys \cup {NoKey},
            job : Jobs \cup {NONE}]

Idle == [at |-> "idle", kind |-> "json", key |-> NoKey, job |-> NONE]

Ended == {"answered", "idle"}

Init ==
  /\ StoreInit
  /\ request = [r \in Requests |-> Idle]
  /\ key = [j \in Jobs |-> NoKey]
  /\ storage = [j \in Jobs |-> NONE]
  /\ inputs = {} /\ sends = 0

Goto(r, at) == request' = [request EXCEPT ![r].at = at]

End(r) == request' = [request EXCEPT ![r] = Idle]

GotoWith(r, at, j) == request' = [request EXCEPT ![r].at = at, ![r].job = j]

Fresh_IgnoresUploads(j) == jobs[j].status = "ABSENT"

(* An id from uuid.New(): in no row, and in the hands of no other request. *)
Fresh(j) ==
  /\ jobs[j].status = "ABSENT" /\ j \notin inputs
  /\ \A r \in Requests : request[r].job # j

(***************************************************************************)
(* Requests                                                                *)
(***************************************************************************)

(* A request, or a retry of one.  Only createJob reads the header, so a    *)
(* key sent with another request is as good as none.                       *)
Send(r, kind, k, j) ==
  /\ request[r].at \in Ended /\ sends < MaxSends
  /\ kind = "json" \/ k = NoKey
  /\ (kind = "submit") = (j # NONE)
  /\ kind = "submit" => jobs[j].status # "ABSENT"
  /\ request' = [request EXCEPT ![r] =
       [kind |-> kind, key |-> k, job |-> j,
        at |-> CASE kind = "json" -> IF k = NoKey THEN "insert" ELSE "lookup"
                 [] kind = "multipart" -> "upload"
                 [] kind = "init" -> "insert"
                 [] kind = "submit" -> "check"]]
  /\ sends' = sends + 1
  /\ UNCHANGED <<storeVars, key, storage, inputs>>

(* The handler fails with 500, the scheduler dies, or the answer is lost.  *)
Fails(r) ==
  /\ request[r].at \notin Ended
  /\ End(r)
  /\ UNCHANGED <<storeVars, key, storage, inputs, sends>>

(* GetJobByIdempotencyKey: the job of an earlier request is the answer.    *)
WithKey(k) == {j \in Jobs : key[j] = k /\ k # NoKey}

Lookup(r) ==
  /\ request[r].at = "lookup"
  /\ IF WithKey(request[r].key) = {} THEN Goto(r, "insert")
     ELSE \E j \in WithKey(request[r].key) : GotoWith(r, "answered", j)
  /\ UNCHANGED <<storeVars, key, storage, inputs, sends>>

(* The unique index idx_jobs_idempotency_key refuses a second row.         *)
KeyTaken_NoIndex(k) == FALSE

KeyTaken(k) == WithKey(k) # {}

Inserted(r, j, k, mode) ==
  /\ key' = [key EXCEPT ![j] = k]
  /\ storage' = [storage EXCEPT ![j] = mode]
  /\ GotoWith(r, "reply", j)

createJob(r, j, m) ==
  /\ request[r].at = "insert" /\ request[r].kind = "json"
  /\ ~KeyTaken(request[r].key)
  /\ Fresh(j) /\ CreateAndDispatch(j, m)
  /\ Inserted(r, j, request[r].key, "local")
  /\ UNCHANGED <<inputs, sends>>

(* The file is uploaded under the new id before there is a row, and stays  *)
(* in object storage if the insert fails.                                  *)
UploadInput_InsertFirst(r, j) ==
  /\ request[r].at = "upload"
  /\ Fresh(j) /\ GotoWith(r, "insert", j)
  /\ UNCHANGED <<storeVars, key, storage, inputs, sends>>

UploadInput(r, j) ==
  /\ request[r].at = "upload"
  /\ Fresh(j) /\ GotoWith(r, "insert", j)
  /\ inputs' = inputs \cup {j}
  /\ UNCHANGED <<storeVars, key, storage, sends>>

(* No idempotency key, and a max_attempts below 1 is refused.              *)
createJobFromUpload(r, m) ==
  /\ request[r].at = "insert" /\ request[r].kind = "multipart"
  /\ m >= 1 /\ CreateAndDispatch(request[r].job, m)
  /\ Inserted(r, request[r].job, NoKey, "r2")
  /\ UNCHANGED <<inputs, sends>>

initR2Job(r, j, m) ==
  /\ request[r].at = "insert" /\ request[r].kind = "init"
  /\ Fresh(j) /\ CreateJob(j, m)
  /\ Inserted(r, j, NoKey, "r2")
  /\ UNCHANGED <<inputs, sends>>

(* The answer arrives; createJob and createJobFromUpload read the row      *)
(* again first.  The client makes use of the upload URL of an init, and of *)
(* the id that a key stands for.                                           *)
Answer(r) ==
  /\ request[r].at = "reply"
  /\ IF request[r].kind = "init" \/ request[r].key # NoKey
     THEN Goto(r, "answered") ELSE End(r)
  /\ UNCHANGED <<storeVars, key, storage, inputs, sends>>

(* The client uses the upload URL it was given, at any time.               *)
PutInput(r) ==
  /\ request[r].at = "answered" /\ request[r].kind = "init"
  /\ inputs' = inputs \cup {request[r].job}
  /\ UNCHANGED <<storeVars, request, key, storage, sends>>

(* submitR2Job: GetJob, Exists, QueueJob.  400 and 409 end the request.    *)
SubmitCheck(r) ==
  /\ request[r].at = "check"
  /\ LET j == request[r].job
     IN IF storage[j] = "r2" /\ jobs[j].status = "NEW"
        THEN Goto(r, "exists") ELSE End(r)
  /\ UNCHANGED <<storeVars, key, storage, inputs, sends>>

SubmitExists_Unchecked(r) ==
  /\ request[r].at = "exists"
  /\ Goto(r, "queue")
  /\ UNCHANGED <<storeVars, key, storage, inputs, sends>>

SubmitExists(r) ==
  /\ request[r].at = "exists"
  /\ IF request[r].job \in inputs THEN Goto(r, "queue") ELSE End(r)
  /\ UNCHANGED <<storeVars, key, storage, inputs, sends>>

submitR2Job(r) ==
  /\ request[r].at = "queue"
  /\ QueueJob(request[r].job)
  /\ End(r)
  /\ UNCHANGED <<key, storage, inputs, sends>>

RequestStep(r) ==
  \/ Fails(r) \/ Lookup(r) \/ Answer(r) \/ PutInput(r)
  \/ SubmitCheck(r) \/ SubmitExists(r) \/ submitR2Job(r)
  \/ \E kind \in Kinds, k \in Keys \cup {NoKey}, j \in Jobs \cup {NONE} :
       Send(r, kind, k, j)
  \/ \E m \in MaxAttemptsInputs :
       \/ createJobFromUpload(r, m)
       \/ \E j \in Jobs : createJob(r, j, m) \/ initR2Job(r, j, m)
  \/ \E j \in Jobs : UploadInput(r, j)

Next ==
  \/ \E r \in Requests : RequestStep(r)
  \/ (TableStep \/ \E j \in Jobs : ServeStep(j)) /\ UNCHANGED requestVars

Spec == Init /\ [][Next]_vars

(***************************************************************************)
(* Properties                                                              *)
(***************************************************************************)

(* Every row and every request has its fields, and an id that a handler    *)
(* has drawn for an upload is nobody else's.                               *)
RequestsTypeOK ==
  /\ StoreTypeOK
  /\ request \in [Requests -> Request]
  /\ key \in [Jobs -> Keys \cup {NoKey}]
  /\ storage \in [Jobs -> {NONE, "local", "r2"}]
  /\ inputs \subseteq Jobs /\ sends \in 0..MaxSends
  /\ \A j \in Jobs : storage[j] = NONE <=> jobs[j].status = "ABSENT"
  /\ \A r \in Requests :
       (request[r].kind = "multipart" /\ request[r].at = "insert")
         => jobs[request[r].job].status = "ABSENT"

(* An idempotency key names one job, also when requests with that key run  *)
(* at the same time, fail after the insert or are sent again; and whoever  *)
(* got an answer to a createJob with the key got that job.                 *)
OneJobPerKey ==
  /\ \A i, j \in Jobs : key[i] = key[j] /\ key[i] # NoKey => i = j
  /\ \A r \in Requests :
       LET q == request[r]
       IN (q.at = "answered" /\ q.kind = "json" /\ q.key # NoKey)
            => key[q.job] = q.key

(* An R2 job that workers may claim has its input in object storage,       *)
(* although the handlers look at the object, at the row and at the status  *)
(* in separate steps.                                                      *)
DispatchedHasInput ==
  \A j \in Jobs :
    (storage[j] = "r2" /\ jobs[j].status # "NEW") => j \in inputs
=============================================================================
