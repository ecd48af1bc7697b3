------------------------------ MODULE Topology -------------------------------
(***************************************************************************)
(* Connecting to RabbitMQ and declaring its queues (internal/queue,        *)
(* rabbit.go; cmd/scheduler, cmd/worker).                                  *)
(*                                                                         *)
(* Every process declares the whole topology when it connects, one request *)
(* after another, while others do the same, die half-way, or the broker    *)
(* goes away.  What exists already is left as it is, except that the       *)
(* broker refuses jobs.retry with another delay than it has: schedulers    *)
(* take theirs from RABBITMQ_RETRY_DELAY_MS, workers have the default.     *)
(***************************************************************************)
EXTENDS Integers, Sequences

CONSTANTS Schedulers, WorkerProcs,
          Settings,     \* values of RABBITMQ_RETRY_DELAY_MS, 0 if not set
          DefaultDelay, \* 30000 in the code
          MaxOutages    \* bound: broker failures and dying processes

ASSUME TopologyAssumption ==
  /\ Schedulers \cap WorkerProcs = {}
  /\ Settings \subseteq Nat /\ DefaultDelay \in Nat \ {0}
  /\ MaxOutages \in Nat

Procs == Schedulers \cup WorkerProcs

VARIABLES
  setting,  \* per process: RetryDelayMillis of its configuration
  at,       \* per process: the request it makes next, or its connection
  declared, \* what the broker has; it is durable
  ttl,      \* x-message-ttl of jobs.retry, 0 if there is no such queue
  up,       \* the broker takes connections
  outages   \* outages so far

topologyVars == <<setting, at, declared, ttl, up, outages>>

(* The requests of declareTopologyOnce, in order.                          *)
Requests == <<"jobs.direct", "jobs.dlq", "bind.jobs.dlq",
              "jobs.main", "bind.jobs.main", "jobs.retry", "bind.jobs.retry">>

Topology == {Requests[i] : i \in DOMAIN Requests}

Index(r) == CHOOSE i \in DOMAIN Requests : Requests[i] = r

TopologyInit ==
  /\ setting \in [Procs -> Settings \cup {0}]
  /\ \A p \in WorkerProcs : setting[p] = 0
  /\ at = [p \in Procs |-> "down"]
  /\ declared = {} /\ ttl = 0 /\ up = TRUE /\ outages = 0

RetryDelay_Unset(p) == setting[p]

RetryDelay(p) == IF setting[p] <= 0 THEN DefaultDelay ELSE setting[p]

(* What comes after a request that was granted.                            *)
NextRequest_TrustsExisting(r) ==
  LET i == IF r \in {"jobs.dlq", "jobs.main", "jobs.retry"} \cap declared
           THEN Index(r) + 2 ELSE Index(r) + 1
  IN IF i > Len(Requests) THEN "connected" ELSE Requests[i]

NextRequest(r) ==
  IF Index(r) = Len(Requests) THEN "connected" ELSE Requests[Index(r) + 1]

(* An attempt of NewRabbitWithRetry that failed is followed by another; so *)
(* is the last one, since the process ends and is started again.           *)
AttemptFails(p) == at' = [at EXCEPT ![p] = "down"]

(***************************************************************************)
(* Processes                                                               *)
(***************************************************************************)

Dial(p) ==
  /\ at[p] = "down" /\ up
  /\ at' = [at EXCEPT ![p] = Requests[1]]
  /\ UNCHANGED <<setting, declared, ttl, up, outages>>

Refused(p) ==
  at[p] = "jobs.retry" /\ at[p] \in declared /\ ttl # RetryDelay(p)

Declare(p) ==
  /\ at[p] \in Topology /\ up /\ ~Refused(p)
  /\ declared' = declared \cup {at[p]}
  /\ ttl' = IF at[p] = "jobs.retry" THEN RetryDelay(p) ELSE ttl
  /\ at' = [at EXCEPT ![p] = NextRequest(at[p])]
  /\ UNCHANGED <<setting, up, outages>>

DeclareFails(p) ==
  /\ at[p] \in Topology /\ (Refused(p) \/ ~up)
  /\ AttemptFails(p)
  /\ UNCHANGED <<setting, declared, ttl, up, outages>>

(* The consumer of a worker ends with its channel, and the process with    *)
(* it.  A scheduler has no consumer: it goes on and never reconnects.      *)
ConsumerEnds_Ignored(p) == FALSE /\ UNCHANGED topologyVars

ConsumerEnds(p) ==
  /\ at[p] = "lost" /\ p \in WorkerProcs
  /\ at' = [at EXCEPT ![p] = "down"]
  /\ UNCHANGED <<setting, declared, ttl, up, outages>>

Connect(p) == Dial(p) \/ Declare(p) \/ DeclareFails(p)

(***************************************************************************)
(* Outages                                                                 *)
(***************************************************************************)

Outage == outages < MaxOutages /\ outages' = outages + 1

ProcessDies(p) ==
  /\ Outage
  /\ at' = [at EXCEPT ![p] = "down"]
  /\ UNCHANGED <<setting, declared, ttl, up>>

(* All connections are gone.  The queues are durable, unless the broker is *)
(* set up anew: its container has no volume.                               *)
BrokerStops ==
  /\ up /\ Outage
  /\ up' = FALSE
  /\ at' = [p \in Procs |-> IF at[p] = "connected" THEN "lost" ELSE at[p]]
  /\ \/ UNCHANGED <<declared, ttl>>
     \/ declared' = {} /\ ttl' = 0
  /\ UNCHANGED setting

(* By then, whoever was declaring has noticed.                             *)
BrokerStarts ==
  /\ ~up
  /\ \A p \in Procs : at[p] \notin Topology
  /\ up' = TRUE
  /\ UNCHANGED <<setting, at, declared, ttl, outages>>

(***************************************************************************)

TopologyNext ==
  \/ \E p \in Procs : Connect(p) \/ ConsumerEnds(p) \/ ProcessDies(p)
  \/ BrokerStops \/ BrokerStarts

TopologySpec == TopologyInit /\ [][TopologyNext]_topologyVars

(* Processes and the broker are started again (restart: unless-stopped).   *)
TopologyFairSpec ==
  /\ TopologySpec /\ WF_topologyVars(BrokerStarts)
  /\ \A p \in Procs : /\ WF_topologyVars(Connect(p))
                      /\ WF_topologyVars(ConsumerEnds(p))

(***************************************************************************)
(* Properties                                                              *)
(***************************************************************************)

(* The broker has a delay for jobs.retry exactly when it has the queue.    *)
TopologyTypeOK ==
  /\ setting \in [Procs -> Nat]
  /\ at \in [Procs -> Topology \cup {"down", "connected", "lost"}]
  /\ declared \subseteq Topology /\ ttl \in Nat /\ up \in BOOLEAN
  /\ ttl # 0 <=> "jobs.retry" \in declared

(* A process that is connected can rely on every queue and binding, also   *)
(* when others had begun to declare them and died, or the broker has lost  *)
(* them in between; and a retry waits as long as it was configured to.     *)
(* Publish is not mandatory: without a binding the message would vanish.   *)
ConnectedIsRouted ==
  \A p \in Procs : at[p] = "connected" =>
    declared = Topology /\ ttl = RetryDelay(p)

(* A process that is started connects in the end, unless another process   *)
(* has declared jobs.retry with another delay; a scheduler may also hold   *)
(* on to a connection that it has lost.                                    *)
EveryProcessConnects ==
  \A p \in Procs : at[p] # "connected" ~>
    \/ at[p] = "connected"
    \/ "jobs.retry" \in declared /\ ttl # RetryDelay(p)
    \/ p \in Schedulers /\ at[p] = "lost"
=============================================================================
