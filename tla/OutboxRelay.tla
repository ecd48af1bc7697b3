---------------------------- MODULE OutboxRelay -----------------------------
(***************************************************************************)
(* The outbox relay in detail (internal/outbox, the outbox queries of      *)
(* internal/store, Rabbit.Publish): schedulers that each run Relay.Tick    *)
(* over one job_outbox table.  Platform takes the relay for one process    *)
(* that publishes rows and commits their marks; this module adds what that *)
(* hides: batches, row locks with SKIP LOCKED, several schedulers, and     *)
(* publishes that fail or vanish.                                          *)
(*                                                                         *)
(* A row is its id; its job, target and attempt are never changed.  A tick *)
(* is one transaction: it locks up to Batch unpublished rows that nobody   *)
(* has locked, publishes them in order, marks each, and commits.           *)
(***************************************************************************)
EXTENDS Integers, FiniteSets

CONSTANTS Relays,      \* schedulers
          NONE,        \* no lock holder
          MaxRows,     \* bound: rows inserted
          Batch,       \* LIMIT of the claim query
          FaultKinds,  \* which faults may happen
          MaxFaults    \* bound: how many faults may happen in all

ASSUME RelayAssumption ==
  /\ NONE \notin Relays
  /\ MaxRows \in Nat /\ Batch \in Nat \ {0} /\ MaxFaults \in Nat
  /\ FaultKinds \subseteq {"crash", "channelLost", "publishLost"}

VARIABLES
  row,      \* published_at of each row: "absent", "unpublished", "published"
  failure,  \* rows whose publish_error is set
  lock,     \* the relay whose transaction locks the row
  pc,       \* "idle", "publishing", or "blocked" on a row lock
  batch,    \* rows of the tick that are still to be published
  marked,   \* rows the open transaction has marked
  channel,  \* the relay's AMQP channel is open
  accepted, \* messages of each row that the broker has accepted
  refused,  \* history: rows for which Publish has returned an error
  faults    \* faults so far

vars == <<row, failure, lock, pc, batch, marked, channel, accepted, refused,
          faults>>

Rows == 1..MaxRows

Init ==
  /\ row = [i \in Rows |-> "absent"]
  /\ failure = {} /\ refused = {}
  /\ lock = [i \in Rows |-> NONE]
  /\ pc = [r \in Relays |-> "idle"]
  /\ batch = [r \in Relays |-> {}]
  /\ marked = [r \in Relays |-> {}]
  /\ channel = [r \in Relays |-> TRUE]
  /\ accepted = [i \in Rows |-> 0]
  /\ faults = 0

Fault(kind) ==
  /\ kind \in FaultKinds
  /\ faults < MaxFaults
  /\ faults' = faults + 1

(* A store transaction commits a new dispatch.                             *)
InsertOutbox(i) ==
  /\ row[i] = "absent"
  /\ \A k \in 1..(i - 1) : row[k] # "absent"
  /\ row' = [row EXCEPT ![i] = "unpublished"]
  /\ UNCHANGED <<failure, lock, pc, batch, marked, channel, accepted, refused,
                 faults>>

(* ORDER BY created_at, id LIMIT Batch FOR UPDATE SKIP LOCKED              *)
Claimable_LocksIgnored == {i \in Rows : row[i] = "unpublished"}

Claimable == {i \in Rows : row[i] = "unpublished" /\ lock[i] = NONE}

Oldest(S) == {i \in S : Cardinality({k \in S : k < i}) < Batch}

ClaimOutboxBatch(r) ==
  /\ pc[r] = "idle"
  /\ Claimable # {}
  /\ batch' = [batch EXCEPT ![r] = Oldest(Claimable)]
  /\ lock' = [i \in Rows |-> IF i \in Oldest(Claimable) THEN r ELSE lock[i]]
  /\ pc' = [pc EXCEPT ![r] = "publishing"]
  /\ UNCHANGED <<row, failure, marked, channel, accepted, refused, faults>>

(* Row i is the next one that the tick publishes.                          *)
Publishing(r, i) ==
  /\ pc[r] = "publishing"
  /\ i \in batch[r] /\ \A k \in batch[r] : i <= k

(* Publish returned nil: MarkOutboxPublishedTx in the open transaction.    *)
MarkAndAdvance(r, i) ==
  /\ marked' = [marked EXCEPT ![r] = @ \cup {i}]
  /\ batch' = [batch EXCEPT ![r] = @ \ {i}]
  /\ UNCHANGED <<row, failure, lock, pc, refused>>

PublishOK(r, i) ==
  /\ Publishing(r, i) /\ channel[r]
  /\ accepted' = [accepted EXCEPT ![i] = @ + 1]
  /\ MarkAndAdvance(r, i)
  /\ UNCHANGED <<channel, faults>>

(* The channel is not in confirm mode: Publish returns as soon as the      *)
(* frames are written, and the connection may die under them.  The relay   *)
(* notices at once, or only later (ChannelLost).                           *)
PublishLost(r, i) ==
  /\ Publishing(r, i) /\ channel[r]
  /\ Fault("publishLost")
  /\ \E open \in BOOLEAN : channel' = [channel EXCEPT ![r] = open]
  /\ MarkAndAdvance(r, i)
  /\ UNCHANGED accepted

(* MarkOutboxPublishError runs on another connection than the transaction, *)
(* with no timeout: as long as any transaction locks the row it waits.     *)
RowLocked(i) == lock[i] # NONE

PublishError_Marks(r, i) ==
  /\ Publishing(r, i) /\ ~channel[r]
  /\ refused' = refused \cup {i}
  /\ marked' = [marked EXCEPT ![r] = @ \cup {i}]
  /\ batch' = [batch EXCEPT ![r] = @ \ {i}]
  /\ UNCHANGED <<row, failure, lock, pc, channel, accepted, faults>>

PublishError(r, i) ==
  /\ Publishing(r, i) /\ ~channel[r]
  /\ refused' = refused \cup {i}
  /\ IF RowLocked(i)
     THEN /\ pc' = [pc EXCEPT ![r] = "blocked"]
          /\ UNCHANGED <<failure, batch>>
     ELSE /\ failure' = failure \cup {i}
          /\ batch' = [batch EXCEPT ![r] = @ \ {i}]
          /\ UNCHANGED pc
  /\ UNCHANGED <<row, lock, marked, channel, accepted, faults>>

(* The end of a transaction of r: its locks are released.                  *)
EndTx_KeepsMarks(r) ==
  /\ lock' = [i \in Rows |-> IF lock[i] = r THEN NONE ELSE lock[i]]
  /\ batch' = [batch EXCEPT ![r] = {}]
  /\ pc' = [pc EXCEPT ![r] = "idle"]
  /\ UNCHANGED marked

EndTx_KeepsLocks(r) ==
  /\ marked' = [marked EXCEPT ![r] = {}]
  /\ batch' = [batch EXCEPT ![r] = {}]
  /\ pc' = [pc EXCEPT ![r] = "idle"]
  /\ UNCHANGED lock

EndTx(r) ==
  /\ lock' = [i \in Rows |-> IF lock[i] = r THEN NONE ELSE lock[i]]
  /\ marked' = [marked EXCEPT ![r] = {}]
  /\ batch' = [batch EXCEPT ![r] = {}]
  /\ pc' = [pc EXCEPT ![r] = "idle"]

Commit(r) ==
  /\ pc[r] = "publishing" /\ batch[r] = {}
  /\ row' = [i \in Rows |-> IF i \in marked[r] THEN "published" ELSE row[i]]
  /\ failure' = failure \ marked[r]
  /\ EndTx(r)
  /\ UNCHANGED <<channel, accepted, refused, faults>>

ChannelLost(r) ==
  /\ channel[r]
  /\ Fault("channelLost")
  /\ channel' = [channel EXCEPT ![r] = FALSE]
  /\ UNCHANGED <<row, failure, lock, pc, batch, marked, accepted, refused>>

(* The scheduler dies and is started again: the transaction is rolled      *)
(* back and a new process connects.  A closed channel is never reopened    *)
(* otherwise.                                                              *)
Crash(r) ==
  /\ Fault("crash")
  /\ EndTx(r)
  /\ channel' = [channel EXCEPT ![r] = TRUE]
  /\ UNCHANGED <<row, failure, accepted, refused>>

RelayStep(r) ==
  \/ ClaimOutboxBatch(r) \/ Commit(r)
  \/ \E i \in Rows : PublishOK(r, i) \/ PublishError(r, i)

Next ==
  \/ \E i \in Rows : InsertOutbox(i)
  \/ \E r \in Relays : \/ RelayStep(r) \/ ChannelLost(r) \/ Crash(r)
                       \/ \E i \in Rows : PublishLost(r, i)

Spec == Init /\ [][Next]_vars

(* Every relay ticks; nothing forces rows to come or faults to happen.     *)
FairSpec == Spec /\ \A r \in Relays : WF_vars(RelayStep(r))

(***************************************************************************)
(* Properties                                                              *)
(***************************************************************************)

(* Every variable of the relay model has its type, and a relay between two *)
(* ticks holds neither locks nor marks.                                    *)
RelayTypeOK ==
  /\ row \in [Rows -> {"absent", "unpublished", "published"}]
  /\ failure \subseteq Rows /\ refused \subseteq Rows
  /\ lock \in [Rows -> Relays \cup {NONE}]
  /\ pc \in [Relays -> {"idle", "publishing", "blocked"}]
  /\ batch \in [Relays -> SUBSET Rows] /\ marked \in [Relays -> SUBSET Rows]
  /\ channel \in [Relays -> BOOLEAN]
  /\ accepted \in [Rows -> Nat] /\ faults \in Nat
  /\ \A r \in Relays : pc[r] = "idle" =>
       /\ batch[r] = {} /\ marked[r] = {}
       /\ \A i \in Rows : lock[i] # r

(* Two relays never work on the same row, although both query the table    *)
(* for unpublished rows at any time: what a tick has still to publish or   *)
(* has marked is locked by its own transaction and not yet published.      *)
BatchesAreExclusive ==
  \A r \in Relays : \A i \in batch[r] \cup marked[r] :
    lock[i] = r /\ row[i] = "unpublished"

(* A row is published without the broker having its message only when the  *)
(* connection died under a publish that had returned nil, one row for each *)
(* such death.  With publisher confirms, which the comment of Publish      *)
(* claims, there would be no such row.                                     *)
Unaccepted == {i \in Rows : row[i] = "published" /\ accepted[i] = 0}

UnacceptedOnlyByFaults == Cardinality(Unaccepted) <= faults

(* A message is sent twice only because a transaction that had published   *)
(* it was lost: two healthy relays never duplicate.                        *)
DuplicatesOnlyByFaults == \A i \in Rows : accepted[i] <= 1 + faults

Dispatches == INSTANCE Outbox WITH
  inserted  <- {i \in Rows : row[i] # "absent"},
  published <- {i \in Rows : row[i] = "published"},
  taken     <- UNION {marked[r] : r \in Relays}

(* However many relays tick, lose their channel and die, a message is sent *)
(* only for a committed row that is not published and that no other open   *)
(* transaction has sent; a row is published only by the transaction that   *)
(* sent its message, and stays published.                                  *)
ImplementsOutbox == Dispatches!Spec

(* Every row is published in the end, unless it is locked by a relay that  *)
(* waits for itself (see PublishError), or no other relay is left: one     *)
(* relay that lost its channel does not stop the others.                   *)
HeldUp(i) ==
  \/ \E r \in Relays : pc[r] = "blocked" /\ lock[i] = r
  \/ \A r \in Relays : pc[r] = "blocked"

EveryRowPublished ==
  \A i \in Rows : row[i] = "unpublished" ~> row[i] = "published" \/ HeldUp(i)

(* The error of a failed publish is recorded in its row (or the row is     *)
(* published by a later tick).                                             *)
PublishErrorRecorded ==
  \A i \in Rows : i \in refused ~> i \in failure \/ row[i] = "published"
=============================================================================
