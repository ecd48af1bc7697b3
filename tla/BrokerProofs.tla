---------------------------- MODULE BrokerProofs -----------------------------
(***************************************************************************)
(* Proofs about the two modules that talk to RabbitMQ: OutboxRelay, for    *)
(* any number of relays, rows and faults and any batch size, and Topology, *)
(* for any number of processes and outages and any retry delays.           *)
(***************************************************************************)
EXTENDS OutboxRelay, Topology, FiniteSetTheorems, TLAPS

(* What a tick has published is no longer in its batch.                    *)
MarkedAreDone == \A r \in Relays : batch[r] \cap marked[r] = {}

IInv == RelayTypeOK /\ BatchesAreExclusive /\ MarkedAreDone

(***************************************************************************)
(* Locks, batches and marks                                                *)
(***************************************************************************)

(* Nothing is locked, taken or marked at first.                            *)
LEMMA InitInv == Init => IInv
<1> HAVE Init
<1>1. RelayTypeOK
  BY RelayAssumption DEF Init, RelayTypeOK
<1> QED BY <1>1 DEF Init, IInv, BatchesAreExclusive, MarkedAreDone

(* The end of a transaction leaves the other relays' rows alone, and none  *)
(* to its own.                                                             *)
LEMMA EndTxInv ==
  ASSUME IInv, NEW r \in Relays, EndTx(r)
  PROVE  /\ lock' \in [Rows -> Relays \cup {NONE}]
         /\ pc' \in [Relays -> {"idle", "publishing", "blocked"}]
         /\ batch' \in [Relays -> SUBSET Rows]
         /\ marked' \in [Relays -> SUBSET Rows]
         /\ batch'[r] = {} /\ marked'[r] = {} /\ pc'[r] = "idle"
         /\ \A i \in Rows : lock'[i] # r
         /\ \A q \in Relays \ {r} :
              /\ batch'[q] = batch[q] /\ marked'[q] = marked[q]
              /\ pc'[q] = pc[q]
              /\ \A i \in Rows : lock'[i] = q <=> lock[i] = q
<1> USE RelayAssumption DEF IInv, RelayTypeOK, EndTx
<1>1. lock' \in [Rows -> Relays \cup {NONE}] /\ \A i \in Rows : lock'[i] # r
  OBVIOUS
<1>2. \A q \in Relays \ {r} : \A i \in Rows : lock'[i] = q <=> lock[i] = q
  OBVIOUS
<1> QED BY <1>1, <1>2

(* A row that leaves a batch with a mark stays the relay's own.            *)
LEMMA AdvanceInv ==
  ASSUME IInv, NEW r \in Relays, NEW i \in Rows,
         Publishing(r, i), MarkAndAdvance(r, i),
         channel' \in [Relays -> BOOLEAN],
         accepted' \in [Rows -> Nat], faults' \in Nat
  PROVE  IInv'
<1> USE DEF IInv, RelayTypeOK, MarkAndAdvance, Publishing
<1>1. /\ marked' \in [Relays -> SUBSET Rows]
      /\ batch' \in [Relays -> SUBSET Rows]
  OBVIOUS
<1>2. \A q \in Relays : /\ q # r => /\ batch'[q] = batch[q]
                                    /\ marked'[q] = marked[q]
                        /\ batch'[r] = batch[r] \ {i}
                        /\ marked'[r] = marked[r] \cup {i}
  OBVIOUS
<1>3. RelayTypeOK'
  BY <1>1, <1>2
<1>4. BatchesAreExclusive'
  BY <1>2 DEF BatchesAreExclusive
<1>5. MarkedAreDone'
  BY <1>2 DEF MarkedAreDone
<1> QED BY <1>3, <1>4, <1>5

(* Every step keeps a row that is taken locked by its relay.               *)
LEMMA NextInv == IInv /\ [Next]_vars => IInv'
<1> SUFFICES ASSUME IInv, [Next]_vars PROVE IInv'
  OBVIOUS
<1> USE DEF IInv, RelayTypeOK
<1>1. ASSUME NEW i \in Rows, InsertOutbox(i)
      PROVE  IInv'
  BY <1>1 DEF InsertOutbox, BatchesAreExclusive, MarkedAreDone
<1>2. ASSUME NEW r \in Relays, ClaimOutboxBatch(r)
      PROVE  IInv'
  <2>1. Oldest(Claimable) \subseteq Claimable /\ Claimable \subseteq Rows
    BY DEF Oldest, Claimable
  <2>2. \A i \in Oldest(Claimable) :
          lock[i] = NONE /\ row[i] = "unpublished" /\ lock'[i] = r
    BY <1>2, <2>1 DEF ClaimOutboxBatch, Claimable
  <2>3. \A i \in Rows \ Oldest(Claimable) : lock'[i] = lock[i]
    BY <1>2 DEF ClaimOutboxBatch
  <2>4. RelayTypeOK'
    BY <1>2, <2>1, <2>2, <2>3, RelayAssumption DEF ClaimOutboxBatch
  <2>5. \A q \in Relays : /\ marked'[q] = marked[q]
                          /\ q # r => batch'[q] = batch[q]
                          /\ batch'[r] = Oldest(Claimable) /\ marked[r] = {}
    BY <1>2 DEF ClaimOutboxBatch
  <2>6. \A q \in Relays : \A i \in batch'[q] \cup marked'[q] :
          lock'[i] = q /\ row'[i] = "unpublished"
    <3> SUFFICES ASSUME NEW q \in Relays, NEW i \in batch'[q] \cup marked'[q]
                 PROVE  lock'[i] = q /\ row'[i] = "unpublished"
      OBVIOUS
    <3>1. CASE q = r
      BY <1>2, <2>2, <2>5, <3>1 DEF ClaimOutboxBatch
    <3>2. CASE q # r
      <4>1. lock[i] = q /\ row[i] = "unpublished" /\ i \in Rows
        BY <2>5, <3>2 DEF BatchesAreExclusive
      <4> QED BY <1>2, <2>2, <2>3, <4>1, RelayAssumption
              DEF ClaimOutboxBatch
    <3> QED BY <3>1, <3>2
  <2>7. MarkedAreDone'
    BY <2>5 DEF MarkedAreDone
  <2> QED BY <2>4, <2>6, <2>7 DEF BatchesAreExclusive
<1>3. ASSUME NEW r \in Relays, NEW i \in Rows, PublishOK(r, i)
      PROVE  IInv'
  BY <1>3, AdvanceInv DEF PublishOK
<1>4. ASSUME NEW r \in Relays, NEW i \in Rows, PublishLost(r, i)
      PROVE  IInv'
  BY <1>4, AdvanceInv DEF PublishLost, Fault
<1>5. ASSUME NEW r \in Relays, NEW i \in Rows, PublishError(r, i)
      PROVE  IInv'
  <2>1. lock[i] = r /\ RowLocked(i)
    BY <1>5, RelayAssumption
       DEF PublishError, Publishing, BatchesAreExclusive, RowLocked
  <2> QED BY <1>5, <2>1
          DEF PublishError, Publishing, BatchesAreExclusive, MarkedAreDone
<1>6. ASSUME NEW r \in Relays, Commit(r)
      PROVE  IInv'
  <2>1. \A q \in Relays \ {r} : \A i \in batch[q] \cup marked[q] :
          row'[i] = row[i] /\ i \in Rows
    BY <1>6 DEF Commit, BatchesAreExclusive
  <2>2. RelayTypeOK'
    BY <1>6, EndTxInv DEF Commit
  <2>3. BatchesAreExclusive'
    BY <1>6, <2>1, EndTxInv DEF Commit, BatchesAreExclusive
  <2>4. MarkedAreDone'
    BY <1>6, EndTxInv DEF Commit, MarkedAreDone
  <2> QED BY <2>2, <2>3, <2>4
<1>7. ASSUME NEW r \in Relays, ChannelLost(r)
      PROVE  IInv'
  BY <1>7 DEF ChannelLost, Fault, BatchesAreExclusive, MarkedAreDone
<1>8. ASSUME NEW r \in Relays, Crash(r)
      PROVE  IInv'
  <2>1. RelayTypeOK'
    BY <1>8, EndTxInv DEF Crash, Fault
  <2>2. BatchesAreExclusive'
    BY <1>8, EndTxInv DEF Crash, BatchesAreExclusive
  <2>3. MarkedAreDone'
    BY <1>8, EndTxInv DEF Crash, MarkedAreDone
  <2> QED BY <2>1, <2>2, <2>3
<1>9. CASE UNCHANGED vars
  BY <1>9 DEF vars, BatchesAreExclusive, MarkedAreDone
<1> QED BY <1>1, <1>2, <1>3, <1>4, <1>5, <1>6, <1>7, <1>8, <1>9
        DEF Next, RelayStep

(* The relay's tables and transactions are well formed, and a relay        *)
(* between two ticks holds nothing.                                        *)
THEOREM TypeCorrect == Spec => []RelayTypeOK
<1>1. IInv => RelayTypeOK
  BY DEF IInv
<1> QED BY InitInv, NextInv, <1>1, PTL DEF Spec

(* Relays that query one outbox at any time never work on the same row.    *)
THEOREM BatchesExclusive == Spec => []BatchesAreExclusive
<1>1. IInv => BatchesAreExclusive
  BY DEF IInv
<1> QED BY InitInv, NextInv, <1>1, PTL DEF Spec

(***************************************************************************)
(* What faults explain                                                     *)
(***************************************************************************)

(* The row is published, or will be when its transaction commits.          *)
Taken(i) == row[i] = "published" \/ \E r \in Relays : i \in marked[r]

(* A message more than there were faults is the one that the row's mark    *)
(* stands for.                                                             *)
Copies ==
  \A i \in Rows : /\ accepted[i] <= 1 + faults
                  /\ ~Taken(i) => accepted[i] <= faults

(* A row in a batch is not taken: its next message is not counted yet.     *)
LEMMA BatchNotTaken ==
  ASSUME IInv, NEW r \in Relays, NEW i \in Rows, i \in batch[r]
  PROVE  ~Taken(i) /\ row[i] = "unpublished"
<1>1. lock[i] = r /\ row[i] = "unpublished"
  BY DEF IInv, BatchesAreExclusive
<1>2. \A q \in Relays : i \notin marked[q]
  BY <1>1 DEF IInv, BatchesAreExclusive, MarkedAreDone
<1> QED BY <1>1, <1>2 DEF Taken

(* What happens to Taken when a publish is marked and when it commits.     *)
LEMMA AdvanceTaken ==
  ASSUME IInv, NEW r \in Relays, NEW i \in Rows, MarkAndAdvance(r, i)
  PROVE  \A k \in Rows : Taken(k)' <=> Taken(k) \/ k = i
BY DEF IInv, RelayTypeOK, MarkAndAdvance, Taken

LEMMA CommitTaken ==
  ASSUME IInv, NEW r \in Relays, Commit(r)
  PROVE  \A k \in Rows : Taken(k)' <=> Taken(k)
<1>1. \A k \in Rows : row'[k] = "published" <=> row[k] = "published"
                                                   \/ k \in marked[r]
  BY DEF Commit, IInv, RelayTypeOK
<1>2. marked'[r] = {} /\ \A q \in Relays \ {r} : marked'[q] = marked[q]
  BY EndTxInv DEF Commit
<1> QED BY <1>1, <1>2 DEF Taken

(* A transaction that is lost takes back its marks, and no others.         *)
LEMMA CrashTaken ==
  ASSUME IInv, NEW r \in Relays, Crash(r)
  PROVE  \A k \in Rows : Taken(k)' => Taken(k)
<1>1. marked'[r] = {} /\ \A q \in Relays \ {r} : marked'[q] = marked[q]
  BY EndTxInv DEF Crash
<1> QED BY <1>1 DEF Crash, Taken

(* Steps that touch neither rows nor marks.                                *)
LEMMA OthersTaken ==
  ASSUME row' = row, marked' = marked
  PROVE  \A k \in Rows : Taken(k)' <=> Taken(k)
BY DEF Taken

LEMMA InsertTaken ==
  ASSUME IInv, NEW i \in Rows, InsertOutbox(i)
  PROVE  \A k \in Rows : Taken(k)' <=> Taken(k)
BY DEF InsertOutbox, IInv, RelayTypeOK, Taken

(* No fault is forgotten, and every step but a publish and a lost          *)
(* transaction leaves Copies as it is.                                     *)
LEMMA NextCopies == IInv /\ Copies /\ [Next]_vars => Copies'
<1> SUFFICES ASSUME IInv, Copies, [Next]_vars PROVE Copies'
  OBVIOUS
<1> USE DEF Copies
<1>0. accepted \in [Rows -> Nat] /\ faults \in Nat
  BY DEF IInv, RelayTypeOK
<1>1. ASSUME NEW i \in Rows, InsertOutbox(i) PROVE Copies'
  BY <1>1, InsertTaken DEF InsertOutbox
<1>2. ASSUME NEW r \in Relays, ClaimOutboxBatch(r) PROVE Copies'
  BY <1>2, OthersTaken DEF ClaimOutboxBatch
<1>3. ASSUME NEW r \in Relays, NEW i \in Rows, PublishOK(r, i)
      PROVE  Copies'
  <2>1. ~Taken(i)
    BY <1>3, BatchNotTaken DEF PublishOK, Publishing
  <2>2. \A k \in Rows : Taken(k)' <=> Taken(k) \/ k = i
    BY <1>3, AdvanceTaken DEF PublishOK
  <2>3. /\ faults' = faults /\ accepted'[i] = accepted[i] + 1
        /\ \A k \in Rows \ {i} : accepted'[k] = accepted[k]
    BY <1>0, <1>3 DEF PublishOK
  <2> QED BY <1>0, <2>1, <2>2, <2>3
<1>4. ASSUME NEW r \in Relays, NEW i \in Rows, PublishLost(r, i)
      PROVE  Copies'
  <2>1. \A k \in Rows : Taken(k)' <=> Taken(k) \/ k = i
    BY <1>4, AdvanceTaken DEF PublishLost
  <2>2. accepted' = accepted /\ faults' = faults + 1
    BY <1>4 DEF PublishLost, Fault
  <2> QED BY <1>0, <2>1, <2>2
<1>5. ASSUME NEW r \in Relays, NEW i \in Rows, PublishError(r, i)
      PROVE  Copies'
  BY <1>5, OthersTaken DEF PublishError
<1>6. ASSUME NEW r \in Relays, Commit(r) PROVE Copies'
  BY <1>6, CommitTaken DEF Commit
<1>7. ASSUME NEW r \in Relays, ChannelLost(r) PROVE Copies'
  <2>1. accepted' = accepted /\ faults' = faults + 1
    BY <1>7 DEF ChannelLost, Fault
  <2> QED BY <1>0, <1>7, <2>1, OthersTaken DEF ChannelLost
<1>8. ASSUME NEW r \in Relays, Crash(r) PROVE Copies'
  <2>1. accepted' = accepted /\ faults' = faults + 1
    BY <1>8 DEF Crash, Fault
  <2> QED BY <1>0, <2>1
<1>9. CASE UNCHANGED vars
  BY <1>9, OthersTaken DEF vars
<1> QED BY <1>1, <1>2, <1>3, <1>4, <1>5, <1>6, <1>7, <1>8, <1>9
        DEF Next, RelayStep

(* The broker gets a second message for a row only after a fault, however  *)
(* many relays work on the outbox.                                         *)
THEOREM DuplicatesExplained == Spec => []DuplicatesOnlyByFaults
<1>1. Init => IInv /\ Copies
  BY InitInv DEF Init, Copies
<1>2. (IInv /\ Copies) /\ [Next]_vars => (IInv /\ Copies)'
  BY NextInv, NextCopies
<1>3. Copies => DuplicatesOnlyByFaults
  BY DEF Copies, DuplicatesOnlyByFaults
<1> QED BY <1>1, <1>2, <1>3, PTL DEF Spec

(* Rows that are taken although the broker has no message of them.         *)
Lost == {i \in Rows : Taken(i) /\ accepted[i] = 0}

LostIsFew == Cardinality(Lost) <= faults

(* Lost is a set of rows, and may grow with the number of faults only.     *)
LEMMA LostFinite == IsFiniteSet(Lost) /\ IsFiniteSet(Lost')
<1>1. IsFiniteSet(Rows)
  BY FS_Interval, RelayAssumption DEF Rows
<1>2. Lost \subseteq Rows /\ Lost' \subseteq Rows
  BY DEF Lost
<1> HIDE DEF Rows, Lost
<1> QED BY <1>1, <1>2, FS_Subset

LEMMA LostShrinks ==
  ASSUME LostIsFew, Lost' \subseteq Lost,
         faults \in Nat, faults' \in Nat, faults' >= faults
  PROVE  LostIsFew'
<1>1. Cardinality(Lost') <= Cardinality(Lost)
  BY LostFinite, FS_Subset
<1>2. Cardinality(Lost) \in Nat /\ Cardinality(Lost') \in Nat
  BY LostFinite, FS_CardinalityType
<1> QED BY <1>1, <1>2 DEF LostIsFew

LEMMA NextLost == IInv /\ LostIsFew /\ [Next]_vars => LostIsFew'
<1> SUFFICES ASSUME IInv, LostIsFew, [Next]_vars PROVE LostIsFew'
  OBVIOUS
<1>0. accepted \in [Rows -> Nat] /\ faults \in Nat
  BY DEF IInv, RelayTypeOK
<1>1. ASSUME NEW i \in Rows, InsertOutbox(i) PROVE LostIsFew'
  <2>1. accepted' = accepted /\ faults' = faults
    BY <1>1 DEF InsertOutbox
  <2>2. Lost' \subseteq Lost
    BY <1>1, <2>1, InsertTaken DEF Lost
  <2> QED BY <1>0, <2>1, <2>2, LostShrinks
<1>2. ASSUME NEW r \in Relays, ClaimOutboxBatch(r) PROVE LostIsFew'
  BY <1>0, <1>2, OthersTaken, LostShrinks DEF ClaimOutboxBatch, Lost
<1>3. ASSUME NEW r \in Relays, NEW i \in Rows, PublishOK(r, i)
      PROVE  LostIsFew'
  <2>1. \A k \in Rows : Taken(k)' <=> Taken(k) \/ k = i
    BY <1>3, AdvanceTaken DEF PublishOK
  <2>2. /\ faults' = faults /\ accepted'[i] = accepted[i] + 1
        /\ \A k \in Rows \ {i} : accepted'[k] = accepted[k]
    BY <1>0, <1>3 DEF PublishOK
  <2>3. Lost' \subseteq Lost
    BY <1>0, <2>1, <2>2 DEF Lost
  <2> QED BY <1>0, <2>2, <2>3, LostShrinks
<1>4. ASSUME NEW r \in Relays, NEW i \in Rows, PublishLost(r, i)
      PROVE  LostIsFew'
  <2>1. \A k \in Rows : Taken(k)' <=> Taken(k) \/ k = i
    BY <1>4, AdvanceTaken DEF PublishLost
  <2>2. accepted' = accepted /\ faults' = faults + 1
    BY <1>4 DEF PublishLost, Fault
  <2>3. Lost' \subseteq Lost \cup {i}
    BY <2>1, <2>2 DEF Lost
  <2>4. /\ IsFiniteSet(Lost \cup {i})
        /\ Cardinality(Lost \cup {i}) <= Cardinality(Lost) + 1
        /\ Cardinality(Lost) \in Nat
    <3>1. IsFiniteSet(Lost) /\ Cardinality(Lost) \in Nat
      BY LostFinite, FS_CardinalityType
    <3>2. Cardinality(Lost \cup {i}) \in {Cardinality(Lost),
                                           Cardinality(Lost) + 1}
      BY <3>1, FS_AddElement, Zenon
    <3>3. IsFiniteSet(Lost \cup {i})
      BY <3>1, FS_AddElement
    <3> QED BY <3>1, <3>2, <3>3
  <2>5. Cardinality(Lost') <= Cardinality(Lost \cup {i})
    BY <2>3, <2>4, FS_Subset
  <2>6. Cardinality(Lost') \in Nat /\ Cardinality(Lost \cup {i}) \in Nat
    BY <2>4, LostFinite, FS_CardinalityType
  <2> QED BY <1>0, <2>2, <2>4, <2>5, <2>6 DEF LostIsFew
<1>5. ASSUME NEW r \in Relays, NEW i \in Rows, PublishError(r, i)
      PROVE  LostIsFew'
  BY <1>0, <1>5, OthersTaken, LostShrinks DEF PublishError, Lost
<1>6. ASSUME NEW r \in Relays, Commit(r) PROVE LostIsFew'
  BY <1>0, <1>6, CommitTaken, LostShrinks DEF Commit, Lost
<1>7. ASSUME NEW r \in Relays, ChannelLost(r) PROVE LostIsFew'
  <2>1. accepted' = accepted /\ faults' = faults + 1
    BY <1>7 DEF ChannelLost, Fault
  <2>2. Lost' \subseteq Lost
    BY <1>7, <2>1, OthersTaken DEF ChannelLost, Lost
  <2> QED BY <1>0, <2>1, <2>2, LostShrinks
<1>8. ASSUME NEW r \in Relays, Crash(r) PROVE LostIsFew'
  <2>1. accepted' = accepted /\ faults' = faults + 1
    BY <1>8 DEF Crash, Fault
  <2>2. Lost' \subseteq Lost
    BY <1>8, <2>1, CrashTaken DEF Lost
  <2> QED BY <1>0, <2>1, <2>2, LostShrinks
<1>9. CASE UNCHANGED vars
  BY <1>0, <1>9, OthersTaken, LostShrinks DEF vars, Lost
<1> QED BY <1>1, <1>2, <1>3, <1>4, <1>5, <1>6, <1>7, <1>8, <1>9
        DEF Next, RelayStep

(* There are at most as many published rows without a message as there     *)
(* were faults.                                                            *)
THEOREM UnacceptedExplained == Spec => []UnacceptedOnlyByFaults
<1>1. Init => IInv /\ LostIsFew
  <2> HAVE Init
  <2>1. Lost = {}
    BY DEF Init, Lost, Taken
  <2> QED BY <2>1, InitInv, FS_EmptySet DEF Init, LostIsFew
<1>2. (IInv /\ LostIsFew) /\ [Next]_vars => (IInv /\ LostIsFew)'
  BY NextInv, NextLost
<1>3. IInv /\ LostIsFew => UnacceptedOnlyByFaults
  <2> HAVE IInv /\ LostIsFew
  <2>1. Unaccepted \subseteq Lost
    BY DEF Unaccepted, Lost, Taken
  <2>2. Cardinality(Unaccepted) <= Cardinality(Lost)
    BY <2>1, LostFinite, FS_Subset
  <2>3. Cardinality(Unaccepted) \in Nat /\ Cardinality(Lost) \in Nat
    BY <2>1, LostFinite, FS_Subset, FS_CardinalityType
  <2> QED BY <2>2, <2>3 DEF LostIsFew, UnacceptedOnlyByFaults, IInv, RelayTypeOK
<1> QED BY <1>1, <1>2, <1>3, PTL DEF Spec

(***************************************************************************)
(* The relays implement the abstract outbox                                *)
(***************************************************************************)

Inserted == {i \in Rows : row[i] # "absent"}
Published == {i \in Rows : row[i] = "published"}
Marked == UNION {marked[r] : r \in Relays}

(* What an abstract step needs to know of a concrete one.                  *)
LEMMA AbstractStep ==
  ASSUME \/ /\ Inserted' \subseteq Rows
            /\ Inserted \subseteq Inserted'
            /\ UNCHANGED <<Published, Marked>>
         \/ \E i \in Inserted \ (Published \cup Marked) :
              /\ Marked' = Marked \cup {i}
              /\ UNCHANGED <<Inserted, Published>>
         \/ \E S \in SUBSET Marked :
              /\ Marked' = Marked \ S
              /\ Published' \in {Published, Published \cup S}
              /\ UNCHANGED Inserted
  PROVE  Dispatches!Next
<1> DEFINE A == Inserted  P == Published  M == Marked
           A1 == Inserted'  P1 == Published'  M1 == Marked'
<1>1. \/ A1 \subseteq Rows /\ A \subseteq A1 /\ P1 = P /\ M1 = M
      \/ \E i \in A \ (P \cup M) : M1 = M \cup {i} /\ A1 = A /\ P1 = P
      \/ \E S \in SUBSET M : /\ M1 = M \ S /\ A1 = A
                             /\ P1 = P \/ P1 = P \cup S
  OBVIOUS
<1> HIDE DEF A, P, M, A1, P1, M1
<1>2. \/ A1 \subseteq Rows /\ A1 = A \cup (A1 \ A) /\ P1 = P /\ M1 = M
      \/ \E i \in A : /\ i \in A \ (P \cup M) /\ M1 = M \cup {i}
                      /\ A1 = A /\ P1 = P
      \/ \E S \in SUBSET M :
           \/ P1 = P \cup S /\ M1 = M \ S /\ A1 = A
           \/ M1 = M \ S /\ A1 = A /\ P1 = P
  BY <1>1
<1> QED BY <1>2
        DEF A, P, M, A1, P1, M1, Inserted, Published, Marked,
            Dispatches!Next, Dispatches!Insert, Dispatches!Publish,
            Dispatches!Commit, Dispatches!Rollback

(* A transaction that ends takes away its own marks and no others.         *)
LEMMA MarksOfOthersStay ==
  ASSUME IInv, NEW r \in Relays, EndTx(r)
  PROVE  Marked' = Marked \ marked[r] /\ marked[r] \in SUBSET Marked
<1>1. \A q \in Relays \ {r} : marked'[q] = marked[q]
                              /\ marked[q] \cap marked[r] = {}
  BY EndTxInv DEF IInv, BatchesAreExclusive
<1>2. marked'[r] = {}
  BY EndTxInv
<1> QED BY <1>1, <1>2 DEF Marked

(* A publish marks a row that is inserted, not published, and not marked.  *)
LEMMA PublishIsAbstract ==
  ASSUME IInv, NEW r \in Relays, NEW i \in Rows,
         Publishing(r, i), MarkAndAdvance(r, i)
  PROVE  Dispatches!Next
<1>1. ~Taken(i) /\ row[i] = "unpublished"
  BY BatchNotTaken DEF Publishing
<1>2. i \in Inserted \ (Published \cup Marked)
  BY <1>1 DEF Taken, Inserted, Published, Marked
<1>3. Marked' = Marked \cup {i}
  BY DEF IInv, RelayTypeOK, MarkAndAdvance, Marked
<1>4. UNCHANGED <<Inserted, Published>>
  BY DEF MarkAndAdvance, Inserted, Published
<1> QED BY <1>2, <1>3, <1>4, AbstractStep

LEMMA NextIsAbstract ==
  IInv /\ [Next]_vars => [Dispatches!Next]_(Dispatches!vars)
<1> SUFFICES ASSUME IInv, [Next]_vars
             PROVE  Dispatches!Next \/ UNCHANGED Dispatches!vars
  OBVIOUS
<1>0. row' = row /\ marked' = marked => UNCHANGED Dispatches!vars
  BY DEF Dispatches!vars
<1>1. ASSUME NEW i \in Rows, InsertOutbox(i) PROVE Dispatches!Next
  <2>1. \A k \in Rows : /\ row'[k] = "published" <=> row[k] = "published"
                        /\ row[k] # "absent" => row'[k] # "absent"
    BY <1>1 DEF InsertOutbox, IInv, RelayTypeOK
  <2>2. UNCHANGED <<Published, Marked>>
    BY <1>1, <2>1 DEF InsertOutbox, Published, Marked
  <2>3. Inserted' \subseteq Rows /\ Inserted \subseteq Inserted'
    BY <2>1 DEF Inserted
  <2> QED BY <2>2, <2>3, AbstractStep
<1>2. ASSUME NEW r \in Relays, ClaimOutboxBatch(r)
      PROVE  UNCHANGED Dispatches!vars
  BY <1>0, <1>2 DEF ClaimOutboxBatch
<1>3. ASSUME NEW r \in Relays, NEW i \in Rows,
             PublishOK(r, i) \/ PublishLost(r, i)
      PROVE  Dispatches!Next
  BY <1>3, PublishIsAbstract DEF PublishOK, PublishLost
<1>4. ASSUME NEW r \in Relays, NEW i \in Rows, PublishError(r, i)
      PROVE  UNCHANGED Dispatches!vars
  BY <1>0, <1>4 DEF PublishError
<1>5. ASSUME NEW r \in Relays, Commit(r) PROVE Dispatches!Next
  <2>1. Marked' = Marked \ marked[r] /\ marked[r] \in SUBSET Marked
    BY <1>5, MarksOfOthersStay DEF Commit
  <2>2. \A k \in marked[r] : k \in Rows /\ row[k] = "unpublished"
    BY DEF IInv, RelayTypeOK, BatchesAreExclusive
  <2>3. \A k \in Rows : row'[k] = IF k \in marked[r] THEN "published"
                                                   ELSE row[k]
    BY <1>5 DEF Commit
  <2>4. Published' = Published \cup marked[r] /\ Inserted' = Inserted
    BY <2>2, <2>3 DEF Published, Inserted
  <2> QED BY <2>1, <2>4, AbstractStep
<1>6. ASSUME NEW r \in Relays, Crash(r) PROVE Dispatches!Next
  <2>1. Marked' = Marked \ marked[r] /\ marked[r] \in SUBSET Marked
    BY <1>6, MarksOfOthersStay DEF Crash
  <2>2. UNCHANGED <<Inserted, Published>>
    BY <1>6 DEF Crash, Inserted, Published
  <2> QED BY <2>1, <2>2, AbstractStep
<1>7. ASSUME NEW r \in Relays, ChannelLost(r)
      PROVE  UNCHANGED Dispatches!vars
  BY <1>0, <1>7 DEF ChannelLost
<1>8. CASE UNCHANGED vars
  BY <1>0, <1>8 DEF vars
<1> QED BY <1>1, <1>2, <1>3, <1>4, <1>5, <1>6, <1>7, <1>8
        DEF Next, RelayStep

(* Any number of relays, with any batch size and any faults, treat the     *)
(* rows as the abstract outbox says: a message only for a committed,       *)
(* unpublished row that no other transaction has sent.                     *)
THEOREM RelaysImplementOutbox == Spec => ImplementsOutbox
<1>1. Init => Dispatches!Init
  BY DEF Init, Dispatches!Init
<1> QED BY InitInv, NextInv, NextIsAbstract, <1>1, PTL
        DEF Spec, ImplementsOutbox, Dispatches!Spec

(***************************************************************************)
(* The broker's topology                                                   *)
(***************************************************************************)

(* What a process that is declaring, or done, has found or made: while the *)
(* broker is up, every earlier request of its own, and at last jobs.retry  *)
(* with its own delay.                                                     *)
RequestsInOrder ==
  up => \A p \in Procs : \A i \in DOMAIN Requests :
          at[p] = Requests[i] =>
            /\ \A k \in 1..(i - 1) : Requests[k] \in declared
            /\ i = Len(Requests) => ttl = RetryDelay(p)

ConnectedIsUp == \A p \in Procs : at[p] = "connected" => up

TopologyInv ==
  TopologyTypeOK /\ ConnectedIsRouted /\ RequestsInOrder /\ ConnectedIsUp

(* The seven requests, one by one, are different.                          *)
LEMMA SevenRequests ==
  /\ DOMAIN Requests = 1..7 /\ Len(Requests) = 7
  /\ Requests[1] = "jobs.direct" /\ Requests[2] = "jobs.dlq"
  /\ Requests[3] = "bind.jobs.dlq" /\ Requests[4] = "jobs.main"
  /\ Requests[5] = "bind.jobs.main" /\ Requests[6] = "jobs.retry"
  /\ Requests[7] = "bind.jobs.retry"
BY DEF Requests

LEMMA RequestsDiffer ==
  ASSUME NEW i \in 1..7, NEW k \in 1..7, Requests[i] = Requests[k]
  PROVE  i = k
<1>1. i \in {1, 2, 3, 4, 5, 6, 7} /\ k \in {1, 2, 3, 4, 5, 6, 7}
  OBVIOUS
<1> QED BY <1>1, SevenRequests, SMTT(60)

(* A request comes after those before it: NextRequest goes on in order.    *)
LEMMA NextInOrder ==
  ASSUME NEW i \in 1..7
  PROVE  /\ Requests[i] \notin {"down", "connected", "lost"}
         /\ Requests[i] \in Topology
         /\ i < 7 => NextRequest(Requests[i]) = Requests[i + 1]
         /\ i = 7 => NextRequest(Requests[i]) = "connected"
<1>1. Requests[i] \notin {"down", "connected", "lost"}
  <2>1. i \in {1, 2, 3, 4, 5, 6, 7}
    OBVIOUS
  <2> QED BY <2>1, SevenRequests
<1>2. Index(Requests[i]) = i
  <2>1. \A k \in DOMAIN Requests : Requests[k] = Requests[i] <=> k = i
    BY SevenRequests, RequestsDiffer
  <2> QED BY <2>1, SevenRequests DEF Index
<1>3. Requests[i] \in Topology
  BY SevenRequests DEF Topology
<1> QED BY <1>1, <1>2, <1>3, SevenRequests DEF NextRequest

(* A delay is never zero, so that it also says whether jobs.retry exists.  *)
LEMMA DelayPositive ==
  ASSUME setting \in [Procs -> Nat], NEW p \in Procs
  PROVE  RetryDelay(p) \in Nat \ {0}
BY TopologyAssumption DEF RetryDelay

LEMMA TopologyInitInv == TopologyInit => TopologyInv
<1> HAVE TopologyInit
<1>1. TopologyTypeOK
  <2>1. setting \in [Procs -> Nat]
    <3>1. Settings \cup {0} \subseteq Nat
      BY TopologyAssumption
    <3> QED BY <3>1 DEF TopologyInit
  <2> QED BY <2>1 DEF TopologyInit, TopologyTypeOK
<1>2. \A i \in 1..7 : Requests[i] # "down"
  BY NextInOrder
<1>3. ConnectedIsRouted /\ ConnectedIsUp
  BY DEF TopologyInit, ConnectedIsRouted, ConnectedIsUp
<1>4. RequestsInOrder
  BY <1>2, SevenRequests DEF TopologyInit, RequestsInOrder
<1> QED BY <1>1, <1>3, <1>4 DEF TopologyInv

(* A process that starts again knows nothing.                              *)
LEMMA GoesDown ==
  ASSUME TopologyInv, NEW p \in Procs,
         at' = [at EXCEPT ![p] = "down"],
         UNCHANGED <<setting, declared, ttl, up>>
  PROVE  TopologyInv'
<1> USE DEF TopologyInv, TopologyTypeOK
<1>1. TopologyTypeOK'
  OBVIOUS
<1>2. \A q \in Procs : at'[q] # "down" => at'[q] = at[q]
  OBVIOUS
<1>3. \A i \in 1..7 : Requests[i] # "down"
  BY NextInOrder
<1>4. \A q \in Procs : RetryDelay(q)' = RetryDelay(q)
  BY DEF RetryDelay
<1>5. ConnectedIsRouted' /\ ConnectedIsUp'
  BY <1>2, <1>4 DEF ConnectedIsRouted, ConnectedIsUp
<1>6. RequestsInOrder'
  BY <1>2, <1>3, <1>4, SevenRequests DEF RequestsInOrder
<1> QED BY <1>1, <1>5, <1>6

(* A granted request is found by everybody, and the delay of jobs.retry is *)
(* what it was, unless the queue is new.                                   *)
LEMMA DeclareInv ==
  ASSUME TopologyInv, NEW p \in Procs, Declare(p)
  PROVE  TopologyInv'
<1> USE DEF TopologyInv, TopologyTypeOK
<1>1. PICK j \in 1..7 : at[p] = Requests[j]
  BY SevenRequests DEF Declare, Topology
<1>2. /\ up /\ up' = up /\ setting' = setting
      /\ declared' = declared \cup {Requests[j]}
      /\ ttl' = IF j = 6 THEN RetryDelay(p) ELSE ttl
      /\ "jobs.retry" \in declared => ttl' = ttl
  <2>1. at[p] = "jobs.retry" <=> j = 6
    BY <1>1, SevenRequests, RequestsDiffer
  <2> QED BY <1>1, <2>1 DEF Declare, Refused
<1>3. /\ \A q \in Procs \ {p} : at'[q] = at[q]
      /\ at'[p] = NextRequest(Requests[j])
      /\ at' \in [Procs -> Topology \cup {"down", "connected", "lost"}]
  <2>1. NextRequest(Requests[j]) \in Topology \cup {"connected"}
    BY NextInOrder
  <2> QED BY <1>1, <2>1 DEF Declare
<1>4. \A q \in Procs : RetryDelay(q)' = RetryDelay(q)
  BY <1>2 DEF RetryDelay
<1>5. TopologyTypeOK'
  <2>1. Requests[j] \in Topology
    BY NextInOrder
  <2>2. RetryDelay(p) \in Nat \ {0}
    BY DelayPositive
  <2>3. Requests[j] = "jobs.retry" <=> j = 6
    BY SevenRequests, RequestsDiffer
  <2> QED BY <1>2, <1>3, <2>1, <2>2, <2>3
<1>6. RequestsInOrder'
  <2> SUFFICES ASSUME NEW q \in Procs, NEW i \in 1..7, at'[q] = Requests[i]
               PROVE  /\ \A k \in 1..(i - 1) : Requests[k] \in declared'
                      /\ i = 7 => ttl' = RetryDelay(q)
    BY <1>4, SevenRequests DEF RequestsInOrder
  <2>1. CASE q # p
    <3>1. /\ \A k \in 1..(i - 1) : Requests[k] \in declared
          /\ i = 7 => ttl = RetryDelay(q)
      BY <1>2, <1>3, <2>1, SevenRequests DEF RequestsInOrder
    <3>2. i = 7 => "jobs.retry" \in declared
      <4>1. i = 7 => Requests[6] \in declared
        BY <3>1
      <4> QED BY <4>1, SevenRequests
    <3> QED BY <1>2, <3>1, <3>2
  <2>2. CASE q = p
    <3>1. j < 7 /\ i = j + 1
      <4>1. CASE j = 7
        BY <1>3, <2>2, <4>1, NextInOrder
      <4>2. CASE j < 7
        <5>1. Requests[j + 1] = Requests[i] /\ j + 1 \in 1..7
          BY <1>3, <2>2, <4>2, NextInOrder
        <5> QED BY <4>2, <5>1, RequestsDiffer
      <4> QED BY <4>1, <4>2
    <3>2. \A k \in 1..(j - 1) : Requests[k] \in declared
      BY <1>1, <1>2, SevenRequests DEF RequestsInOrder
    <3> QED BY <1>2, <2>2, <3>1, <3>2
  <2> QED BY <2>1, <2>2
<1>7. ConnectedIsUp'
  BY <1>2 DEF ConnectedIsUp
<1>8. ConnectedIsRouted'
  <2> SUFFICES ASSUME NEW q \in Procs, at'[q] = "connected"
               PROVE  declared' = Topology /\ ttl' = RetryDelay(q)
    BY <1>4 DEF ConnectedIsRouted
  <2>1. CASE q # p
    <3>1. declared = Topology /\ ttl = RetryDelay(q)
      BY <1>3, <2>1 DEF ConnectedIsRouted
    <3>2. Requests[j] \in Topology /\ Requests[6] \in Topology
      BY NextInOrder
    <3> QED BY <1>2, <3>1, <3>2, SevenRequests
  <2>2. CASE q = p
    <3>1. j = 7
      <4>1. j < 7 => Requests[j + 1] # "connected" /\ j + 1 \in 1..7
        BY NextInOrder
      <4> QED BY <1>3, <2>2, <4>1, NextInOrder
    <3>2. /\ \A k \in 1..6 : Requests[k] \in declared
          /\ ttl = RetryDelay(p)
      BY <1>1, <1>2, <3>1, SevenRequests DEF RequestsInOrder
    <3>3. \A k \in 1..7 : Requests[k] \in declared'
      BY <1>2, <3>1, <3>2
    <3>4. Topology \subseteq declared'
      BY <3>3, SevenRequests DEF Topology
    <3> QED BY <1>2, <1>5, <2>2, <3>1, <3>2, <3>4
  <2> QED BY <2>1, <2>2
<1> QED BY <1>5, <1>6, <1>7, <1>8

LEMMA TopologyNextInv ==
  TopologyInv /\ [TopologyNext]_topologyVars => TopologyInv'
<1> SUFFICES ASSUME TopologyInv, [TopologyNext]_topologyVars
             PROVE  TopologyInv'
  OBVIOUS
<1> USE DEF TopologyInv, TopologyTypeOK
<1>0. setting' = setting => \A q \in Procs : RetryDelay(q)' = RetryDelay(q)
  BY DEF RetryDelay
<1>1. ASSUME NEW p \in Procs, Dial(p) PROVE TopologyInv'
  <2>1. /\ at'[p] = Requests[1] /\ \A q \in Procs \ {p} : at'[q] = at[q]
        /\ UNCHANGED <<setting, declared, ttl, up>>
    BY <1>1 DEF Dial
  <2>2. Requests[1] \in Topology /\ Requests[1] # "connected"
    BY NextInOrder
  <2>3. TopologyTypeOK'
    BY <1>1, <2>2 DEF Dial
  <2>4. ConnectedIsRouted' /\ ConnectedIsUp'
    BY <1>0, <2>1, <2>2 DEF ConnectedIsRouted, ConnectedIsUp
  <2>5. RequestsInOrder'
    <3> SUFFICES ASSUME up, NEW q \in Procs, NEW i \in 1..7,
                        at'[q] = Requests[i]
                 PROVE  /\ \A k \in 1..(i - 1) : Requests[k] \in declared
                        /\ i = 7 => ttl = RetryDelay(q)
      BY <1>0, <2>1, SevenRequests DEF RequestsInOrder
    <3>1. CASE q # p
      BY <2>1, <3>1, SevenRequests DEF RequestsInOrder
    <3>2. CASE q = p
      <4>1. i = 1
        BY <2>1, <3>2, RequestsDiffer
      <4> QED BY <4>1
    <3> QED BY <3>1, <3>2
  <2> QED BY <2>3, <2>4, <2>5
<1>2. ASSUME NEW p \in Procs, Declare(p) PROVE TopologyInv'
  BY <1>2, DeclareInv
<1>3. ASSUME NEW p \in Procs, DeclareFails(p) PROVE TopologyInv'
  BY <1>3, GoesDown DEF DeclareFails, AttemptFails
<1>4. ASSUME NEW p \in Procs, ConsumerEnds(p) PROVE TopologyInv'
  BY <1>4, GoesDown DEF ConsumerEnds
<1>5. ASSUME NEW p \in Procs, ProcessDies(p) PROVE TopologyInv'
  BY <1>5, GoesDown DEF ProcessDies
<1>6. CASE BrokerStops
  <2>1. ~up' /\ \A q \in Procs : at'[q] # "connected"
    BY <1>6 DEF BrokerStops
  <2>2. TopologyTypeOK'
    <3>1. at' \in [Procs -> Topology \cup {"down", "connected", "lost"}]
      BY <1>6 DEF BrokerStops
    <3>2. /\ declared' \subseteq Topology /\ ttl' \in Nat
          /\ ttl' # 0 <=> "jobs.retry" \in declared'
          /\ setting' = setting /\ up' \in BOOLEAN
      <4>1. CASE UNCHANGED <<declared, ttl>>
        BY <1>6, <4>1 DEF BrokerStops
      <4>2. CASE declared' = {} /\ ttl' = 0
        BY <1>6, <4>2 DEF BrokerStops
      <4> QED BY <1>6, <4>1, <4>2 DEF BrokerStops
    <3> QED BY <3>1, <3>2
  <2> QED BY <2>1, <2>2
          DEF ConnectedIsRouted, ConnectedIsUp, RequestsInOrder
<1>7. CASE BrokerStarts
  <2>1. \A q \in Procs : \A i \in 1..7 : at'[q] # Requests[i]
    BY <1>7, NextInOrder DEF BrokerStarts
  <2>2. RequestsInOrder'
    BY <2>1, SevenRequests DEF RequestsInOrder
  <2> QED BY <1>0, <1>7, <2>2
          DEF BrokerStarts, ConnectedIsRouted, ConnectedIsUp
<1>8. CASE UNCHANGED topologyVars
  BY <1>0, <1>8
     DEF topologyVars, ConnectedIsRouted, ConnectedIsUp, RequestsInOrder
<1> QED BY <1>1, <1>2, <1>3, <1>4, <1>5, <1>6, <1>7, <1>8
        DEF TopologyNext, Connect

(* Connecting keeps the types, and the broker's record of jobs.retry, for  *)
(* any number of processes and outages.                                    *)
THEOREM TopologyTypeCorrect == TopologySpec => []TopologyTypeOK
<1>1. TopologyInv => TopologyTypeOK
  BY DEF TopologyInv
<1> QED BY TopologyInitInv, TopologyNextInv, <1>1, PTL DEF TopologySpec

(* Whoever is connected has every queue and binding and its own retry      *)
(* delay, however many processes declare, die and lose the broker.         *)
THEOREM ConnectionsAreRouted == TopologySpec => []ConnectedIsRouted
<1>1. TopologyInv => ConnectedIsRouted
  BY DEF TopologyInv
<1> QED BY TopologyInitInv, TopologyNextInv, <1>1, PTL DEF TopologySpec
=============================================================================
