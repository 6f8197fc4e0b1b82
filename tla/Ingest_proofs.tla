--------------------------- MODULE Ingest_proofs ---------------------------
(***************************************************************************)
(* Proofs about what the server does with the agents' data: the            *)
(* transactions, users and retention on a row of error_groups              *)
(* (ErrorGroups), for any number of transactions and events, and the       *)
(* ingest pool (IngestWorker), for any pool and batches.                   *)
(***************************************************************************)
EXTENDS IngestWorker, ErrorGroups, StreamConsumer_proofs, FiniteSetTheorems
-----------------------------------------------------------------------------
(* One row of error_groups. *)

Ref == {NoRef, Inline} \cup Trace

Rows == [status : {"open", "resolved", "acknowledged"}, count : Nat \ {0}, ref : Ref,
         stale : BOOLEAN, resolvedBy : BOOLEAN]

\* What the row, the transactions and the retention run are made of.
RowTypeOK ==
    /\ viaWorker \in BOOLEAN
    /\ group = NoRow \/ group \in Rows
    /\ tx \in [Tx -> {Idle} \cup [pc : {"snapshot"}, ref : Ref]
                     \cup [pc : {"upsert"}, ref : Ref, wasClosed : BOOLEAN]]
    /\ retention \in {Idle, [pc |-> "deleteRows"]}
                     \cup [pc : {"deleteTraces"}, refs : SUBSET Ref]
    /\ reopened \in Nat /\ reopenAlerts \in Nat /\ spikeAlerts \in Nat
    /\ statusRaced \in BOOLEAN

\* The alerts of a deleted row are not counted for its successor.
SpikeState == OneSpikeAlertPerCrossing /\ (~Exists => spikeAlerts = 0)

\* Unless raced, what a transaction saw of the status is still so.
SnapshotHolds ==
    ~statusRaced => \A t \in Tx : tx[t].pc = "upsert" => (tx[t].wasClosed <=> Exists /\ Closed(group))

\* A trace that a transaction or the row refers to is in the bucket, or a
\* retention run has listed it; only listed traces are deleted.
TraceState ==
    /\ \A t \in Tx : tx[t].pc # "idle" /\ tx[t].ref \in Trace => tx[t].ref \in s3 \cup listedTraces
    /\ retention.pc = "deleteTraces" => retention.refs \subseteq listedTraces
    /\ TraceLostOnlyByRetention

RowInv == RowTypeOK /\ SpikeState /\ SnapshotHolds /\ ReopenAlertsUnlessRaced /\ TraceState

\* No row, no transaction and no object satisfy the invariant.
LEMMA RowInitInv == RowInit => RowInv
<1> SUFFICES ASSUME RowInit PROVE RowInv
  OBVIOUS
<1>1. RowTypeOK
  <2>1. viaWorker \in BOOLEAN /\ statusRaced \in BOOLEAN
    BY DEF RowInit
  <2> QED
    BY <2>1 DEF RowInit, RowTypeOK
<1>2. SpikeState /\ SnapshotHolds /\ TraceState /\ ReopenAlertsUnlessRaced
  BY DEF RowInit, SpikeState, SnapshotHolds, TraceState, Idle, Exists,
         OneSpikeAlertPerCrossing, ReopenAlertsUnlessRaced, TraceLostOnlyByRetention
<1> QED
  BY <1>1, <1>2 DEF RowInv

\* A row is not the absent row, and its count goes up by one.
LEMMA UpsertedRow ==
    ASSUME RowTypeOK, NEW ref \in Ref, NEW stale \in BOOLEAN
    PROVE  /\ Upserted(ref, stale) \in Rows /\ Upserted(ref, stale) # NoRow
           /\ Upserted(ref, stale).ref = ref
           /\ Upserted(ref, stale).count = (IF Exists THEN group.count + 1 ELSE 1)
           /\ Upserted(ref, stale).status = (IF Exists /\ ~Closed(group) THEN group.status ELSE "open")
<1>1. CASE Exists
  <2>1. group \in Rows
    BY <1>1 DEF RowTypeOK, Exists
  <2> DEFINE status == IF Closed(group) THEN "open" ELSE group.status
             by == IF Closed(group) THEN FALSE ELSE group.resolvedBy
  <2>2. Upserted(ref, stale) = [status |-> status, count |-> group.count + 1,
                                ref |-> ref, stale |-> stale, resolvedBy |-> by]
    BY <1>1, <2>1 DEF Upserted, Rows
  <2>3. by \in BOOLEAN
    <3>1. group.resolvedBy \in BOOLEAN
      BY <2>1 DEF Rows
    <3> QED
      BY <3>1
  <2>7. status \in {"open", "resolved", "acknowledged"} /\ group.count + 1 \in Nat \ {0}
    BY <2>1 DEF Rows
  <2>4. /\ Upserted(ref, stale).ref = ref
        /\ Upserted(ref, stale).count = group.count + 1
        /\ Upserted(ref, stale).status = (IF ~Closed(group) THEN group.status ELSE "open")
    BY <2>2 DEF Closed
  <2> HIDE DEF status, by
  <2>5. Upserted(ref, stale) \in Rows
    BY <2>2, <2>3, <2>7 DEF Rows
  <2>6. Upserted(ref, stale) # NoRow
    BY <2>5 DEF Rows, NoRow
  <2> QED
    BY <1>1, <2>4, <2>5, <2>6
<1>2. CASE ~Exists
  BY <1>2 DEF Upserted, Rows, NoRow
<1> QED
  BY <1>1, <1>2

\* Every step of a transaction, a user or the retention worker keeps the types.
LEMMA RowTypeStep == RowTypeOK /\ [RowNext]_rowVars => RowTypeOK'
<1> SUFFICES ASSUME RowTypeOK, [RowNext]_rowVars PROVE RowTypeOK'
  OBVIOUS
<1>1. ASSUME NEW t \in Tx, StoreTrace(t) PROVE RowTypeOK'
  BY <1>1 DEF StoreTrace, RowTypeOK, Ref, alertVars
<1>2. ASSUME NEW t \in Tx, SnapshotStatus(t) PROVE RowTypeOK'
  BY <1>2 DEF SnapshotStatus, RowTypeOK, Ref, alertVars, Idle
<1>3. ASSUME NEW t \in Tx, UpsertErrorGroup(t) PROVE RowTypeOK'
  BY <1>3, UpsertedRow DEF UpsertErrorGroup, RowTypeOK, Idle, Count
<1>4. ASSUME NEW t \in Tx, RollbackTx(t) PROVE RowTypeOK'
  BY <1>4 DEF RollbackTx, RowTypeOK, alertVars
<1>5. CASE UpdateErrorGroupStatus
  BY <1>5, ZenonT(60) DEF UpdateErrorGroupStatus, AcknowledgeErrorGroup, ResolveErrorGroup, ReopenErrorGroup,
              SetStatus, RowTypeOK, alertVars, Exists, Rows
<1>6. CASE BecomeStale
  BY <1>6 DEF BecomeStale, RowTypeOK, alertVars, Exists, Rows
<1>7. CASE Retention
  BY <1>7 DEF Retention, ListExpiringErrorGroupRefs, DeleteTraces, DeleteOldErrorGroups,
              RetentionAborts, RowTypeOK, alertVars, Rows, ExpiringRefs, Expired, Exists
<1>8. CASE UNCHANGED rowVars
  BY <1>8 DEF rowVars, alertVars, RowTypeOK
<1> QED
  BY <1>1, <1>2, <1>3, <1>4, <1>5, <1>6, <1>7, <1>8 DEF RowNext, Ingest

\* Counting: each upsert moves the count by one under the row lock, so exactly
\* one of them crosses the threshold.
LEMMA SpikeStep == RowTypeOK /\ SpikeState /\ [RowNext]_rowVars => SpikeState'
<1> SUFFICES ASSUME RowTypeOK, SpikeState, [RowNext]_rowVars PROVE SpikeState'
  OBVIOUS
<1> USE DEF SpikeState, OneSpikeAlertPerCrossing, Exists, CrossingAt
<1>1. ASSUME NEW t \in Tx, Ingest(t), ~UpsertErrorGroup(t) PROVE SpikeState'
  BY <1>1 DEF Ingest, StoreTrace, SnapshotStatus, RollbackTx, alertVars
<1>2. ASSUME NEW t \in Tx, UpsertErrorGroup(t) PROVE SpikeState'
  <2>1. PICK stale \in BOOLEAN :
          /\ group' = Upserted(tx[t].ref, stale)
          /\ spikeAlerts' = spikeAlerts + Count(SpikeAlert(Upserted(tx[t].ref, stale)))
    BY <1>2 DEF UpsertErrorGroup
  <2>2. tx[t].ref \in Ref
    BY <1>2 DEF UpsertErrorGroup, RowTypeOK, Idle
  <2>3. /\ group' # NoRow /\ group'.count \in Nat
        /\ group'.count = (IF Exists THEN group.count + 1 ELSE 1)
    BY <2>1, <2>2, UpsertedRow DEF Rows
  <2>4. viaWorker' = viaWorker
    BY <1>2 DEF UpsertErrorGroup
  <2>5. Exists => group.count \in Nat \ {0}
    BY DEF RowTypeOK, Rows
  <2>6. CrossingAt \in Nat /\ CrossingAt' = CrossingAt
    BY <2>4, ErrorGroupsAssumption
  <2>7. spikeAlerts' = spikeAlerts + Count(SpikeAlert(group'))
    BY <2>1
  <2> QED
    BY <2>3, <2>5, <2>6, <2>7 DEF SpikeAlert, Count, RowTypeOK
<1>3. CASE UpdateErrorGroupStatus \/ BecomeStale
  <2>1. group \in Rows /\ group' \in Rows /\ group'.count = group.count
    BY <1>3, ZenonT(60) DEF UpdateErrorGroupStatus, AcknowledgeErrorGroup, ResolveErrorGroup, ReopenErrorGroup,
                SetStatus, BecomeStale, RowTypeOK, Rows
  <2>2. UNCHANGED <<viaWorker, spikeAlerts>>
    BY <1>3 DEF UpdateErrorGroupStatus, AcknowledgeErrorGroup, ResolveErrorGroup, ReopenErrorGroup,
                SetStatus, BecomeStale, alertVars
  <2> QED
    BY <2>1, <2>2 DEF NoRow, Rows
<1>4. CASE Retention
  BY <1>4 DEF Retention, ListExpiringErrorGroupRefs, DeleteTraces, DeleteOldErrorGroups,
              RetentionAborts, alertVars
<1>5. CASE UNCHANGED rowVars
  BY <1>5 DEF rowVars, alertVars
<1> QED
  BY <1>1, <1>2, <1>3, <1>4, <1>5 DEF RowNext, Ingest

\* A status that changes under a transaction is noted as raced; in every other
\* case the transaction's snapshot is right, and so is its reopen alert.
LEMMA SnapshotStep ==
    RowTypeOK /\ SnapshotHolds /\ ReopenAlertsUnlessRaced /\ [RowNext]_rowVars
      => SnapshotHolds' /\ ReopenAlertsUnlessRaced'
<1> SUFFICES ASSUME RowTypeOK, SnapshotHolds, ReopenAlertsUnlessRaced, [RowNext]_rowVars
             PROVE  SnapshotHolds' /\ ReopenAlertsUnlessRaced'
  OBVIOUS
<1> USE DEF SnapshotHolds, ReopenAlertsUnlessRaced
<1>1. ASSUME NEW t \in Tx, StoreTrace(t) \/ RollbackTx(t)
      PROVE  SnapshotHolds' /\ ReopenAlertsUnlessRaced'
  BY <1>1 DEF StoreTrace, RollbackTx, alertVars, RowTypeOK, Exists, Closed, Idle
<1>2. ASSUME NEW t \in Tx, SnapshotStatus(t) PROVE SnapshotHolds' /\ ReopenAlertsUnlessRaced'
  BY <1>2 DEF SnapshotStatus, alertVars, RowTypeOK, Exists, Closed
<1>3. ASSUME NEW t \in Tx, UpsertErrorGroup(t) PROVE SnapshotHolds' /\ ReopenAlertsUnlessRaced'
  <2>1. PICK stale \in BOOLEAN :
          LET eg == Upserted(tx[t].ref, stale) IN
          /\ group' = eg
          /\ reopened' = reopened + Count(Exists /\ Closed(group))
          /\ reopenAlerts' = reopenAlerts + Count(ReopenAlert(tx[t].wasClosed, eg))
          /\ statusRaced' = (statusRaced \/ \E u \in InFlight \ {t} : group.status # eg.status)
    BY <1>3 DEF UpsertErrorGroup
  <2>2. tx[t].ref \in Ref /\ tx[t].pc = "upsert" /\ tx' = [tx EXCEPT ![t] = Idle]
    BY <1>3 DEF UpsertErrorGroup, RowTypeOK, Idle
  <2>3. /\ group' # NoRow /\ group' \in Rows
        /\ group'.status = (IF Exists /\ ~Closed(group) THEN group.status ELSE "open")
    BY <2>1, <2>2, UpsertedRow
  <2>4. ~statusRaced' => SnapshotHolds'
    <3> SUFFICES ASSUME ~statusRaced', NEW u \in Tx, tx'[u].pc = "upsert"
                 PROVE  tx'[u].wasClosed <=> (Exists /\ Closed(group))'
      OBVIOUS
    <3>1. u # t /\ tx'[u] = tx[u]
      BY <2>2 DEF RowTypeOK, Idle
    <3>2. ~statusRaced /\ group.status = group'.status
      BY <2>1, <3>1 DEF InFlight
    <3>3. Exists
      <4>1. ~Exists => group.status = "none" /\ group'.status = "open"
        BY <2>3 DEF Exists, NoRow
      <4> QED
        BY <3>2, <4>1
    <3>4. tx[u].wasClosed <=> Exists /\ Closed(group)
      BY <3>1, <3>2
    <3>5. (Exists /\ Closed(group)) <=> (Exists /\ Closed(group))'
      BY <3>2, <3>3, <2>3 DEF Exists, Closed
    <3> QED
      BY <3>1, <3>4, <3>5
  <2>5. ReopenAlertsUnlessRaced'
    <3> SUFFICES ASSUME ~statusRaced' PROVE reopenAlerts' = reopened'
      OBVIOUS
    <3>1. reopenAlerts = reopened /\ (tx[t].wasClosed <=> Exists /\ Closed(group))
      BY <2>1, <2>2
    <3>2. Exists /\ Closed(group) => group'.status = "open"
      BY <2>3
    <3>3. ReopenAlert(tx[t].wasClosed, group') <=> Exists /\ Closed(group)
      BY <3>1, <3>2 DEF ReopenAlert
    <3> QED
      BY <2>1, <3>1, <3>3 DEF Count
  <2> QED
    BY <2>4, <2>5
<1>4. CASE UpdateErrorGroupStatus
  <2>1. /\ group \in Rows /\ group' \in Rows /\ UNCHANGED <<tx, reopened, reopenAlerts>>
        /\ statusRaced' = (statusRaced \/ (InFlight # {} /\ group.status # group'.status))
    BY <1>4, ZenonT(60) DEF UpdateErrorGroupStatus, AcknowledgeErrorGroup, ResolveErrorGroup, ReopenErrorGroup,
                SetStatus, RowTypeOK, Rows, Exists, alertVars
  <2>2. Exists /\ Exists'
    BY <2>1 DEF Exists, Rows, NoRow
  <2>3. ASSUME ~statusRaced', NEW t \in Tx, tx[t].pc = "upsert"
        PROVE  tx[t].wasClosed <=> (Exists /\ Closed(group))'
    <3>1. ~statusRaced /\ group.status = group'.status
      BY <2>1, <2>3 DEF InFlight
    <3>2. tx[t].wasClosed <=> Exists /\ Closed(group)
      BY <2>3, <3>1
    <3>3. (Exists /\ Closed(group)) <=> (Exists /\ Closed(group))'
      BY <2>2, <3>1 DEF Closed
    <3> QED
      BY <3>2, <3>3
  <2>4. ~statusRaced' => ~statusRaced
    BY <2>1
  <2> QED
    BY <2>1, <2>3, <2>4
<1>5. CASE BecomeStale
  <2>1. /\ group \in Rows /\ group' \in Rows /\ group'.status = group.status
        /\ UNCHANGED <<tx, reopened, reopenAlerts, statusRaced>>
    BY <1>5 DEF BecomeStale, RowTypeOK, Rows, Exists, alertVars
  <2> QED
    BY <2>1 DEF Exists, Closed, Rows, NoRow
<1>6. CASE Retention
  <2>1. CASE DeleteOldErrorGroups
    BY <2>1 DEF DeleteOldErrorGroups, InFlight, Exists, Closed
  <2>2. CASE ~DeleteOldErrorGroups
    BY <1>6, <2>2 DEF Retention, ListExpiringErrorGroupRefs, DeleteTraces, RetentionAborts,
                      alertVars, Exists, Closed
  <2> QED
    BY <2>1, <2>2
<1>7. CASE UNCHANGED rowVars
  BY <1>7 DEF rowVars, alertVars, Exists, Closed
<1> QED
  BY <1>1, <1>2, <1>3, <1>4, <1>5, <1>6, <1>7 DEF RowNext, Ingest

\* An object is stored before anything refers to it, and only objects that a
\* retention run has listed are deleted.
LEMMA TraceStep == RowTypeOK /\ TraceState /\ [RowNext]_rowVars => TraceState'
<1> SUFFICES ASSUME RowTypeOK, TraceState, [RowNext]_rowVars PROVE TraceState'
  OBVIOUS
<1> USE DEF TraceState, TraceLostOnlyByRetention, Exists
<1>1. ASSUME NEW t \in Tx, StoreTrace(t) PROVE TraceState'
  BY <1>1 DEF StoreTrace, RowTypeOK
<1>2. ASSUME NEW t \in Tx, SnapshotStatus(t) \/ RollbackTx(t) PROVE TraceState'
  BY <1>2 DEF SnapshotStatus, RollbackTx, RowTypeOK, Idle
<1>3. ASSUME NEW t \in Tx, UpsertErrorGroup(t) PROVE TraceState'
  <2>1. PICK stale \in BOOLEAN : group' = Upserted(tx[t].ref, stale)
    BY <1>3 DEF UpsertErrorGroup
  <2>2. tx[t].ref \in Ref /\ tx[t].pc = "upsert" /\ tx' = [tx EXCEPT ![t] = Idle]
    BY <1>3 DEF UpsertErrorGroup, RowTypeOK, Idle
  <2>3. group'.ref = tx[t].ref
    BY <2>1, <2>2, UpsertedRow
  <2> QED
    BY <1>3, <2>2, <2>3 DEF UpsertErrorGroup, RowTypeOK, Idle
<1>4. CASE UpdateErrorGroupStatus \/ BecomeStale
  <2>1. group # NoRow /\ group'.ref = group.ref /\ UNCHANGED <<s3, tx, retention, listedTraces>>
    BY <1>4 DEF UpdateErrorGroupStatus, AcknowledgeErrorGroup, ResolveErrorGroup, ReopenErrorGroup,
                SetStatus, BecomeStale, RowTypeOK, Rows
  <2> QED
    BY <2>1
<1>5. CASE Retention
  <2>1. CASE ListExpiringErrorGroupRefs
    BY <2>1 DEF ListExpiringErrorGroupRefs
  <2>2. CASE DeleteTraces
    BY <2>2 DEF DeleteTraces
  <2>3. CASE DeleteOldErrorGroups \/ RetentionAborts
    BY <2>3 DEF DeleteOldErrorGroups, RetentionAborts, Idle
  <2> QED
    BY <1>5, <2>1, <2>2, <2>3 DEF Retention
<1>6. CASE UNCHANGED rowVars
  BY <1>6 DEF rowVars
<1> QED
  BY <1>1, <1>2, <1>3, <1>4, <1>5, <1>6 DEF RowNext, Ingest

\* The invariant holds in every reachable state of the row.
LEMMA RowInvHolds == RowSpec => []RowInv
<1>1. RowInv /\ [RowNext]_rowVars => RowInv'
  BY RowTypeStep, SpikeStep, SnapshotStep, TraceStep DEF RowInv
<1> QED
  BY RowInitInv, <1>1, PTL DEF RowSpec

\* checkForSpikeAlert's "only alert once per threshold crossing", for any
\* number of concurrent transactions and any threshold.
THEOREM SpikesAlertOnce == RowSpec => []OneSpikeAlertPerCrossing
<1>1. RowInv => OneSpikeAlertPerCrossing
  BY DEF RowInv, SpikeState
<1> QED
  BY RowInvHolds, <1>1, PTL

\* checkForReopenAlert: one alert for each reopening upsert, unless a status
\* change fell between a snapshot and its upsert.
THEOREM ReopeningsAlerted == RowSpec => []ReopenAlertsUnlessRaced
<1>1. RowInv => ReopenAlertsUnlessRaced
  BY DEF RowInv
<1> QED
  BY RowInvHolds, <1>1, PTL

\* A row's trace is gone only where deleteErrorGroups listed it.
THEOREM TracesKept == RowSpec => []TraceLostOnlyByRetention
<1>1. RowInv => TraceLostOnlyByRetention
  BY DEF RowInv, TraceState
<1> QED
  BY RowInvHolds, <1>1, PTL
-----------------------------------------------------------------------------
(* The ingest pool. *)

\* Every step of the pool is a step of the consumer or leaves it alone:
\* processMessage's inserts are inside one handler call of processStreams.
LEMMA IngestStepIsConsumerStep == [IngestNext]_allVars => [Next]_vars
<1> SUFFICES ASSUME [IngestNext]_allVars PROVE [Next]_vars
  OBVIOUS
<1>1. CASE PublishBatch
  BY <1>1 DEF PublishBatch, Next
<1>2. ASSUME NEW w \in Worker, Consume(w) PROVE [Next]_vars
  BY <1>2 DEF Consume, Next, Step
<1>3. ASSUME NEW w \in Worker, ProcessMessage(w) PROVE [Next]_vars
  BY <1>3 DEF ProcessMessage, RejectMalformed, StoreRow, RowFails, NoProfilerEvents,
              ListPerfBudgets, ListPerfBudgetsFails, InsertBudgetSample,
              InsertBudgetSampleFails, Publish, PublishFails, BatchProcessed, Finish, Next, Step
<1>4. ASSUME NEW c \in Budget, EditBudget(c) PROVE [Next]_vars
  BY <1>4 DEF EditBudget, CreatePerfBudget, UpdatePerfBudget, DeletePerfBudget, Edit
<1>5. CASE IngestCrash
  BY <1>5 DEF IngestCrash, Next
<1>6. CASE UNCHANGED allVars
  BY <1>6 DEF allVars
<1> QED
  BY <1>1, <1>2, <1>3, <1>4, <1>5, <1>6 DEF IngestNext

\* The ingest worker implements the generic consumer: whatever the inserts of
\* processMessage come to, it reads, handles and acknowledges as
\* processStreams does.
THEOREM IngestPoolIsConsumer == IngestSpec => Spec
<1>1. IngestInit => Init
  BY DEF IngestInit
<1> QED
  BY <1>1, IngestStepIsConsumerStep, PTL DEF IngestSpec, Spec

\* So the inductive invariant of the consumer holds of the ingest pool: one
\* goroutine per message, and no message handled twice.
LEMMA IngestConsumerInv == IngestSpec => []IInv
BY IngestPoolIsConsumer, InvHolds, PTL

\* The message of a handler that runs: not handled so far.
LEMMA CurrentInHandler ==
    ASSUME IInv, NEW w \in Worker, pc[w] = "handle"
    PROVE  Current(w) \in inbox[w] /\ Current(w) \in Id /\ handled[Current(w)] = 0
BY CurrentIsOldest DEF IInv, TypeOK, LoopState, HandledState

BudgetRow == [threshold : Threshold, active : BOOLEAN]
Listing == [budget : Budget, threshold : Threshold]

\* Types of processMessage's local variables and of the budgets table.
IngestTypeOK ==
    /\ batch \in [Id -> Batch \cup {Malformed}]
    /\ phase \in [Worker -> {"rows", "samples"}]
    /\ row \in [Worker -> Nat \ {0}]
    /\ todo \in [Worker -> SUBSET Listing]
    /\ breaches \in [Worker -> SUBSET Listing]
    /\ budgets \in [Budget -> {NoBudget, Deleted} \cup BudgetRow]

\* The handler of w has dealt with the rows before row[w]; it goes on to the
\* budgets after the last row.
RowsSoFar(w) ==
    /\ pc[w] # "handle" => phase[w] = "rows" /\ row[w] = 1
    /\ phase[w] = "rows" => todo[w] = {} /\ breaches[w] = {}
    /\ pc[w] = "handle" =>
          /\ B(w) = Malformed => row[w] = 1 /\ phase[w] = "rows"
          /\ \A i \in 1..(row[w] - 1) : <<Current(w), i>> \in stored \cup logged
          /\ phase[w] = "samples" => row[w] > RowCount(B(w))

\* Unless a user edited the budget meanwhile, what the handler of w listed is
\* so still, and a breach has its sample.
ListingHolds(w) ==
    phase[w] = "samples" =>
       /\ \A s \in todo[w] \cup breaches[w] :
             \/ <<Current(w), s.budget>> \in raced
             \/ budgets[s.budget] = [threshold |-> s.threshold, active |-> TRUE]
       /\ \A s \in breaches[w] :
             \/ <<Current(w), s.budget>> \in raced
             \/ <<Current(w), s.budget>> \in samples

IngestInv ==
    /\ IngestTypeOK
    /\ \A w \in Worker : RowsSoFar(w) /\ ListingHolds(w)
    /\ RowsAccountedFor

\* What a batch consists of can be counted.
LEMMA RowCountNat == \A b \in Batch : RowCount(b) \in Nat
<1> SUFFICES ASSUME NEW b \in Batch PROVE RowCount(b) \in Nat
  OBVIOUS
<1>1. b.rows \in Nat
  BY IngestAssumption
<1> QED
  BY <1>1 DEF RowCount

\* A handler is not disturbed by what others do, as long as nothing of what
\* it relies on goes away.
LEMMA OthersUndisturbed ==
    ASSUME NEW v \in Worker, RowsSoFar(v), UNCHANGED batch,
           pc'[v] = pc[v], inbox'[v] = inbox[v], phase'[v] = phase[v], row'[v] = row[v],
           todo'[v] = todo[v], breaches'[v] = breaches[v],
           stored \subseteq stored', logged \subseteq logged'
    PROVE  /\ RowsSoFar(v)' /\ Current(v)' = Current(v)
           /\ UNCHANGED budgets /\ samples \subseteq samples' /\ raced \subseteq raced' /\ ListingHolds(v)
                 => ListingHolds(v)'
<1>1. Current(v)' = Current(v)
  BY DEF Current
<1>2. B(v)' = B(v)
  BY <1>1 DEF B
<1>3. RowsSoFar(v)'
  BY <1>1, <1>2 DEF RowsSoFar
<1> QED
  BY <1>1, <1>3 DEF ListingHolds

\* A new pool satisfies the invariant, whatever budgets exist.
LEMMA IngestInitInv == IngestInit => IngestInv
<1> SUFFICES ASSUME IngestInit PROVE IngestInv
  OBVIOUS
<1>1. IngestTypeOK
  <2>1. \A b \in [threshold : Threshold, active : {TRUE}] : b \in BudgetRow
    BY DEF BudgetRow
  <2>2. budgets \in [Budget -> {NoBudget, Deleted} \cup BudgetRow]
    BY <2>1, Zenon DEF IngestInit
  <2>3. 1 \in Nat \ {0}
    OBVIOUS
  <2> QED
    BY <2>2, <2>3 DEF IngestInit, IngestTypeOK
<1>2. \A w \in Worker : RowsSoFar(w) /\ ListingHolds(w)
  BY DEF IngestInit, Init, RowsSoFar, ListingHolds
<1>3. RowsAccountedFor
  BY DEF IngestInit, Init, RowsAccountedFor
<1> QED
  BY <1>1, <1>2, <1>3 DEF IngestInv

\* processMessage keeps the types: what it lists are budgets of the table.
LEMMA IngestTypeStep == IInv /\ IngestTypeOK /\ [IngestNext]_allVars => IngestTypeOK'
<1> SUFFICES ASSUME IInv, IngestTypeOK, [IngestNext]_allVars PROVE IngestTypeOK'
  OBVIOUS
<1> USE DEF IngestTypeOK
<1>1. CASE PublishBatch \/ UNCHANGED allVars
  BY <1>1 DEF PublishBatch, allVars, ingestVars, handlerVars, budgetVars
<1>2. ASSUME NEW w \in Worker, Consume(w) PROVE IngestTypeOK'
  BY <1>2 DEF Consume, ingestVars, handlerVars, budgetVars
<1>3. ASSUME NEW w \in Worker, ProcessMessage(w) PROVE IngestTypeOK'
  <2>1. CASE RejectMalformed(w)
    BY <2>1 DEF RejectMalformed, ingestVars, handlerVars, budgetVars
  <2>2. CASE StoreRow(w) \/ RowFails(w)
    BY <2>2 DEF StoreRow, RowFails, budgetVars
  <2>3. CASE NoProfilerEvents(w) \/ ListPerfBudgetsFails(w) \/ BatchProcessed(w)
    BY <2>3 DEF NoProfilerEvents, ListPerfBudgetsFails, BatchProcessed, Finish, budgetVars
  <2>4. CASE ListPerfBudgets(w)
    <3>1. \A b : Measured(b) \in SUBSET Listing
      BY DEF Measured, ActiveBudgets, Listing, BudgetRow
    <3> QED
      BY <2>4, <3>1 DEF ListPerfBudgets, budgetVars
  <2>5. ASSUME NEW s \in todo[w], InsertBudgetSample(w, s) \/ InsertBudgetSampleFails(w, s)
        PROVE  IngestTypeOK'
    BY <2>5 DEF InsertBudgetSample, InsertBudgetSampleFails, budgetVars
  <2>6. ASSUME NEW s \in breaches[w], Publish(w, s) \/ PublishFails(w, s) PROVE IngestTypeOK'
    BY <2>6 DEF Publish, PublishFails, budgetVars
  <2> QED
    BY <1>3, <2>1, <2>2, <2>3, <2>4, <2>5, <2>6 DEF ProcessMessage
<1>4. ASSUME NEW c \in Budget, EditBudget(c) PROVE IngestTypeOK'
  <2>1. UNCHANGED <<batch, phase, row, todo, breaches>>
    BY <1>4 DEF EditBudget, CreatePerfBudget, UpdatePerfBudget, DeletePerfBudget, Edit, handlerVars
  <2>2. \A t \in Threshold, active \in BOOLEAN : [threshold |-> t, active |-> active] \in BudgetRow
    BY DEF BudgetRow
  <2>3. budgets' \in [Budget -> {NoBudget, Deleted} \cup BudgetRow]
    BY <1>4, <2>2, ZenonT(60) DEF EditBudget, CreatePerfBudget, UpdatePerfBudget, DeletePerfBudget
  <2> QED
    BY <2>1, <2>3
<1>5. CASE IngestCrash
  BY <1>5 DEF IngestCrash, budgetVars
<1> QED
  BY <1>1, <1>2, <1>3, <1>4, <1>5 DEF IngestNext

\* processMessage keeps the books: a row is stored or logged before the next
\* one, and the handler returns nil after the last.
LEMMA ProcessMessageInv ==
    ASSUME IInv, IngestInv, NEW w \in Worker, ProcessMessage(w), IngestTypeOK'
    PROVE  IngestInv'
<1> DEFINE c == Current(w)
<1>0. pc[w] = "handle" /\ c \in Id /\ c \in inbox[w] /\ handled[c] = 0
  <2>1. pc[w] = "handle"
    BY DEF ProcessMessage, RejectMalformed, StoreRow, RowFails, NoProfilerEvents, ListPerfBudgets,
           ListPerfBudgetsFails, InsertBudgetSample, InsertBudgetSampleFails, Publish,
           PublishFails, BatchProcessed, AtRow, AfterRows, In
  <2> QED
    BY <2>1, CurrentInHandler
<1>1. /\ batch' = batch /\ stored \subseteq stored' /\ logged \subseteq logged'
      /\ UNCHANGED <<budgets, raced>> /\ samples \subseteq samples'
      /\ \A v \in Worker : v # w => /\ pc'[v] = pc[v] /\ inbox'[v] = inbox[v]
                                     /\ phase'[v] = phase[v] /\ row'[v] = row[v]
                                     /\ todo'[v] = todo[v] /\ breaches'[v] = breaches[v]
  BY DEF ProcessMessage, RejectMalformed, StoreRow, RowFails, NoProfilerEvents, ListPerfBudgets,
         ListPerfBudgetsFails, InsertBudgetSample, InsertBudgetSampleFails, Publish, PublishFails,
         BatchProcessed, Finish, HandlerOk, HandlerError, Advance, vars, ingestVars, handlerVars,
         budgetVars, IInv, TypeOK, IngestInv, IngestTypeOK
<1>2. \A v \in Worker : v # w => RowsSoFar(v)' /\ ListingHolds(v)'
  BY <1>1, OthersUndisturbed DEF IngestInv
<1>3. /\ RowsSoFar(w) /\ ListingHolds(w) /\ IngestTypeOK /\ RowsAccountedFor
      /\ batch[c] # Malformed => RowCount(batch[c]) \in Nat
  BY <1>0, RowCountNat DEF IngestInv, IngestTypeOK
<1>4. ASSUME UNCHANGED handled PROVE RowsAccountedFor'
  BY <1>1, <1>3, <1>4 DEF RowsAccountedFor
<1>5. ASSUME Finish(w), batch[c] # Malformed, row[w] > RowCount(batch[c]),
             todo'[w] = todo[w], breaches'[w] = breaches[w], todo[w] = {}, breaches[w] = {}
      PROVE  RowsSoFar(w)' /\ ListingHolds(w)' /\ RowsAccountedFor'
  <2>1. /\ handled' = [handled EXCEPT ![c] = @ + 1] /\ pc' = [pc EXCEPT ![w] = "ack"]
        /\ phase' = [phase EXCEPT ![w] = "rows"] /\ row' = [row EXCEPT ![w] = 1]
    BY <1>5 DEF Finish, HandlerOk
  <2>2. pc'[w] = "ack" /\ phase'[w] = "rows" /\ row'[w] = 1
    BY <2>1 DEF IngestTypeOK, IngestInv, IInv, TypeOK
  <2>3. RowsSoFar(w)' /\ ListingHolds(w)'
    BY <2>2, <1>5 DEF RowsSoFar, ListingHolds
  <2>4. \A i \in 1..RowCount(batch[c]) : <<c, i>> \in stored \cup logged
    <3>1. row[w] \in Nat /\ 1..RowCount(batch[c]) \subseteq 1..(row[w] - 1)
      BY <1>3, <1>5 DEF IngestTypeOK
    <3> QED
      BY <3>1, <1>0, <1>3 DEF RowsSoFar
  <2>5. RowsAccountedFor'
    <3> SUFFICES ASSUME NEW m \in Id, handled'[m] = 1, NEW i \in 1..RowCount(batch[m])
                 PROVE  <<m, i>> \in stored' \cup logged'
      BY <1>1 DEF RowsAccountedFor
    <3>1. CASE m = c
      BY <3>1, <2>4, <1>1
    <3>2. CASE m # c
      BY <3>2, <2>1, <1>1, <1>3 DEF RowsAccountedFor, IInv, TypeOK
    <3> QED
      BY <3>1, <3>2
  <2> QED
    BY <2>3, <2>5
<1>6. SUFFICES RowsSoFar(w)' /\ ListingHolds(w)' /\ RowsAccountedFor'
  BY <1>2 DEF IngestInv
<1>7. CASE RejectMalformed(w)
  <2>1. /\ phase[w] = "rows" /\ batch[c] = Malformed /\ UNCHANGED <<ingestVars, handled>>
        /\ pc' = [pc EXCEPT ![w] = IF inbox[w] = {c} THEN "read" ELSE "handle"]
    BY <1>7 DEF RejectMalformed, In, B, HandlerError, Advance
  <2>2. row[w] = 1
    BY <2>1, <1>0, <1>3 DEF RowsSoFar, B
  <2>3. RowsSoFar(w)' /\ ListingHolds(w)'
    BY <2>1, <2>2, <1>3 DEF RowsSoFar, ListingHolds, ingestVars, handlerVars
  <2> QED
    BY <2>1, <2>3, <1>4
<1>8. CASE StoreRow(w) \/ RowFails(w)
  <2>1. /\ phase[w] = "rows" /\ batch[c] # Malformed /\ UNCHANGED <<vars, phase, todo, breaches>>
        /\ row' = [row EXCEPT ![w] = @ + 1]
        /\ stored' \cup logged' = stored \cup logged \cup {<<c, row[w]>>}
    BY <1>8 DEF StoreRow, RowFails, AtRow, In, B
  <2>2. Current(w)' = c /\ B(w)' = batch[c] /\ pc'[w] = "handle" /\ handled' = handled
    BY <2>1, <1>0, <1>1 DEF Current, B, vars
  <2>3. row[w] \in Nat /\ row'[w] = row[w] + 1
    BY <2>1, <1>3 DEF IngestTypeOK
  <2>4. \A i \in 1..(row'[w] - 1) : <<c, i>> \in stored' \cup logged'
    <3>1. \A i \in 1..(row'[w] - 1) : i = row[w] \/ i \in 1..(row[w] - 1)
      BY <2>3
    <3> QED
      BY <3>1, <2>1, <1>0, <1>3 DEF RowsSoFar
  <2>5. RowsSoFar(w)' /\ ListingHolds(w)'
    BY <2>1, <2>2, <2>4, <1>3 DEF RowsSoFar, ListingHolds
  <2> QED
    BY <2>2, <2>5, <1>4
<1>9. CASE NoProfilerEvents(w) \/ ListPerfBudgetsFails(w)
  BY <1>9, <1>5, <1>3 DEF NoProfilerEvents, ListPerfBudgetsFails, AfterRows, In, B, RowsSoFar
<1>10. CASE BatchProcessed(w)
  BY <1>10, <1>5, <1>3, <1>0 DEF BatchProcessed, In, B, RowsSoFar
<1>11. CASE ListPerfBudgets(w)
  <2>1. /\ phase[w] = "rows" /\ batch[c] # Malformed /\ row[w] > RowCount(batch[c])
        /\ UNCHANGED <<vars, row, breaches>>
        /\ todo' = [todo EXCEPT ![w] = Measured(batch[c])]
        /\ phase' = [phase EXCEPT ![w] = "samples"]
    BY <1>11 DEF ListPerfBudgets, AfterRows, In, B
  <2>2. Current(w)' = c /\ B(w)' = batch[c] /\ pc'[w] = "handle" /\ handled' = handled
    BY <2>1, <1>0, <1>1 DEF Current, B, vars
  <2>3. phase'[w] = "samples" /\ todo'[w] = Measured(batch[c]) /\ breaches'[w] = {} /\ row'[w] = row[w]
    BY <2>1, <1>3 DEF IngestTypeOK, RowsSoFar
  <2>4. \A s \in Measured(batch[c]) : budgets[s.budget] = [threshold |-> s.threshold, active |-> TRUE]
    <3> SUFFICES ASSUME NEW d \in ActiveBudgets
                 PROVE  budgets[d] = [threshold |-> budgets[d].threshold, active |-> TRUE]
      BY DEF Measured
    <3>1. budgets[d] \in BudgetRow /\ budgets[d].active
      BY <1>3 DEF ActiveBudgets, IngestTypeOK
    <3>2. budgets[d].active = TRUE
      BY <3>1 DEF BudgetRow
    <3> QED
      BY <3>1, <3>2 DEF BudgetRow
  <2>5. RowsSoFar(w)'
    BY <2>1, <2>2, <2>3, <1>0, <1>1, <1>3 DEF RowsSoFar
  <2>6. ListingHolds(w)'
    BY <2>3, <2>4, <1>1 DEF ListingHolds
  <2> QED
    BY <2>2, <2>5, <2>6, <1>4
<1>12. ASSUME phase[w] = "samples", UNCHANGED <<vars, phase, row>>, todo'[w] \subseteq todo[w],
              \A s \in breaches'[w] :
                 s \in breaches[w] \/ (s \in todo[w] /\ <<c, s.budget>> \in samples')
       PROVE  RowsSoFar(w)' /\ ListingHolds(w)' /\ RowsAccountedFor'
  <2>1. Current(w)' = c /\ B(w)' = batch[c] /\ pc'[w] = "handle" /\ handled' = handled
    BY <1>12, <1>0, <1>1 DEF Current, B, vars
  <2>2. RowsSoFar(w)'
    BY <1>12, <2>1, <1>0, <1>1, <1>3 DEF RowsSoFar, B
  <2>3. ListingHolds(w)'
    BY <1>12, <2>1, <1>1, <1>3 DEF ListingHolds
  <2> QED
    BY <2>1, <2>2, <2>3, <1>4
<1>13. ASSUME NEW s \in todo[w], InsertBudgetSample(w, s)
       PROVE  RowsSoFar(w)' /\ ListingHolds(w)' /\ RowsAccountedFor'
  <2>1. PICK exceeded \in Exceeded(B(w), s) :
          breaches' = [breaches EXCEPT ![w] = IF exceeded THEN @ \cup {s} ELSE @]
    BY <1>13 DEF InsertBudgetSample
  <2>2. \A x \in breaches'[w] : x \in breaches[w] \/ x = s
    BY <2>1, <1>3 DEF IngestTypeOK
  <2>3. /\ phase[w] = "samples" /\ UNCHANGED <<vars, phase, row>>
        /\ samples' = samples \cup {<<c, s.budget>>} /\ todo' = [todo EXCEPT ![w] = @ \ {s}]
    BY <1>13 DEF InsertBudgetSample, In
  <2>4. todo'[w] \subseteq todo[w]
    BY <2>3, <1>3 DEF IngestTypeOK
  <2> QED
    BY <2>2, <2>3, <2>4, <1>12
<1>14. ASSUME NEW s, InsertBudgetSampleFails(w, s) \/ Publish(w, s) \/ PublishFails(w, s)
       PROVE  RowsSoFar(w)' /\ ListingHolds(w)' /\ RowsAccountedFor'
  <2>1. phase[w] = "samples" /\ UNCHANGED <<vars, phase, row>>
    BY <1>14 DEF InsertBudgetSampleFails, Publish, PublishFails, In
  <2>2. todo'[w] \subseteq todo[w] /\ breaches'[w] \subseteq breaches[w]
    BY <1>14, <1>3 DEF InsertBudgetSampleFails, Publish, PublishFails, IngestTypeOK
  <2> QED
    BY <2>1, <2>2, <1>12
<1> QED
  BY <1>7, <1>8, <1>9, <1>10, <1>11, <1>13, <1>14 DEF ProcessMessage

\* Every step of the pool and of the users keeps the invariant: an edit of a
\* budget marks every handler that listed it as raced.
LEMMA IngestStepInv == IInv /\ IngestInv /\ [IngestNext]_allVars => IngestInv'
<1> SUFFICES ASSUME IInv, IngestInv, [IngestNext]_allVars PROVE IngestInv'
  OBVIOUS
<1>0. IngestTypeOK' /\ IngestTypeOK
  BY IngestTypeStep DEF IngestInv
<1>1. CASE PublishBatch \/ UNCHANGED allVars
  <2>1. UNCHANGED <<ingestVars, pc, inbox, handled>>
    BY <1>1 DEF PublishBatch, XAdd, allVars, vars
  <2>2. \A v \in Worker : RowsSoFar(v)' /\ ListingHolds(v)'
    BY <2>1, OthersUndisturbed DEF IngestInv, ingestVars, handlerVars, budgetVars
  <2>3. RowsAccountedFor'
    BY <2>1 DEF IngestInv, RowsAccountedFor, ingestVars
  <2> QED
    BY <1>0, <2>2, <2>3 DEF IngestInv
<1>2. ASSUME NEW w \in Worker, Consume(w) PROVE IngestInv'
  <2>1. UNCHANGED <<ingestVars, handled>> /\ pc[w] # "handle"
    BY <1>2 DEF Consume, XReadGroup, XReadGroupError, XAck, XAckError
  <2>2. \A v \in Worker : v # w => pc'[v] = pc[v] /\ inbox'[v] = inbox[v]
    BY <1>2 DEF Consume, XReadGroup, XReadGroupError, XAck, XAckError, Advance, IInv, TypeOK
  <2>3. \A v \in Worker : v # w => RowsSoFar(v)' /\ ListingHolds(v)'
    BY <2>1, <2>2, OthersUndisturbed DEF IngestInv, ingestVars, handlerVars, budgetVars
  <2>4. /\ phase'[w] = "rows" /\ row'[w] = 1 /\ todo'[w] = {} /\ breaches'[w] = {}
    BY <2>1 DEF IngestInv, RowsSoFar, ingestVars, handlerVars
  <2>5. RowsSoFar(w)' /\ ListingHolds(w)'
    BY <2>4 DEF RowsSoFar, ListingHolds
  <2>6. RowsAccountedFor'
    BY <2>1 DEF IngestInv, RowsAccountedFor, ingestVars
  <2> QED
    BY <1>0, <2>3, <2>5, <2>6 DEF IngestInv
<1>3. ASSUME NEW w \in Worker, ProcessMessage(w) PROVE IngestInv'
  BY <1>0, <1>3, ProcessMessageInv
<1>4. ASSUME NEW c \in Budget, EditBudget(c) PROVE IngestInv'
  <2>1. /\ UNCHANGED <<vars, batch, handlerVars, stored, logged>>
        /\ raced' = raced \cup {<<Current(w), c>> : w \in {v \in Worker : In(v, "samples")}}
    BY <1>4 DEF EditBudget, CreatePerfBudget, UpdatePerfBudget, DeletePerfBudget, Edit
  <2>2. /\ \A d \in Budget : d # c => budgets'[d] = budgets[d]
        /\ \A x \in samples : x[2] # c => x \in samples'
    BY <1>0, <1>4 DEF EditBudget, CreatePerfBudget, UpdatePerfBudget, DeletePerfBudget, IngestTypeOK
  <2>3. ASSUME NEW v \in Worker PROVE RowsSoFar(v)' /\ ListingHolds(v)'
    <3>1. RowsSoFar(v)' /\ Current(v)' = Current(v)
      BY <2>1, OthersUndisturbed DEF IngestInv, vars, handlerVars
    <3> SUFFICES ASSUME phase[v] = "samples" PROVE ListingHolds(v)'
      BY <2>1, <3>1 DEF ListingHolds, handlerVars
    <3>2. In(v, "samples")
      BY DEF IngestInv, RowsSoFar, In
    <3>3. <<Current(v), c>> \in raced' /\ raced \subseteq raced'
      BY <3>2, <2>1
    <3>4. /\ todo[v] \cup breaches[v] \subseteq Listing
          /\ UNCHANGED <<todo, breaches>>
      BY <1>0, <2>1 DEF IngestTypeOK, handlerVars
    <3>5. \A s \in todo[v] \cup breaches[v] : s.budget \in Budget
      BY <3>4 DEF Listing
    <3>6. ListingHolds(v)
      BY DEF IngestInv
    <3>7. \A s \in todo[v] \cup breaches[v] :
             \/ <<Current(v), s.budget>> \in raced'
             \/ budgets'[s.budget] = [threshold |-> s.threshold, active |-> TRUE]
      BY <3>3, <3>5, <3>6, <2>2 DEF ListingHolds
    <3>8. \A s \in breaches[v] :
             \/ <<Current(v), s.budget>> \in raced'
             \/ <<Current(v), s.budget>> \in samples'
      BY <3>3, <3>6, <2>2 DEF ListingHolds
    <3> QED
      BY <3>1, <3>4, <3>7, <3>8 DEF ListingHolds
  <2>4. RowsAccountedFor'
    BY <2>1 DEF IngestInv, RowsAccountedFor, vars
  <2> QED
    BY <1>0, <2>3, <2>4 DEF IngestInv
<1>5. CASE IngestCrash
  <2>1. \A v \in Worker : /\ pc'[v] = "read" /\ phase'[v] = "rows" /\ row'[v] = 1
                          /\ todo'[v] = {} /\ breaches'[v] = {}
    BY <1>5 DEF IngestCrash, Crash
  <2>2. \A v \in Worker : RowsSoFar(v)' /\ ListingHolds(v)'
    BY <2>1 DEF RowsSoFar, ListingHolds
  <2>3. RowsAccountedFor'
    BY <1>5 DEF IngestCrash, Crash, IngestInv, RowsAccountedFor
  <2> QED
    BY <1>0, <2>2, <2>3 DEF IngestInv
<1> QED
  BY <1>1, <1>2, <1>3, <1>4, <1>5 DEF IngestNext

\* Both invariants hold in every reachable state of the pool.
LEMMA IngestInvHolds == IngestSpec => [](IInv /\ IngestInv)
<1>1. IInv /\ IngestInv /\ [IngestNext]_allVars => IngestInv'
  BY IngestStepInv
<1> QED
  BY <1>1, IngestInitInv, IngestConsumerInv, PTL DEF IngestSpec

\* No row of a handled batch is lost without a log entry, for any pool, any
\* batches and any failures: "don't fail the whole batch for one event"
\* (processErrorEvents, processORMStats).
THEOREM NoRowLostSilently == IngestSpec => []RowsAccountedFor
<1>1. IngestInv => RowsAccountedFor
  BY DEF IngestInv
<1> QED
  BY <1>1, IngestInvHolds, PTL

\* publishThresholdBreaches announces a breach only of a budget that is as
\* announced and has its sample, unless a user edited the budget meanwhile.
THEOREM BreachesFounded == IngestSpec => BreachIsFounded
<1> DEFINE Founded(p) == \/ <<p.msg, p.budget>> \in raced
                         \/ /\ budgets[p.budget] = [threshold |-> p.threshold, active |-> TRUE]
                            /\ <<p.msg, p.budget>> \in samples
<1>1. IngestInv /\ [IngestNext]_allVars => [\A p \in published' \ published : Founded(p)]_allVars
  <2> SUFFICES ASSUME IngestInv, IngestNext, NEW p \in published' \ published PROVE Founded(p)
    OBVIOUS
  <2>1. PICK w \in Worker : \E s \in breaches[w] : Publish(w, s)
    BY DEF IngestNext, PublishBatch, Consume, ProcessMessage, RejectMalformed, StoreRow, RowFails,
           NoProfilerEvents, ListPerfBudgets, ListPerfBudgetsFails, InsertBudgetSample,
           InsertBudgetSampleFails, PublishFails, BatchProcessed, EditBudget, CreatePerfBudget,
           UpdatePerfBudget, DeletePerfBudget, Edit, IngestCrash, ingestVars
  <2>2. PICK s \in breaches[w] : p = Announcement(w, s) /\ phase[w] = "samples"
    BY <2>1 DEF Publish, In
  <2>3. p.msg = Current(w) /\ p.budget = s.budget /\ p.threshold = s.threshold
    BY <2>2 DEF Announcement
  <2> QED
    BY <2>1, <2>2, <2>3 DEF IngestInv, ListingHolds
<1> QED
  BY <1>1, IngestInvHolds, PTL DEF IngestSpec, BreachIsFounded
-----------------------------------------------------------------------------
(* The sums of milliseconds of aggregateModuleStats. *)

\* Induction over the natural numbers, by the least number outside S.
LEMMA SetInduction ==
    ASSUME NEW S, 0 \in S, \A n \in Nat : n \in S => n + 1 \in S
    PROVE  Nat \subseteq S
<1> DEFINE missing == {n \in Nat : n \notin S}
<1>1. SUFFICES ASSUME missing # {} PROVE FALSE
  OBVIOUS
<1>2. missing \in SUBSET Nat
  OBVIOUS
<1>3. PICK m \in missing : \A n \in missing : ~(<<n, m>> \in OpToRel(<, Nat))
  BY <1>1, <1>2, NatLessThanWellFounded, WFMin, Zenon
<1>4. \A n \in missing : ~(n < m)
  BY <1>2, <1>3 DEF OpToRel
<1>5. m \in Nat /\ m \notin S /\ m # 0
  OBVIOUS
<1>6. m - 1 \in Nat /\ m - 1 < m /\ (m - 1) + 1 = m
  BY <1>5
<1>7. m - 1 \in S
  BY <1>4, <1>6
<1> QED
  BY <1>5, <1>6, <1>7

\* The sum of events s of batch b, given the sums of smaller sets.
SumStep(b, sums, s) ==
    IF s = {} THEN 0
    ELSE LET x == CHOOSE x \in s : TRUE IN b.events[x].ms + sums[s \ {x}]

SumOf(b, S) == MapThenSumSet(LAMBDA i : b.events[i].ms, S)

SumsUpTo(S, n) == {s \in SUBSET S : Cardinality(s) <= n}

SumsExist(b, S, n) ==
    \E sums : sums = [s \in SumsUpTo(S, n) |-> SumStep(b, sums, s)]

\* The fold is defined: the sums of larger sets follow from those of smaller.
LEMMA SumsDefined ==
    ASSUME NEW b, NEW S, IsFiniteSet(S), NEW n \in Nat
    PROVE  SumsExist(b, S, n)
<1> DEFINE R == {k \in Nat : SumsExist(b, S, k)}
<1>1. \A s \in SUBSET S : IsFiniteSet(s) /\ Cardinality(s) \in Nat
  BY FS_Subset, FS_CardinalityType
<1>2. SumsExist(b, S, 0)
  <2> DEFINE sums == [s \in SumsUpTo(S, 0) |-> 0]
  <2>1. \A s \in SumsUpTo(S, 0) : s = {}
    BY <1>1, FS_EmptySet DEF SumsUpTo
  <2>2. \A s \in SumsUpTo(S, 0) : SumStep(b, sums, s) = 0
    BY <2>1 DEF SumStep
  <2> HIDE DEF SumsUpTo, SumStep
  <2>3. sums = [s \in SumsUpTo(S, 0) |-> SumStep(b, sums, s)]
    BY <2>2
  <2> QED
    BY <2>3 DEF SumsExist
<1>3. ASSUME NEW k \in Nat, SumsExist(b, S, k)
      PROVE  SumsExist(b, S, k + 1)
  <2>1. PICK old : old = [s \in SumsUpTo(S, k) |-> SumStep(b, old, s)]
    BY <1>3 DEF SumsExist
  <2> DEFINE sums == [s \in SumsUpTo(S, k + 1) |-> SumStep(b, old, s)]
  <2>2. SumsUpTo(S, k) \subseteq SumsUpTo(S, k + 1)
    BY <1>1 DEF SumsUpTo
  <2>3. \A s \in SumsUpTo(S, k) : sums[s] = old[s]
    BY <2>1, <2>2
  <2>4. ASSUME NEW s \in SumsUpTo(S, k + 1)
        PROVE  SumStep(b, old, s) = SumStep(b, sums, s)
    <3> DEFINE x == CHOOSE x \in s : TRUE
    <3>1. CASE s = {}
      BY <3>1 DEF SumStep
    <3>2. CASE s # {}
      <4>1. x \in s
        BY <3>2
      <4>2. s \in SUBSET S /\ Cardinality(s) <= k + 1
        BY <2>4 DEF SumsUpTo
      <4>3. Cardinality(s \ {x}) = Cardinality(s) - 1
        BY <1>1, <4>1, <4>2, FS_RemoveElement
      <4> HIDE DEF x
      <4>4. s \ {x} \in SumsUpTo(S, k)
        BY <1>1, <4>2, <4>3 DEF SumsUpTo
      <4>5. old[s \ {x}] = sums[s \ {x}]
        BY <2>3, <4>4
      <4> QED
        BY <3>2, <4>5 DEF SumStep, x
    <3> QED
      BY <3>1, <3>2
  <2>5. sums = [s \in SumsUpTo(S, k + 1) |-> SumStep(b, sums, s)]
    BY <2>4
  <2> QED
    BY <2>5 DEF SumsExist
<1>4. 0 \in R /\ \A k \in Nat : k \in R => k + 1 \in R
  BY <1>2, <1>3
<1>5. n \in R
  <2> HIDE DEF R
  <2> QED
    BY <1>4, SetInduction
<1> QED
  BY <1>5

\* A sum of numbers is a number.
LEMMA SumIsNumber ==
    ASSUME NEW b, NEW S, IsFiniteSet(S), \A i \in S : b.events[i].ms \in Int
    PROVE  SumOf(b, S) \in Int
<1> DEFINE IsSum(f) == f = [s \in SUBSET S |-> SumStep(b, f, s)]
           sums == CHOOSE f : IsSum(f)
           R == {k \in Nat : \A s \in SumsUpTo(S, k) : sums[s] \in Int}
<1>1. \A s \in SUBSET S : IsFiniteSet(s) /\ Cardinality(s) \in Nat
  BY FS_Subset, FS_CardinalityType
<1>2. SumsUpTo(S, Cardinality(S)) = SUBSET S /\ Cardinality(S) \in Nat
  BY FS_Subset, FS_CardinalityType DEF SumsUpTo
<1>3. \E f : IsSum(f)
  <2>1. SumsExist(b, S, Cardinality(S))
    BY <1>2, SumsDefined
  <2> QED
    BY <1>2, <2>1 DEF SumsExist
<1>4. IsSum(sums)
  <2> HIDE DEF IsSum
  <2> QED
    BY <1>3
<1>5. SumOf(b, S) = sums[S]
  BY DEF SumOf, MapThenSumSet, MapThenFoldSet, SumStep
<1> HIDE DEF sums
<1>6. \A s \in SUBSET S : sums[s] = SumStep(b, sums, s)
  BY <1>4
<1>7. 0 \in R
  <2>1. \A s \in SumsUpTo(S, 0) : s \in SUBSET S /\ s = {}
    BY <1>1, FS_EmptySet DEF SumsUpTo
  <2>2. \A s \in SumsUpTo(S, 0) : sums[s] = 0
    BY <1>6, <2>1 DEF SumStep
  <2> QED
    BY <2>2
<1>8. ASSUME NEW k \in Nat, k \in R
      PROVE  k + 1 \in R
  <2> SUFFICES ASSUME NEW s \in SumsUpTo(S, k + 1)
               PROVE  sums[s] \in Int
    OBVIOUS
  <2> DEFINE x == CHOOSE x \in s : TRUE
  <2>1. s \in SUBSET S /\ Cardinality(s) <= k + 1
    BY DEF SumsUpTo
  <2>2. CASE s = {}
    <3>1. sums[s] = SumStep(b, sums, s)
      BY <1>6, <2>1
    <3>2. SumStep(b, sums, s) = 0
      BY <2>2 DEF SumStep
    <3> QED
      BY <3>1, <3>2
  <2>3. CASE s # {}
    <3>1. x \in s
      BY <2>3
    <3>2. Cardinality(s \ {x}) = Cardinality(s) - 1
      BY <1>1, <2>1, <3>1, FS_RemoveElement
    <3>3. sums[s] = b.events[x].ms + sums[s \ {x}]
      BY <1>6, <2>1, <2>3 DEF SumStep
    <3> HIDE DEF x
    <3>4. s \ {x} \in SumsUpTo(S, k)
      BY <1>1, <2>1, <3>2 DEF SumsUpTo
    <3>5. sums[s \ {x}] \in Int
      BY <1>8, <3>4
    <3>6. b.events[x].ms \in Int
      BY <2>1, <3>1
    <3> QED
      BY <3>3, <3>5, <3>6
  <2> QED
    BY <2>2, <2>3
<1>9. Cardinality(S) \in R
  <2> HIDE DEF R
  <2> QED
    BY <1>2, <1>7, <1>8, SetInduction
<1> QED
  BY <1>2, <1>5, <1>9

LEMMA SumsAreNumbers ==
    ASSUME NEW b \in Batch, NEW mod
    PROVE  TotalMS(b) \in Int /\ ModuleMS(b, mod) \in Int
<1>1. b.events \in Seq({b.events[i] : i \in DOMAIN b.events})
  BY IngestAssumption
<1>2. \A i \in DOMAIN b.events : b.events[i].ms \in Int
  BY IngestAssumption
<1>3. IsFiniteSet(DOMAIN b.events)
  <2>1. DOMAIN b.events = 1..Len(b.events) /\ Len(b.events) \in Nat
    BY <1>1
  <2>2. IsFiniteSet(1..Len(b.events))
    BY <2>1, FS_Interval
  <2> QED
    BY <2>1, <2>2
<1>4. IsFiniteSet(EventsOf(b, mod)) /\ EventsOf(b, mod) \subseteq DOMAIN b.events
  BY <1>3, FS_Subset DEF EventsOf
<1>5. SumOf(b, DOMAIN b.events) \in Int
  BY <1>2, <1>3, SumIsNumber
<1>6. SumOf(b, EventsOf(b, mod)) \in Int
  <2>1. \A i \in EventsOf(b, mod) : b.events[i].ms \in Int
    BY <1>2, <1>4
  <2> QED
    BY <1>4, <2>1, SumIsNumber
<1>7. TotalMS(b) = SumOf(b, DOMAIN b.events)
  BY DEF TotalMS, SumOf, MapThenSumSet, MapThenFoldSet
<1>8. ModuleMS(b, mod) = SumOf(b, EventsOf(b, mod))
  BY DEF ModuleMS, SumOf, MapThenSumSet, MapThenFoldSet
<1> QED
  BY <1>5, <1>6, <1>7, <1>8

-----------------------------------------------------------------------------
(* Every exceeded budget is announced or logged. *)

Over(m, s) == ModuleMS(batch[m], ModuleOf[s.budget]) * 100 > s.threshold * TotalMS(batch[m])

Settled(m, s) ==
    \/ [msg |-> m, budget |-> s.budget, threshold |-> s.threshold] \in published
    \/ <<m, s.budget>> \in logged

\* Budgets are listed for a message by its one handler, after its rows.
ListedState ==
    /\ listed \in [Id -> SUBSET Listing]
    /\ \A m \in Id : delivered < m => listed[m] = {}
    /\ \A w \in Worker : \A m \in inbox[w] :
          listed[m] # {} => m = Current(w) /\ (phase[w] = "samples" \/ pc[w] = "ack")

\* What the handler of w has not settled yet it still has on a list.
OnItsWay(w) ==
    phase[w] = "samples" =>
       \A s \in listed[Current(w)] :
          Over(Current(w), s) => s \in todo[w] \cup breaches[w] \/ Settled(Current(w), s)

BreachInv == ListedState /\ BreachAnnounced /\ \A w \in Worker : OnItsWay(w)

\* The arithmetic of CalculateOverhead: an exceeded budget is a breach, never
\* the float64 tie.
LEMMA OverIsExceeded ==
    ASSUME NEW m, batch[m] \in Batch, NEW s \in Listing, Over(m, s)
    PROVE  Exceeded(batch[m], s) = {TRUE}
<1> DEFINE part == ModuleMS(batch[m], ModuleOf[s.budget]) * 100
           bound == s.threshold * TotalMS(batch[m])
<1>1. /\ ModuleMS(batch[m], ModuleOf[s.budget]) \in Int /\ TotalMS(batch[m]) \in Int
      /\ s.threshold \in Int
  <2>1. s.budget \in Budget /\ s.threshold \in Threshold
    BY DEF Listing
  <2>2. s.threshold \in Int
    <3>1. \A t \in Threshold : t \in 1..100
      BY IngestAssumption, Zenon
    <3>2. \A t \in 1..100 : t \in Int
      OBVIOUS
    <3> QED
      BY <2>1, <3>1, <3>2, Zenon
  <2>3. ModuleMS(batch[m], ModuleOf[s.budget]) \in Int /\ TotalMS(batch[m]) \in Int
    BY <2>1, SumsAreNumbers
  <2> QED
    BY <2>2, <2>3
<1>2. part \in Int /\ bound \in Int
  BY <1>1
<1>3. part > bound
  BY DEF Over
<1>4. Exceeded(batch[m], s) = IF part = bound THEN BOOLEAN ELSE {part > bound}
  BY DEF Exceeded
<1> HIDE DEF part, bound
<1>5. part # bound /\ (part > bound) = TRUE
  BY <1>2, <1>3
<1> QED
  BY <1>4, <1>5

\* A handler that keeps its lists and its message stays on its way.
LEMMA StaysOnItsWay ==
    ASSUME NEW v \in Worker, OnItsWay(v), UNCHANGED batch, Current(v)' = Current(v),
           phase'[v] = phase[v], todo'[v] = todo[v], breaches'[v] = breaches[v],
           listed'[Current(v)] = listed[Current(v)],
           published \subseteq published', logged \subseteq logged'
    PROVE  OnItsWay(v)'
BY DEF OnItsWay, Over, Settled

\* The steps of the consumer itself: only undelivered messages come in, and
\* none of them has been listed for.
LEMMA ConsumeListed ==
    ASSUME IInv, IngestInv, ListedState, NEW w \in Worker, Consume(w)
    PROVE  ListedState'
<1>1. UNCHANGED <<listed, phase>>
  BY DEF Consume, ingestVars, handlerVars
<1>2. \A v \in Worker : v # w => /\ pc'[v] = pc[v] /\ inbox'[v] = inbox[v]
                                 /\ Current(v)' = Current(v)
  BY DEF Consume, XReadGroup, XReadGroupError, XAck, XAckError, Advance, IInv, TypeOK, Current
<1>3. CASE XReadGroup(w) \/ XReadGroupError(w)
  <2>1. /\ NextBatch # {} /\ delivered' = Newest(NextBatch) /\ pc[w] = "read"
        /\ inbox'[w] = NextBatch \/ inbox' = inbox
    BY <1>3 DEF XReadGroup, XReadGroupError, Deliver, IInv, TypeOK
  <2>2. /\ NextBatch \subseteq Id /\ delivered \in Int /\ delivered' \in Int
        /\ delivered < delivered' /\ \A m \in NextBatch : delivered < m
    <3>1. TypeOK
      BY DEF IInv
    <3>2. /\ NextBatch \in SUBSET Id /\ \A m \in NextBatch : delivered < m
          /\ Newest(NextBatch) \in NextBatch
      BY <2>1, <3>1, BatchIsNew
    <3>3. delivered \in Int /\ Id \subseteq Int
      BY <3>1 DEF TypeOK, Id
    <3> QED
      BY <2>1, <3>2, <3>3, Zenon
  <2>3. \A m \in Id : delivered' < m => listed[m] = {}
    <3>1. \A m \in Id : delivered' < m => delivered < m
      BY <2>2 DEF Id
    <3> QED
      BY <3>1 DEF ListedState
  <2>4. inbox[w] = {}
    BY <2>1 DEF IInv, LoopState
  <2>5. \A m \in inbox'[w] : listed[m] = {}
    BY <2>1, <2>2, <2>4 DEF ListedState
  <2> QED
    BY <1>1, <1>2, <2>3, <2>5 DEF ListedState
<1>4. CASE XAck(w) \/ XAckError(w)
  <2>1. pc[w] = "ack" /\ delivered' = delivered /\ inbox'[w] = inbox[w] \ {Current(w)}
    BY <1>4 DEF XAck, XAckError, Advance, groupVars, IInv, TypeOK
  <2>2. \A m \in inbox'[w] : listed[m] = {}
    BY <2>1 DEF ListedState
  <2> QED
    BY <1>1, <1>2, <2>1, <2>2 DEF ListedState
<1> QED
  BY <1>3, <1>4 DEF Consume

\* processMessage settles every exceeded budget before it returns nil.
LEMMA ProcessMessageBreachInv ==
    ASSUME IInv, IngestInv, BreachInv, NEW w \in Worker, ProcessMessage(w)
    PROVE  BreachInv'
<1> DEFINE c == Current(w)
<1>0. pc[w] = "handle" /\ c \in Id /\ c \in inbox[w] /\ handled[c] = 0
  <2>1. pc[w] = "handle"
    BY DEF ProcessMessage, RejectMalformed, StoreRow, RowFails, NoProfilerEvents, ListPerfBudgets,
           ListPerfBudgetsFails, InsertBudgetSample, InsertBudgetSampleFails, Publish,
           PublishFails, BatchProcessed, AtRow, AfterRows, In
  <2> QED
    BY <2>1, CurrentInHandler
<1>1. /\ batch' = batch /\ published \subseteq published' /\ logged \subseteq logged'
      /\ UNCHANGED delivered
      /\ \A v \in Worker : v # w => /\ pc'[v] = pc[v] /\ inbox'[v] = inbox[v]
                                    /\ phase'[v] = phase[v]
                                    /\ todo'[v] = todo[v] /\ breaches'[v] = breaches[v]
      /\ \A m \in Id : m # c => listed'[m] = listed[m]
  BY DEF ProcessMessage, RejectMalformed, StoreRow, RowFails, NoProfilerEvents, ListPerfBudgets,
         ListPerfBudgetsFails, InsertBudgetSample, InsertBudgetSampleFails, Publish, PublishFails,
         BatchProcessed, Finish, HandlerOk, HandlerError, Advance, vars, groupVars, ingestVars,
         handlerVars, IInv, TypeOK, IngestInv, IngestTypeOK, BreachInv, ListedState
<1>2. /\ IngestTypeOK /\ RowsSoFar(w) /\ ListedState /\ BreachAnnounced /\ OnItsWay(w)
      /\ c <= delivered /\ delivered \in Int
  BY <1>0 DEF IngestInv, BreachInv, IInv, OneHolder, TypeOK
<1>3. \A v \in Worker : v # w => Current(v)' = Current(v) /\ c \notin inbox[v]
  BY <1>0, <1>1 DEF Current, IInv, OneHolder
<1>4. ASSUME NEW v \in Worker, v # w PROVE OnItsWay(v)'
  <2>1. OnItsWay(v)
    BY DEF BreachInv
  <2>2. CASE phase[v] = "samples"
    <3>1. pc[v] = "handle"
      BY <2>2 DEF IngestInv, RowsSoFar
    <3>2. Current(v) \in Id /\ Current(v) # c
      BY <3>1, <1>3, <1>4, CurrentInHandler
    <3> QED
      BY <2>1, <3>2, <1>1, <1>3, <1>4, StaysOnItsWay
  <2>3. CASE phase[v] # "samples"
    BY <2>3, <1>1, <1>4 DEF OnItsWay
  <2> QED
    BY <2>2, <2>3
<1>6. ASSUME UNCHANGED handled PROVE BreachAnnounced'
  <2> SUFFICES ASSUME NEW m \in Id, handled[m] = 1, NEW s \in listed'[m], Over(m, s)
               PROVE  Settled(m, s)'
    BY <1>1, <1>6 DEF BreachAnnounced, Over, Settled
  <2>1. listed'[m] = listed[m]
    BY <1>0, <1>1
  <2>2. Settled(m, s)
    BY <2>1, <1>2 DEF BreachAnnounced, Over, Settled
  <2> QED
    BY <2>2, <1>1 DEF Settled
<1>5. ASSUME UNCHANGED listed, \A m \in inbox'[w] :
               /\ listed[m] = {} \/ (m = c /\ inbox'[w] = inbox[w])
               /\ m = c => (phase'[w] = phase[w] /\ pc'[w] = pc[w]) \/ pc'[w] = "ack"
      PROVE  ListedState'
  <2>1. \A m \in inbox'[w] : listed[m] # {} =>
            m = Current(w)' /\ (phase'[w] = "samples" \/ pc'[w] = "ack")
    <3> SUFFICES ASSUME NEW m \in inbox'[w], listed[m] # {}
                 PROVE  m = Current(w)' /\ (phase'[w] = "samples" \/ pc'[w] = "ack")
      OBVIOUS
    <3>1. m = c /\ inbox'[w] = inbox[w]
      BY <1>5
    <3>2. Current(w)' = c
      BY <3>1 DEF Current
    <3> QED
      BY <3>1, <3>2, <1>5, <1>2, <1>0 DEF ListedState
  <2> QED
    BY <2>1, <1>5, <1>1, <1>2, <1>3 DEF ListedState
<1>7. SUFFICES ListedState' /\ BreachAnnounced' /\ OnItsWay(w)'
  BY <1>4 DEF BreachInv
<1>8. CASE RejectMalformed(w)
  <2>1. /\ phase[w] = "rows" /\ UNCHANGED <<ingestVars, handled>>
        /\ inbox'[w] = inbox[w] \ {c}
    BY <1>8 DEF RejectMalformed, In, HandlerError, Advance, IInv, TypeOK
  <2>2. \A m \in inbox'[w] : listed[m] = {} /\ m # c
    BY <2>1, <1>2 DEF ListedState
  <2>3. UNCHANGED <<listed, phase>>
    BY <2>1 DEF ingestVars, handlerVars
  <2>4. OnItsWay(w)'
    BY <2>1, <2>3 DEF OnItsWay
  <2> QED
    BY <2>1, <2>2, <2>3, <2>4, <1>5, <1>6
<1>9. ASSUME UNCHANGED <<vars, phase, listed>>, phase[w] = "rows" \/ OnItsWay(w)'
      PROVE  ListedState' /\ BreachAnnounced' /\ OnItsWay(w)'
  <2>1. UNCHANGED <<pc, inbox, handled>>
    BY <1>9 DEF vars
  <2>2. \A m \in inbox[w] : listed[m] # {} => m = c
    BY <1>2 DEF ListedState
  <2>3. OnItsWay(w)'
    BY <1>9 DEF OnItsWay
  <2> QED
    BY <2>1, <2>2, <2>3, <1>5, <1>6, <1>9
<1>10. CASE StoreRow(w) \/ RowFails(w)
  BY <1>9, <1>10 DEF StoreRow, RowFails, AtRow, In
<1>11. CASE NoProfilerEvents(w) \/ ListPerfBudgetsFails(w) \/ BatchProcessed(w)
  <2>1. /\ handled' = [handled EXCEPT ![c] = @ + 1] /\ pc' = [pc EXCEPT ![w] = "ack"]
        /\ phase' = [phase EXCEPT ![w] = "rows"] /\ UNCHANGED <<inbox, listed, published, logged>>
    BY <1>11 DEF NoProfilerEvents, ListPerfBudgetsFails, BatchProcessed, Finish, HandlerOk
  <2>2. pc'[w] = "ack" /\ phase'[w] = "rows"
    BY <2>1, <1>2 DEF IngestTypeOK, IInv, TypeOK
  <2>3. OnItsWay(w)'
    BY <2>2 DEF OnItsWay
  <2>4. \A m \in inbox[w] : listed[m] # {} => m = c
    BY <1>2 DEF ListedState
  <2>5. ListedState'
    BY <2>1, <2>2, <2>4, <1>5
  <2>6. \A s \in listed[c] : Over(c, s) => Settled(c, s)
    <3>1. CASE phase[w] = "rows"
      BY <3>1, <1>0, <1>2 DEF ListedState
    <3>2. CASE phase[w] # "rows"
      <4>1. phase[w] = "samples" /\ todo[w] = {} /\ breaches[w] = {}
        BY <3>2, <1>11, <1>2 DEF NoProfilerEvents, ListPerfBudgetsFails, BatchProcessed, AfterRows, In
      <4> QED
        BY <4>1, <1>2 DEF OnItsWay
    <3> QED
      BY <3>1, <3>2
  <2>7. BreachAnnounced'
    <3> SUFFICES ASSUME NEW m \in Id, handled'[m] = 1, NEW s \in listed[m], Over(m, s)
                 PROVE  Settled(m, s)
      BY <1>1, <2>1 DEF BreachAnnounced, Over, Settled
    <3>1. CASE m = c
      BY <3>1, <2>6
    <3>2. CASE m # c
      <4>1. handled[m] = 1
        BY <3>2, <2>1 DEF IInv, TypeOK
      <4> QED
        BY <4>1, <1>2 DEF BreachAnnounced, Over, Settled
    <3> QED
      BY <3>1, <3>2
  <2> QED
    BY <2>3, <2>5, <2>7
<1>12. CASE ListPerfBudgets(w)
  <2>1. /\ UNCHANGED <<vars, breaches>>
        /\ todo' = [todo EXCEPT ![w] = Measured(batch[c])]
        /\ listed' = [listed EXCEPT ![c] = Measured(batch[c])]
        /\ phase' = [phase EXCEPT ![w] = "samples"]
    BY <1>12 DEF ListPerfBudgets, B
  <2>2. /\ phase'[w] = "samples" /\ todo'[w] = listed'[c] /\ Current(w)' = c
        /\ UNCHANGED <<pc, inbox, handled, delivered>>
    BY <2>1, <1>0, <1>2 DEF IngestTypeOK, ListedState, Current, vars
  <2>3. OnItsWay(w)'
    BY <2>2 DEF OnItsWay
  <2>4. listed' \in [Id -> SUBSET Listing]
    <3>1. \A b : Measured(b) \in SUBSET Listing
      BY <1>2 DEF IngestTypeOK, Measured, ActiveBudgets, Listing, BudgetRow
    <3> QED
      BY <2>1, <3>1, <1>2 DEF ListedState
  <2>5. \A m \in Id : delivered' < m => listed'[m] = {}
    <3>1. \A m \in Id : delivered < m => m # c
      BY <1>0, <1>2 DEF Id
    <3> QED
      BY <2>2, <3>1, <1>1, <1>2 DEF ListedState
  <2>6. \A m \in inbox[w] : m # c => listed'[m] = {}
    BY <1>1, <1>2 DEF ListedState, IInv, TypeOK
  <2>7. ASSUME NEW v \in Worker, NEW m \in inbox'[v], listed'[m] # {}
        PROVE  m = Current(v)' /\ (phase'[v] = "samples" \/ pc'[v] = "ack")
    <3>1. CASE v = w
      BY <3>1, <2>7, <2>2, <2>6
    <3>2. CASE v # w
      <4>1. m # c /\ m \in inbox[v] /\ m \in Id
        BY <3>2, <2>2, <2>7, <1>3 DEF IInv, TypeOK
      <4> QED
        BY <4>1, <3>2, <2>7, <1>1, <1>2, <1>3 DEF ListedState
    <3> QED
      BY <3>1, <3>2
  <2>8. ListedState'
    BY <2>4, <2>5, <2>7 DEF ListedState
  <2> QED
    BY <2>2, <2>3, <2>8, <1>6
<1>13. ASSUME UNCHANGED <<vars, phase, listed>>, phase[w] = "samples",
              \A x \in todo[w] \cup breaches[w] : Over(c, x) /\ x \in listed[c] =>
                 x \in todo'[w] \cup breaches'[w] \/ Settled(c, x)'
       PROVE  ListedState' /\ BreachAnnounced' /\ OnItsWay(w)'
  <2>1. Current(w)' = c
    BY <1>13 DEF Current, vars
  <2>2. \A x : (Over(c, x)' <=> Over(c, x)) /\ (Settled(c, x) => Settled(c, x)')
    BY <2>1, <1>1 DEF Over, Settled
  <2>3. OnItsWay(w)'
    BY <2>1, <2>2, <1>13, <1>2 DEF OnItsWay
  <2> QED
    BY <2>3, <1>9, <1>13
<1>14. ASSUME NEW s \in todo[w], InsertBudgetSample(w, s)
       PROVE  ListedState' /\ BreachAnnounced' /\ OnItsWay(w)'
  <2>1. PICK exceeded \in Exceeded(batch[c], s) :
          breaches' = [breaches EXCEPT ![w] = IF exceeded THEN @ \cup {s} ELSE @]
    BY <1>14 DEF InsertBudgetSample, B
  <2>2. /\ phase[w] = "samples" /\ UNCHANGED <<vars, phase, listed>>
        /\ todo' = [todo EXCEPT ![w] = @ \ {s}]
    BY <1>14 DEF InsertBudgetSample, In
  <2>3. todo'[w] = todo[w] \ {s} /\ breaches[w] \subseteq breaches'[w] /\ s \in Listing
    BY <2>1, <2>2, <1>2 DEF IngestTypeOK
  <2>4. batch[c] \in Batch
    BY <2>2, <1>0, <1>2 DEF RowsSoFar, B, IngestTypeOK
  <2>5. Over(c, s) => s \in breaches'[w]
    <3> SUFFICES ASSUME Over(c, s) PROVE s \in breaches'[w]
      OBVIOUS
    <3>1. exceeded = TRUE
      BY <2>1, <2>3, <2>4, OverIsExceeded
    <3> QED
      BY <2>1, <3>1, <1>2 DEF IngestTypeOK
  <2> QED
    BY <2>2, <2>3, <2>5, <1>13
<1>15. ASSUME NEW s \in todo[w], InsertBudgetSampleFails(w, s)
       PROVE  ListedState' /\ BreachAnnounced' /\ OnItsWay(w)'
  <2>1. /\ phase[w] = "samples" /\ UNCHANGED <<vars, phase, listed, breaches>>
        /\ todo'[w] = todo[w] \ {s} /\ <<c, s.budget>> \in logged'
    BY <1>15, <1>2 DEF InsertBudgetSampleFails, In, IngestTypeOK
  <2>2. Current(w)' = c
    BY <2>1 DEF Current, vars
  <2>3. Settled(c, s)'
    BY <2>1, <2>2 DEF Settled
  <2> QED
    BY <2>1, <2>3, <1>13
<1>16. ASSUME NEW s \in breaches[w], Publish(w, s) \/ PublishFails(w, s)
       PROVE  ListedState' /\ BreachAnnounced' /\ OnItsWay(w)'
  <2>1. /\ phase[w] = "samples" /\ UNCHANGED <<vars, phase, listed, todo>>
        /\ breaches'[w] = breaches[w] \ {s}
    BY <1>16, <1>2 DEF Publish, PublishFails, In, IngestTypeOK
  <2>2. Current(w)' = c
    BY <2>1 DEF Current, vars
  <2>3. Settled(c, s)'
    BY <1>16, <2>2 DEF Settled, Publish, PublishFails, Announcement
  <2> QED
    BY <2>1, <2>3, <1>13
<1> QED
  BY <1>8, <1>10, <1>11, <1>12, <1>14, <1>15, <1>16 DEF ProcessMessage

\* Every step of the pool and of the users keeps what is on its way.
LEMMA BreachStepInv == IInv /\ IngestInv /\ BreachInv /\ [IngestNext]_allVars => BreachInv'
<1> SUFFICES ASSUME IInv, IngestInv, BreachInv, [IngestNext]_allVars PROVE BreachInv'
  OBVIOUS
<1>1. ASSUME UNCHANGED <<batch, phase, todo, breaches, listed, published, logged,
                         handled, delivered, pc, inbox>>
      PROVE  BreachInv'
  <2>1. \A v \in Worker : Current(v)' = Current(v)
    BY <1>1 DEF Current
  <2>2. ListedState' /\ BreachAnnounced'
    BY <1>1, <2>1 DEF BreachInv, ListedState, BreachAnnounced
  <2>3. \A v \in Worker : OnItsWay(v)'
    BY <1>1, <2>1, StaysOnItsWay DEF BreachInv
  <2> QED
    BY <2>2, <2>3 DEF BreachInv
<1>2. CASE PublishBatch \/ UNCHANGED allVars
  BY <1>1, <1>2 DEF PublishBatch, XAdd, allVars, vars, ingestVars, handlerVars
<1>3. ASSUME NEW w \in Worker, Consume(w) PROVE BreachInv'
  <2>1. UNCHANGED <<ingestVars, handled>> /\ pc[w] # "handle"
    BY <1>3 DEF Consume, XReadGroup, XReadGroupError, XAck, XAckError
  <2>2. ListedState' /\ BreachAnnounced'
    BY <1>3, <2>1, ConsumeListed DEF BreachInv, BreachAnnounced, ingestVars
  <2>3. \A v \in Worker : v # w => Current(v)' = Current(v)
    BY <1>3 DEF Consume, XReadGroup, XReadGroupError, XAck, XAckError, Advance, IInv, TypeOK, Current
  <2>4. \A v \in Worker : v # w => OnItsWay(v)'
    BY <2>1, <2>3, StaysOnItsWay DEF BreachInv, ingestVars, handlerVars
  <2>5. OnItsWay(w)'
    BY <2>1 DEF OnItsWay, IngestInv, RowsSoFar, ingestVars, handlerVars
  <2> QED
    BY <2>2, <2>4, <2>5 DEF BreachInv
<1>4. ASSUME NEW w \in Worker, ProcessMessage(w) PROVE BreachInv'
  BY <1>4, ProcessMessageBreachInv
<1>5. ASSUME NEW c \in Budget, EditBudget(c) PROVE BreachInv'
  BY <1>1, <1>5 DEF EditBudget, CreatePerfBudget, UpdatePerfBudget, DeletePerfBudget, Edit,
                    vars, handlerVars
<1>6. CASE IngestCrash
  <2>1. /\ \A v \in Worker : inbox'[v] = {} /\ phase'[v] = "rows"
        /\ UNCHANGED <<batch, listed, published, logged, handled, delivered>>
    BY <1>6 DEF IngestCrash, Crash, groupVars
  <2> QED
    BY <2>1 DEF BreachInv, ListedState, BreachAnnounced, OnItsWay
<1> QED
  BY <1>2, <1>3, <1>4, <1>5, <1>6 DEF IngestNext

\* processBudgetAndAlerts: every budget a handled batch exceeds, of those its
\* handler listed, is announced to the alert worker or logged, for any pool,
\* budgets and batches.
THEOREM BreachesAnnounced == IngestSpec => []BreachAnnounced
<1>1. IngestInit => BreachInv
  BY DEF IngestInit, Init, BreachInv, ListedState, BreachAnnounced, OnItsWay
<1>2. BreachInv => BreachAnnounced
  BY DEF BreachInv
<1> QED
  BY <1>1, <1>2, BreachStepInv, IngestInvHolds, PTL DEF IngestSpec
=============================================================================
