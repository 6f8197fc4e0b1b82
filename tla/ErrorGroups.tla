---------------------------- MODULE ErrorGroups ----------------------------
(***************************************************************************)
(* One row of error_groups and everything that writes it:                  *)
(*   - IngestErrorBatchTx (db/sqlc/tx_ingest_error.go), run concurrently by *)
(*     the HTTP handlers and by the ingest worker's goroutines;            *)
(*   - users who acknowledge, resolve or reopen the group                  *)
(*     (error_service.go UpdateErrorGroupStatus);                          *)
(*   - the retention worker's deleteErrorGroups (retention.go), which lists *)
(*     the S3 traces of expired groups, deletes the objects and then the   *)
(*     rows.                                                               *)
(* The transaction runs at Postgres' default READ COMMITTED: its snapshot  *)
(* read takes no lock; the upsert locks the row until the commit, so from  *)
(* the upsert on the transaction is one step for everyone else.            *)
(***************************************************************************)
EXTENDS Integers

CONSTANTS
    Tx,             \* ingesting goroutines
    Trace,          \* S3 keys of raw tracebacks
    SpikeThreshold, \* the request's spike_threshold; 0 turns spike alerts off
    MaxEvents       \* bound: events ever ingested

ASSUME ErrorGroupsAssumption ==
    SpikeThreshold \in Nat /\ MaxEvents \in Nat

NoRow == [status |-> "none"]
NoRef == "null"
Inline == "traceback text"

VARIABLES
    viaWorker,      \* the path that feeds the group: TRUE for the ingest worker,
                    \* FALSE for POST /agent/errors.  The two compute different
                    \* signatures, so a group is fed by one of them.
    group,          \* the group's row, or NoRow
    s3,             \* keys of the objects in the trace bucket
    tx,             \* [Tx -> progress of IngestErrorBatchTx]
    retention,      \* progress of deleteErrorGroups
    events,         \* number of events ingestion has begun for
    reopened,       \* times an upsert turned a closed row back to open, history
    reopenAlerts,   \* error_reopen alerts created
    spikeAlerts,    \* error_spike alerts created in the life of this row
    statusRaced,    \* a row changed status under a transaction, history
    listedTraces    \* traces some retention run has listed, history

alertVars == <<reopened, reopenAlerts, spikeAlerts>>
rowVars == <<viaWorker, group, s3, tx, retention, events, alertVars, statusRaced, listedTraces>>

Idle == [pc |-> "idle"]

RowInit ==
    /\ viaWorker \in BOOLEAN
    /\ group = NoRow /\ s3 = {}
    /\ tx = [t \in Tx |-> Idle]
    /\ retention = Idle
    /\ events = 0
    /\ reopened = 0 /\ reopenAlerts = 0 /\ spikeAlerts = 0
    /\ statusRaced = FALSE /\ listedTraces = {}

Exists == group # NoRow
Closed(r) == r.status \in {"resolved", "acknowledged"}

\* Transactions that have taken their snapshot.
InFlight == {t \in Tx : tx[t].pc = "upsert"}
-----------------------------------------------------------------------------
(* Ingestion of one event. *)

\* Mutant of StoreTrace: a failed upload still leaves its key in the event.
StoreTraceUnchecked(t) ==
    /\ tx[t].pc = "idle" /\ events < MaxEvents
    /\ events' = events + 1
    /\ \E ref \in {NoRef} \cup (IF viaWorker THEN Trace ELSE {Inline}) :
          /\ s3' \in {s3, s3 \cup ({ref} \cap Trace)}
          /\ tx' = [tx EXCEPT ![t] = [pc |-> "snapshot", ref |-> ref]]
    /\ UNCHANGED <<viaWorker, group, retention, alertVars, statusRaced, listedTraces>>

\* processErrorEvent stores the traceback in S3 first and passes its key on;
\* the HTTP path passes the traceback itself.  Either may have none.
\* The key's timestamp has a resolution of one second, so keys may repeat.
StoreTrace(t) ==
    /\ tx[t].pc = "idle" /\ events < MaxEvents
    /\ events' = events + 1
    /\ \E ref \in {NoRef} \cup (IF viaWorker THEN Trace ELSE {Inline}) :
          /\ s3' = s3 \cup ({ref} \cap Trace)
          /\ tx' = [tx EXCEPT ![t] = [pc |-> "snapshot", ref |-> ref]]
    /\ UNCHANGED <<viaWorker, group, retention, alertVars, statusRaced, listedTraces>>

\* Step 0 of the transaction: GetErrorGroupBySignature.
SnapshotStatus(t) ==
    /\ tx[t].pc = "snapshot"
    /\ tx' = [tx EXCEPT ![t] = [pc |-> "upsert", ref |-> tx[t].ref,
                                wasClosed |-> Exists /\ Closed(group)]]
    /\ UNCHANGED <<viaWorker, group, s3, retention, events, alertVars, statusRaced,
                   listedTraces>>

\* The row UpsertErrorGroup returns.  last_seen becomes the event's own
\* timestamp, which may be older than the group's, or past the cutoff already.
Upserted(ref, stale) ==
    IF Exists
      THEN [group EXCEPT !.count = @ + 1, !.ref = ref, !.stale = stale,
                       !.status = IF Closed(group) THEN "open" ELSE @,
                       !.resolvedBy = IF Closed(group) THEN FALSE ELSE @]
      ELSE [status |-> "open", count |-> 1, ref |-> ref, stale |-> stale,
            resolvedBy |-> FALSE]

\* Mutant of ReopenAlert: no look at the status before the upsert.
ReopenAlertIfOpen(wasClosed, eg) == eg.status = "open"

\* checkForReopenAlert and checkForSpikeAlert, each deciding on one alert.
ReopenAlert(wasClosed, eg) == wasClosed /\ eg.status = "open"

\* The spike threshold of the ingesting path; the worker passes 0.
CrossingAt == IF viaWorker THEN 0 ELSE SpikeThreshold

\* Mutant of SpikeAlert: no look at the count before the upsert.
SpikeAlertAbove(eg) == CrossingAt > 0 /\ eg.count >= CrossingAt

SpikeAlert(eg) ==
    /\ CrossingAt > 0 /\ eg.count >= CrossingAt
    /\ ~(eg.count - 1 >= CrossingAt)

Count(b) == IF b THEN 1 ELSE 0

\* Steps 1 to 4 and the commit.
UpsertErrorGroup(t) ==
    /\ tx[t].pc = "upsert"
    /\ \E stale \in BOOLEAN :
          LET eg == Upserted(tx[t].ref, stale) IN
          /\ group' = eg
          /\ reopened' = reopened + Count(Exists /\ Closed(group))
          /\ reopenAlerts' = reopenAlerts + Count(ReopenAlert(tx[t].wasClosed, eg))
          /\ spikeAlerts' = spikeAlerts + Count(SpikeAlert(eg))
          /\ statusRaced' = (statusRaced \/ \E u \in InFlight \ {t} : group.status # eg.status)
    /\ tx' = [tx EXCEPT ![t] = Idle]
    /\ UNCHANGED <<viaWorker, s3, retention, events, listedTraces>>

\* Any statement fails: the transaction is rolled back and nothing of it
\* stays, except the S3 object.
RollbackTx(t) ==
    /\ tx[t].pc \in {"snapshot", "upsert"}
    /\ tx' = [tx EXCEPT ![t] = Idle]
    /\ UNCHANGED <<viaWorker, group, s3, retention, events, alertVars, statusRaced,
                   listedTraces>>
-----------------------------------------------------------------------------
(* UpdateErrorGroupStatus *)

SetStatus(s, by) ==
    /\ Exists
    /\ group' = [group EXCEPT !.status = s, !.resolvedBy = by]
    /\ statusRaced' = (statusRaced \/ (InFlight # {} /\ group.status # s))
    /\ UNCHANGED <<viaWorker, s3, tx, retention, events, alertVars, listedTraces>>

AcknowledgeErrorGroup == Exists /\ SetStatus("acknowledged", group.resolvedBy)
ResolveErrorGroup == SetStatus("resolved", TRUE)
ReopenErrorGroup == SetStatus("open", FALSE)
-----------------------------------------------------------------------------
(* The retention worker. *)

\* The retention period passes without an event.
BecomeStale ==
    /\ Exists /\ ~group.stale
    /\ group' = [group EXCEPT !.stale = TRUE]
    /\ UNCHANGED <<viaWorker, s3, tx, retention, events, alertVars, statusRaced, listedTraces>>

\* The rows DeleteOldErrorGroups deletes.
Expired == Exists /\ group.stale /\ group.status # "open"

ExpiringRefs == IF Expired /\ group.ref # NoRef THEN {group.ref} ELSE {}

\* The refs of the expired rows; on an error the worker goes on to the rows.
ListExpiringErrorGroupRefs ==
    /\ retention.pc = "idle"
    /\ \/ retention' = [pc |-> "deleteTraces", refs |-> ExpiringRefs]
          /\ listedTraces' = listedTraces \cup ExpiringRefs
       \/ retention' = [pc |-> "deleteRows"]
          /\ listedTraces' = listedTraces
    /\ UNCHANGED <<viaWorker, group, s3, tx, events, alertVars, statusRaced>>

\* s3.Delete of every listed object, each of which may fail.
DeleteTraces ==
    /\ retention.pc = "deleteTraces"
    /\ s3' \in {s3, s3 \ retention.refs}
    /\ retention' = [pc |-> "deleteRows"]
    /\ UNCHANGED <<viaWorker, group, tx, events, alertVars, statusRaced, listedTraces>>

DeleteOldErrorGroups ==
    /\ retention.pc = "deleteRows"
    /\ group' = IF Expired THEN NoRow ELSE group
    /\ spikeAlerts' = IF Expired THEN 0 ELSE spikeAlerts
    /\ statusRaced' = (statusRaced \/ (Expired /\ InFlight # {}))
    /\ retention' = Idle
    /\ UNCHANGED <<viaWorker, s3, tx, events, reopened, reopenAlerts, listedTraces>>

\* The DELETE fails, or the worker process is restarted half-way.
RetentionAborts ==
    /\ retention.pc # "idle"
    /\ retention' = Idle
    /\ UNCHANGED <<viaWorker, group, s3, tx, events, alertVars, statusRaced, listedTraces>>

Ingest(t) ==
    StoreTrace(t) \/ SnapshotStatus(t) \/ UpsertErrorGroup(t) \/ RollbackTx(t)

UpdateErrorGroupStatus ==
    AcknowledgeErrorGroup \/ ResolveErrorGroup \/ ReopenErrorGroup

Retention ==
    ListExpiringErrorGroupRefs \/ DeleteTraces \/ DeleteOldErrorGroups \/ RetentionAborts

RowNext ==
    \/ \E t \in Tx : Ingest(t)
    \/ UpdateErrorGroupStatus
    \/ BecomeStale
    \/ Retention

RowSpec == RowInit /\ [][RowNext]_rowVars
-----------------------------------------------------------------------------
(* Properties *)

\* "Only alert once per threshold crossing" (checkForSpikeAlert): while a row
\* lives it gets one spike alert when its count reaches the threshold and no
\* other, however many transactions count at the same time.
OneSpikeAlertPerCrossing ==
    Exists => spikeAlerts = Count(CrossingAt > 0 /\ group.count >= CrossingAt)

\* As long as nothing changed the group's status between a transaction's
\* snapshot and its upsert, there is one reopen alert for every time an event
\* reopened the group.
ReopenAlertsUnlessRaced == ~statusRaced => reopenAlerts = reopened

\* On the ingest worker's path a group's trace is missing from S3 only when a
\* retention run listed that trace: it is stored before the row refers to it,
\* and neither a failed transaction nor another event's trace costs it.
TraceLostOnlyByRetention ==
    (Exists /\ group.ref \in Trace /\ group.ref \notin s3) => group.ref \in listedTraces
=============================================================================
