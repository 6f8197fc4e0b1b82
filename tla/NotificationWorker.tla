------------------------- MODULE NotificationWorker -------------------------
(***************************************************************************)
(* internal/worker/notification.go: the worker that polls alert_deliveries *)
(* and sends each pending row to its channel, with the rows it works on:   *)
(* CreateAlertWithDeliveryTx (db/sqlc/tx_alert_deliver.go) creates them;   *)
(* the notification-channel CRUD (notification_service.go) and the         *)
(* retention worker remove them.                                           *)
(* Listing, sending and marking are three separate steps: a row can change *)
(* between any two of them, and the outcome of a send can be lost.         *)
(***************************************************************************)
EXTENDS Integers, FiniteSets

CONSTANTS
    Worker,         \* worker processes; each runs one NotificationWorker
    Channel,        \* notification channels of the tenant
    MaxAlerts,      \* bound: alerts ever created
    BatchSize,      \* LIMIT of ListPendingDeliveries
    MaxAttempts,    \* NotificationConfig.MaxAttempts
    MaxFaults       \* bound: lost responses, failed UPDATEs and crashes

ASSUME NotificationAssumption ==
    /\ MaxAlerts \in Nat /\ BatchSize \in Nat \ {0}
    /\ MaxAttempts \in Nat \ {0} /\ MaxFaults \in Nat

\* A delivery is identified by its alert and its channel; alerts are numbered
\* in the order of their created_at.
Delivery == (1..MaxAlerts) \X Channel

VARIABLES
    channel,        \* [Channel -> "active", "inactive" or "deleted"]
    created,        \* number of alerts created
    status,         \* [Delivery -> status column; "none": no such row]
    attempt,        \* [Delivery -> attempt column]
    expired,        \* deliveries created more than 24 hours ago
    batch,          \* [Worker -> rows of the poll that are still to dispatch]
    pc,             \* [Worker -> "idle", "send", "markSent" or "markFailed"]
    current,        \* [Worker -> the row being dispatched]
    tries,          \* [Delivery -> calls of Dispatcher.Send], history
    received,       \* [Delivery -> notifications the recipient got], history
    unrecorded,     \* [Delivery -> outcomes the table does not show], history
    contested,      \* deliveries two workers held at the same time, history
    faults          \* lost responses, failed UPDATEs and crashes so far

rows == <<status, attempt, expired>>
loop == <<batch, pc, current>>
history == <<tries, received, unrecorded, contested, faults>>
vars == <<channel, created, rows, loop, history>>

None == <<0, "none">>

Init ==
    /\ channel \in [Channel -> {"active", "inactive"}]
    /\ created = 0
    /\ status = [d \in Delivery |-> "none"]
    /\ attempt = [d \in Delivery |-> 1]
    /\ expired = {}
    /\ batch = [w \in Worker |-> {}]
    /\ pc = [w \in Worker |-> "idle"]
    /\ current = [w \in Worker |-> None]
    /\ tries = [d \in Delivery |-> 0]
    /\ received = [d \in Delivery |-> 0]
    /\ unrecorded = [d \in Delivery |-> 0]
    /\ contested = {}
    /\ faults = 0

\* One of the bounded number of faults happens.
Fault == faults < MaxFaults /\ faults' = faults + 1
-----------------------------------------------------------------------------
(* The tables' other writers. *)

\* One transaction: the alert and a pending row per active channel; attempt
\* gets its column default, 1.
CreateAlertWithDeliveryTx ==
    /\ created < MaxAlerts
    /\ created' = created + 1
    /\ status' = [d \in Delivery |->
                    IF d[1] = created + 1 /\ channel[d[2]] = "active"
                      THEN "pending" ELSE status[d]]
    /\ UNCHANGED <<channel, attempt, expired, loop, history>>

UpdateNotificationChannel(c) ==
    /\ channel[c] # "deleted"
    /\ channel' = [channel EXCEPT ![c] = IF @ = "active" THEN "inactive" ELSE "active"]
    /\ UNCHANGED <<created, rows, loop, history>>

\* ON DELETE CASCADE removes delivery rows; nothing is left of their columns.
RemoveRows(S) ==
    /\ status' = [d \in Delivery |-> IF d \in S THEN "none" ELSE status[d]]
    /\ attempt' = [d \in Delivery |-> IF d \in S THEN 1 ELSE attempt[d]]
    /\ expired' = expired \ S

\* The channel's deliveries go with it.
DeleteNotificationChannel(c) ==
    /\ channel[c] # "deleted"
    /\ channel' = [channel EXCEPT ![c] = "deleted"]
    /\ RemoveRows({d \in Delivery : d[2] = c})
    /\ UNCHANGED <<created, loop, history>>

\* Time passes: a delivery is older than the retry query's 24 hours.
Expire(d) ==
    /\ status[d] # "none" /\ d \notin expired
    /\ expired' = expired \cup {d}
    /\ UNCHANGED <<channel, created, status, attempt, loop, history>>

\* The retention worker removes an alert, days after its creation, with its
\* deliveries.
DeleteOldAlerts(a) ==
    /\ \E c \in Channel : <<a, c>> \in expired /\ status[<<a, c>>] # "none"
    /\ RemoveRows({d \in Delivery : d[1] = a})
    /\ UNCHANGED <<channel, created, loop, history>>
-----------------------------------------------------------------------------
(* The worker. *)

\* Mutant of Pending: the query has no condition on status.
PendingAnyStatus == {d \in Delivery : status[d] # "none"}

Pending == {d \in Delivery : status[d] = "pending"}

\* The rows a worker has listed and not yet dispatched.
Held(w) == batch[w] \cup ({current[w]} \ {None})

\* deliverPending: the oldest BatchSize pending rows.  The query claims
\* nothing: another worker may hold the same rows.
ListPendingDeliveries(w) ==
    /\ pc[w] = "idle"
    /\ Pending # {}
    /\ \E S \in SUBSET Pending :
          /\ Cardinality(S) <= BatchSize
          /\ Cardinality(S) = BatchSize \/ S = Pending
          /\ \A d \in S, e \in Pending \ S : d[1] <= e[1]
          /\ contested' = contested \cup UNION {S \cap Held(v) : v \in Worker \ {w}}
          /\ \E d \in S :
                /\ \A e \in S : d[1] <= e[1]
                /\ current' = [current EXCEPT ![w] = d]
                /\ batch' = [batch EXCEPT ![w] = S \ {d}]
    /\ pc' = [pc EXCEPT ![w] = "send"]
    /\ UNCHANGED <<channel, created, rows, tries, received, unrecorded, faults>>

\* dispatch calls Send with the row of the listing, whatever became of the
\* row, its alert or its channel since.  The dispatcher returns nil.
SendOk(w) ==
    /\ pc[w] = "send"
    /\ tries' = [tries EXCEPT ![current[w]] = @ + 1]
    /\ received' = [received EXCEPT ![current[w]] = @ + 1]
    /\ pc' = [pc EXCEPT ![w] = "markSent"]
    /\ UNCHANGED <<channel, created, rows, batch, current, unrecorded, contested, faults>>

\* The dispatcher returns an error (bad config, refused, status not 2xx, or
\* no dispatcher for the channel type) and nothing was delivered.
SendError(w) ==
    /\ pc[w] = "send"
    /\ tries' = [tries EXCEPT ![current[w]] = @ + 1]
    /\ pc' = [pc EXCEPT ![w] = "markFailed"]
    /\ UNCHANGED <<channel, created, rows, batch, current, received, unrecorded, contested, faults>>

\* The recipient has the notification, but the response is lost or late (the
\* client's 10 s timeout): Send returns an error.
SendTimeout(w) ==
    /\ pc[w] = "send" /\ Fault
    /\ tries' = [tries EXCEPT ![current[w]] = @ + 1]
    /\ received' = [received EXCEPT ![current[w]] = @ + 1]
    /\ unrecorded' = [unrecorded EXCEPT ![current[w]] = @ + 1]
    /\ pc' = [pc EXCEPT ![w] = "markFailed"]
    /\ UNCHANGED <<channel, created, rows, batch, current, contested>>

\* The end of dispatch: the next row of the batch in created_at order, or
\* back to the select loop.
NextRow(w) ==
    \/ /\ batch[w] = {}
       /\ pc' = [pc EXCEPT ![w] = "idle"]
       /\ current' = [current EXCEPT ![w] = None]
       /\ batch' = batch
    \/ \E d \in batch[w] :
          /\ \A e \in batch[w] : d[1] <= e[1]
          /\ pc' = [pc EXCEPT ![w] = "send"]
          /\ current' = [current EXCEPT ![w] = d]
          /\ batch' = [batch EXCEPT ![w] = @ \ {d}]

RowExists(w) == status[current[w]] # "none"

MarkDeliverySent(w) ==
    /\ pc[w] = "markSent"
    /\ status' = IF RowExists(w) THEN [status EXCEPT ![current[w]] = "sent"] ELSE status
    /\ NextRow(w)
    /\ UNCHANGED <<channel, created, attempt, expired, history>>

MarkDeliveryFailed(w) ==
    /\ pc[w] = "markFailed"
    /\ status' = IF RowExists(w) THEN [status EXCEPT ![current[w]] = "failed"] ELSE status
    /\ attempt' = IF RowExists(w) THEN [attempt EXCEPT ![current[w]] = @ + 1] ELSE attempt
    /\ NextRow(w)
    /\ UNCHANGED <<channel, created, expired, history>>

\* Either UPDATE fails: logged, and the row stays as it is.
MarkError(w) ==
    /\ pc[w] \in {"markSent", "markFailed"} /\ Fault
    /\ unrecorded' = [unrecorded EXCEPT ![current[w]] = @ + 1]
    /\ NextRow(w)
    /\ UNCHANGED <<channel, created, rows, tries, received, contested>>

\* Mutant of Retryable: no attempt ceiling.
RetryableForEver == {d \in Delivery : status[d] = "failed" /\ d \notin expired}

\* Mutant of Retryable: "<" where the query's age condition has ">".
RetryableTooOld == {d \in Delivery : /\ status[d] = "failed"
                                     /\ attempt[d] < MaxAttempts
                                     /\ d \in expired}

Retryable == {d \in Delivery : /\ status[d] = "failed"
                               /\ attempt[d] < MaxAttempts
                               /\ d \notin expired}

\* resetRetryable / RetryFailedDeliveries, on its own ticker of the same loop.
ResetRetryable(w) ==
    /\ pc[w] = "idle"
    /\ Retryable # {}
    /\ status' = [d \in Delivery |-> IF d \in Retryable THEN "pending" ELSE status[d]]
    /\ UNCHANGED <<channel, created, attempt, expired, loop, history>>

\* The process dies and is started again; if it had sent and not yet marked,
\* the outcome is lost with it.
Crash(w) ==
    /\ pc[w] # "idle" /\ Fault
    /\ unrecorded' = IF pc[w] = "send" THEN unrecorded
                     ELSE [unrecorded EXCEPT ![current[w]] = @ + 1]
    /\ batch' = [batch EXCEPT ![w] = {}]
    /\ pc' = [pc EXCEPT ![w] = "idle"]
    /\ current' = [current EXCEPT ![w] = None]
    /\ UNCHANGED <<channel, created, rows, tries, received, contested>>

Dispatch(w) ==
    \/ ListPendingDeliveries(w)
    \/ SendOk(w) \/ SendError(w) \/ SendTimeout(w)
    \/ MarkDeliverySent(w) \/ MarkDeliveryFailed(w) \/ MarkError(w)

Next ==
    \/ CreateAlertWithDeliveryTx
    \/ \E c \in Channel : UpdateNotificationChannel(c) \/ DeleteNotificationChannel(c)
    \/ \E d \in Delivery : Expire(d)
    \/ \E a \in 1..MaxAlerts : DeleteOldAlerts(a)
    \/ \E w \in Worker : Dispatch(w) \/ ResetRetryable(w) \/ Crash(w)

Spec == Init /\ [][Next]_vars

\* Both tickers keep firing and Go's select picks among ready cases at random,
\* so neither loop starves; sends return (HTTP timeout) with any outcome.
FairSpec ==
    Spec /\ \A w \in Worker : WF_vars(Dispatch(w)) /\ SF_vars(ResetRetryable(w))
-----------------------------------------------------------------------------
(* Properties *)

\* A row says "sent" only if the recipient got the notification, and a
\* recipient gets it twice only when an earlier outcome was not recorded (a
\* response lost, a failed UPDATE or a crash) or two workers had listed the row
\* at the same time (MarkDeliverySent follows Send).
ReceivedAsRecorded ==
    \A d \in Delivery :
        /\ status[d] = "sent" => received[d] >= 1
        /\ d \notin contested => received[d] <= 1 + unrecorded[d]

\* A delivery that keeps failing is sent fewer than MaxAttempts times, but once
\* in any case: attempt starts at 1 and counts the failures.  Tries the table
\* does not know of, or that another worker makes at the same time, come on top.
RetriesStop ==
    \A d \in Delivery \ contested :
        \/ tries[d] <= 1 + unrecorded[d]
        \/ tries[d] <= MaxAttempts - 1 + unrecorded[d]

\* The final state of a delivery: sent, removed, or failed for good because
\* its attempts are used up or its 24 hours are over.
Concluded(d) ==
    \/ status[d] \in {"sent", "none"}
    \/ status[d] = "failed" /\ (attempt[d] >= MaxAttempts \/ d \in expired)

\* No delivery is stuck and none oscillates: from some day on it is concluded
\* for good, with any number of workers.  Pending rows are picked up, failed
\* ones are reset and retried.
DeliveryConcludes == \A d \in Delivery : <>[]Concluded(d)
=============================================================================
