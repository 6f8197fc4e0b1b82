--------------------------- MODULE StreamConsumer ---------------------------
(***************************************************************************)
(* internal/worker/consumer.go: a pool of RunConsumer goroutines that read *)
(* a Redis stream through a consumer group, call a handler per message and *)
(* acknowledge it on success.  Both the ingest and the alert worker are    *)
(* such pools.  Stream ids grow with every XADD, so a message is its id.   *)
(* The consumer group lives in Redis and survives a crash of the worker    *)
(* process; the goroutines' batches do not.                                *)
(***************************************************************************)
EXTENDS Integers, FiniteSets

CONSTANTS
    Worker,        \* the pool: WorkerCount goroutines, each its own consumer
    BatchSize,     \* COUNT of one XREADGROUP
    MaxLen,        \* MAXLEN of the publisher's XADD (approximate trimming)
    MaxMsg,        \* bound: messages ever published
    MaxFaults      \* bound: lost replies, failed ACKs and crashes

ASSUME ConsumerAssumption ==
    /\ BatchSize \in Nat \ {0} /\ MaxLen \in Nat \ {0}
    /\ MaxMsg \in Nat /\ MaxFaults \in Nat
    /\ IsFiniteSet(Worker)

VARIABLES
    first,         \* smallest id XADD's trimming has left in the stream
    last,          \* id of the newest message, 0 for none
    delivered,     \* the group's last-delivered-id
    pel,           \* the group's pending entries: delivered and not acknowledged
    inbox,         \* [Worker -> set of ids]: rest of the batch being processed
    pc,            \* [Worker -> where its loop is]
    handled,       \* [id -> number of times a handler finished with nil]
    failed,        \* ids a handler has returned an error for
    faults

vars == <<first, last, delivered, pel, inbox, pc, handled, failed, faults>>
groupVars  == <<first, last, delivered>>

Id == 1..MaxMsg

\* EnsureConsumerGroup creates the group at id "0": the group's first read
\* starts at the first message, whenever that was published.
Init ==
    /\ first = 1 /\ last = 0 /\ delivered = 0
    /\ pel = {}
    /\ inbox = [w \in Worker |-> {}]
    /\ pc = [w \in Worker |-> "read"]
    /\ handled = [m \in Id |-> 0]
    /\ failed = {}
    /\ faults = 0

\* XADD ... MAXLEN ~: the new message gets the next id; Redis may trim the
\* oldest messages down to MaxLen, delivered or not, or leave them for later.
XAdd ==
    /\ last < MaxMsg
    /\ last' = last + 1
    /\ first' \in {first} \cup (IF last + 1 - first >= MaxLen
                                  THEN {last + 2 - MaxLen} ELSE {})
    /\ UNCHANGED <<delivered, pel, inbox, pc, handled, failed, faults>>

\* Mutant of Undelivered: XREADGROUP from "0" instead of ">".
UndeliveredOrPending == {m \in Id : first <= m /\ m <= last}

\* The messages XREADGROUP ">" returns: the oldest BatchSize of those in the
\* stream that the group has not delivered to any consumer.
Undelivered == {m \in Id : m > delivered /\ first <= m /\ m <= last}
NextBatch == {m \in Undelivered :
                  \A n \in Undelivered : m < n + BatchSize}
Newest(batch) == CHOOSE m \in batch : \A n \in batch : n <= m

\* What XREADGROUP changes in Redis: the batch becomes pending and the group
\* moves past it.
Deliver ==
    /\ pel' = pel \cup NextBatch
    /\ delivered' = Newest(NextBatch)

\* A goroutine's XREADGROUP returns messages.  (An empty or failed read goes
\* round the loop and changes nothing.)
XReadGroup(w) ==
    /\ pc[w] = "read"
    /\ NextBatch # {}
    /\ Deliver
    /\ inbox' = [inbox EXCEPT ![w] = NextBatch]
    /\ pc' = [pc EXCEPT ![w] = "handle"]
    /\ UNCHANGED <<first, last, handled, failed, faults>>

\* Redis serves the read and the reply is lost on the way (connection reset,
\* context canceled while waiting): the batch is pending, with no goroutine.
XReadGroupError(w) ==
    /\ pc[w] = "read" /\ faults < MaxFaults
    /\ NextBatch # {}
    /\ Deliver
    /\ faults' = faults + 1
    /\ UNCHANGED <<first, last, inbox, pc, handled, failed>>

\* processStreams works through its batch in stream order.
Current(w) == CHOOSE m \in inbox[w] : \A n \in inbox[w] : m <= n

\* Mutant of Advance: "break" where the code has "continue".
AdvanceAbandonsBatch(w) ==
    /\ inbox' = [inbox EXCEPT ![w] = {}]
    /\ pc' = [pc EXCEPT ![w] = "read"]

\* Move on to the next message of the batch, or back to XREADGROUP.
Advance(w) ==
    /\ inbox' = [inbox EXCEPT ![w] = @ \ {Current(w)}]
    /\ pc' = [pc EXCEPT ![w] = IF inbox[w] = {Current(w)} THEN "read" ELSE "handle"]

\* The handler returns nil; the ACK is the next step.
HandlerOk(w) ==
    /\ pc[w] = "handle"
    /\ handled' = [handled EXCEPT ![Current(w)] = @ + 1]
    /\ pc' = [pc EXCEPT ![w] = "ack"]
    /\ UNCHANGED <<groupVars, pel, inbox, failed, faults>>

\* The handler returns an error: "message stays pending for retry/claim".
HandlerError(w) ==
    /\ pc[w] = "handle"
    /\ failed' = failed \cup {Current(w)}
    /\ Advance(w)
    /\ UNCHANGED <<groupVars, pel, handled, faults>>

XAck(w) ==
    /\ pc[w] = "ack"
    /\ pel' = pel \ {Current(w)}
    /\ Advance(w)
    /\ UNCHANGED <<groupVars, handled, failed, faults>>

\* XACK fails: logged, and the loop goes on.
XAckError(w) ==
    /\ pc[w] = "ack" /\ faults < MaxFaults
    /\ faults' = faults + 1
    /\ Advance(w)
    /\ UNCHANGED <<groupVars, pel, handled, failed>>

\* The worker process dies and is started again: all goroutines lose their
\* batches; Redis keeps the group with its pending entries.
Crash ==
    /\ faults < MaxFaults
    /\ faults' = faults + 1
    /\ inbox' = [w \in Worker |-> {}]
    /\ pc' = [w \in Worker |-> "read"]
    /\ UNCHANGED <<groupVars, pel, handled, failed>>

Step(w) ==
    \/ XReadGroup(w)
    \/ XReadGroupError(w)
    \/ HandlerOk(w)
    \/ HandlerError(w)
    \/ XAck(w)
    \/ XAckError(w)

Next ==
    \/ XAdd
    \/ \E w \in Worker : Step(w)
    \/ Crash

Spec == Init /\ [][Next]_vars

\* The Go scheduler runs every goroutine of the pool; handlers and Redis
\* calls return.  Publishers owe nothing.
FairSpec == Spec /\ \A w \in Worker : WF_vars(Step(w))
-----------------------------------------------------------------------------
(* Properties *)

\* Types of the group's state in Redis and of the goroutines' loops.
TypeOK ==
    /\ first \in 1..(MaxMsg + 1) /\ last \in 0..MaxMsg /\ delivered \in 0..last
    /\ pel \subseteq Id
    /\ inbox \in [Worker -> SUBSET Id]
    /\ pc \in [Worker -> {"read", "handle", "ack"}]
    /\ handled \in [Id -> Nat]
    /\ failed \subseteq Id
    /\ faults \in 0..MaxFaults

\* The group hands a message to one goroutine only: no two batches share a
\* message, and nothing a goroutine holds was acknowledged or is yet to be
\* delivered.
OneHolder ==
    /\ \A w \in Worker : inbox[w] \subseteq pel
    /\ \A v, w \in Worker : v # w => inbox[v] \cap inbox[w] = {}
    /\ \A m \in pel : m <= delivered

\* No message is handled twice, whatever fails: reading only ">" makes the
\* pool at-most-once.
HandledAtMostOnce == \A m \in Id : handled[m] <= 1

\* A message leaves the pending entries only after its handler returned nil:
\* neither an error nor a crash acknowledges anything.
AckedWasHandled == [][\A m \in pel \ pel' : handled[m] = 1]_vars

\* A message the handler failed on is retried until it is handled, or moved
\* to a dead-letter list (consumer.go: RunConsumer "retries/dead-letters
\* failed ones").  There is no dead-letter list in the code, so the message
\* has to be handled.
FailedIsRetried == \A m \in Id : (m \in failed) ~> (handled[m] = 1)
=============================================================================
