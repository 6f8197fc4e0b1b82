---------------------------- MODULE IngestWorker ----------------------------
(***************************************************************************)
(* internal/worker/ingest.go and internal/service/budget_service.go: the   *)
(* pool that stores the agents' batches of the agent:ingest stream.  It is *)
(* a StreamConsumer whose handler, processMessage, stores the batch row by *)
(* row, then measures the batch against the environment's performance      *)
(* budgets and publishes every exceeded one to the agent:alert stream,     *)
(* from where AlertWorker goes on.  No transaction spans these calls: the  *)
(* handler works on the budgets it listed while users edit them, and every *)
(* call may fail on its own.  stored, samples and published record the     *)
(* calls that returned without error; what a failed call left behind is    *)
(* not told apart, since only the log knows of it.                         *)
(***************************************************************************)
EXTENDS StreamConsumer, Sequences, FiniteSetsExt

CONSTANTS
    Batch,         \* batches an agent sends: [rows |-> number of error events
                   \* and ORM stats, events |-> sequence of profiler events,
                   \* each [module |-> ..., ms |-> ...]]
    Malformed,     \* a payload that does not parse
    Budget,        \* budget ids
    ModuleOf,      \* [Budget -> module]: no operation changes it
    Threshold,     \* threshold_pct values of the users
    NoBudget,      \* not created yet
    Deleted,       \* deleted: ids are never used again
    MaxChanges     \* bound: edits of the budgets

ASSUME IngestAssumption ==
    /\ Malformed \notin Batch
    /\ \A b \in Batch :
         /\ b.rows \in Nat
         /\ b.events \in Seq({b.events[i] : i \in DOMAIN b.events})
         /\ \A i \in DOMAIN b.events : b.events[i].ms \in Int   \* DurationMS
    /\ Threshold \subseteq 1..100
    /\ MaxChanges \in Nat

VARIABLES
    batch,         \* [id -> what the agent put into the message]
    phase,         \* [Worker -> "rows" or "samples"]: how far processMessage is
    row,           \* [Worker -> the row it stores next]
    todo,          \* [Worker -> listed budgets still without a sample]
    breaches,      \* [Worker -> result.Breaches, less those published]
    stored,        \* <<id, row>> whose insert was confirmed
    budgets,       \* [Budget -> NoBudget, Deleted or its row]
    samples,       \* <<id, budget>> in perf_budget_samples, insert confirmed
    published,     \* breaches added to agent:alert: [msg, budget, threshold]
    logged,        \* <<id, row>> and <<id, budget>> an error was logged for
    listed,        \* [id -> the budgets its handler listed]
    raced,         \* <<id, budget>>: edited between its listing and its end
    changes

handlerVars == <<phase, row, todo, breaches>>
budgetVars  == <<budgets, changes, raced>>
ingestVars  == <<batch, handlerVars, stored, budgetVars, samples, published,
                 logged, listed>>
allVars == <<vars, ingestVars>>

\* Users may have created budgets before the pool starts.
IngestInit ==
    /\ Init
    /\ batch \in [Id -> Batch \cup {Malformed}]
    /\ phase = [w \in Worker |-> "rows"] /\ row = [w \in Worker |-> 1]
    /\ todo = [w \in Worker |-> {}] /\ breaches = [w \in Worker |-> {}]
    /\ stored = {} /\ samples = {} /\ published = {} /\ logged = {}
    /\ budgets \in [Budget ->
          {NoBudget} \cup [threshold : Threshold, active : {TRUE}]]
    /\ listed = [m \in Id |-> {}]
    /\ raced = {} /\ changes = 0

\* HandleIngestBatch's XADD has no MAXLEN: nothing is trimmed.
PublishBatch ==
    /\ XAdd /\ UNCHANGED first
    /\ UNCHANGED ingestVars

\* The consumer's own steps.
Consume(w) ==
    /\ XReadGroup(w) \/ XReadGroupError(w) \/ XAck(w) \/ XAckError(w)
    /\ UNCHANGED ingestVars

B(w) == batch[Current(w)]
In(w, p) == pc[w] = "handle" /\ phase[w] = p

\* uuid.Parse or json.Unmarshal fails: the handler's early returns.
RejectMalformed(w) ==
    /\ In(w, "rows")
    /\ B(w) = Malformed
    /\ HandlerError(w)
    /\ UNCHANGED ingestVars

\* The handler returns nil.
Finish(w) ==
    /\ HandlerOk(w)
    /\ phase' = [phase EXCEPT ![w] = "rows"]
    /\ row' = [row EXCEPT ![w] = 1]
-----------------------------------------------------------------------------
(* Error events, ORM stats and the profiler recording: one insert each. *)

\* Error events, then ORM stats, then one recording if there are profiler
\* events.
RowCount(b) == b.rows + (IF b.events = <<>> THEN 0 ELSE 1)

AtRow(w) == In(w, "rows") /\ B(w) # Malformed /\ row[w] <= RowCount(B(w))
AfterRows(w) == In(w, "rows") /\ B(w) # Malformed /\ row[w] > RowCount(B(w))

StoreRow(w) ==
    /\ AtRow(w)
    /\ stored' = stored \cup {<<Current(w), row[w]>>}
    /\ row' = [row EXCEPT ![w] = @ + 1]
    /\ UNCHANGED <<vars, batch, phase, todo, breaches, budgetVars, samples,
                   published, logged, listed>>

\* Mutant of RowFails: the loop ends at the first error.
RowFailsAbandonsRest(w) ==
    /\ AtRow(w)
    /\ logged' = logged \cup {<<Current(w), row[w]>>}
    /\ row' = [row EXCEPT ![w] = RowCount(B(w)) + 1]
    /\ UNCHANGED <<vars, batch, phase, todo, breaches, stored, budgetVars,
                   samples, published, listed>>

\* "don't fail the whole batch for one event": logged, and on to the next.
RowFails(w) ==
    /\ AtRow(w)
    /\ logged' = logged \cup {<<Current(w), row[w]>>}
    /\ row' = [row EXCEPT ![w] = @ + 1]
    /\ UNCHANGED <<vars, batch, phase, todo, breaches, stored, budgetVars,
                   samples, published, listed>>
-----------------------------------------------------------------------------
(* processBudgetAndAlerts *)

\* aggregateModuleStats
TotalMS(b) == MapThenSumSet(LAMBDA i : b.events[i].ms, DOMAIN b.events)
EventsOf(b, mod) == {i \in DOMAIN b.events : b.events[i].module = mod}
ModuleMS(b, mod) == MapThenSumSet(LAMBDA i : b.events[i].ms, EventsOf(b, mod))

\* Mutant of ActiveBudgets: the query without "is_active = true".
AllBudgets == {c \in Budget : budgets[c] \notin {NoBudget, Deleted}}

\* ListPerfBudgets
ActiveBudgets ==
    {c \in Budget : budgets[c] \notin {NoBudget, Deleted} /\ budgets[c].active}

\* The budgets CalculateOverhead takes a sample for, as they are listed.
Measured(b) ==
    {[budget |-> c, threshold |-> budgets[c].threshold] :
        c \in {c \in ActiveBudgets :
                  TotalMS(b) > 0 /\ EventsOf(b, ModuleOf[c]) # {}}}

NoProfilerEvents(w) ==
    /\ AfterRows(w)
    /\ B(w).events = <<>>
    /\ Finish(w)
    /\ UNCHANGED <<batch, todo, breaches, stored, budgetVars, samples,
                   published, logged, listed>>

ListPerfBudgets(w) ==
    /\ AfterRows(w)
    /\ B(w).events # <<>>
    /\ todo' = [todo EXCEPT ![w] = Measured(B(w))]
    /\ listed' = [listed EXCEPT ![Current(w)] = Measured(B(w))]
    /\ phase' = [phase EXCEPT ![w] = "samples"]
    /\ UNCHANGED <<vars, batch, row, breaches, stored, budgetVars, samples,
                   published, logged>>

\* "failed to calculate overhead": the batch counts as processed all the same.
ListPerfBudgetsFails(w) ==
    /\ AfterRows(w)
    /\ B(w).events # <<>>
    /\ Finish(w)
    /\ UNCHANGED <<batch, todo, breaches, stored, budgetVars, samples,
                   published, logged, listed>>

\* Mutant of Exceeded: the percentage as an integer.
ExceededInteger(b, s) ==
    {(ModuleMS(b, ModuleOf[s.budget]) * 100) \div TotalMS(b) > s.threshold}

\* The possible values of overheadPct > threshold.  In float64 the quotient
\* is rounded: 7.0 / 100 * 100 > 7 holds, so at equality both can happen.
Exceeded(b, s) ==
    LET part == ModuleMS(b, ModuleOf[s.budget]) * 100
        bound == s.threshold * TotalMS(b)
    IN  IF part = bound THEN BOOLEAN ELSE {part > bound}

\* A sample goes in first, then the budget is a breach if it is exceeded.
InsertBudgetSample(w, s) ==
    /\ In(w, "samples")
    /\ budgets[s.budget] # Deleted
    /\ samples' = samples \cup {<<Current(w), s.budget>>}
    /\ todo' = [todo EXCEPT ![w] = @ \ {s}]
    /\ \E exceeded \in Exceeded(B(w), s) :
          breaches' = [breaches EXCEPT ![w] = IF exceeded THEN @ \cup {s} ELSE @]
    /\ UNCHANGED <<vars, batch, phase, row, stored, budgetVars, published,
                   logged, listed>>

\* The insert fails, always for a deleted budget (foreign key): logged, and
\* on to the next budget without a breach.
InsertBudgetSampleFails(w, s) ==
    /\ In(w, "samples")
    /\ logged' = logged \cup {<<Current(w), s.budget>>}
    /\ todo' = [todo EXCEPT ![w] = @ \ {s}]
    /\ UNCHANGED <<vars, batch, phase, row, breaches, stored, budgetVars,
                   samples, published, listed>>

Announcement(w, s) ==
    [msg |-> Current(w), budget |-> s.budget, threshold |-> s.threshold]

\* publishThresholdBreaches, after the last sample.
Publish(w, s) ==
    /\ In(w, "samples") /\ todo[w] = {}
    /\ published' = published \cup {Announcement(w, s)}
    /\ breaches' = [breaches EXCEPT ![w] = @ \ {s}]
    /\ UNCHANGED <<vars, batch, phase, row, todo, stored, budgetVars, samples,
                   logged, listed>>

\* "failed to publish threshold breach"
PublishFails(w, s) ==
    /\ In(w, "samples") /\ todo[w] = {}
    /\ logged' = logged \cup {<<Current(w), s.budget>>}
    /\ breaches' = [breaches EXCEPT ![w] = @ \ {s}]
    /\ UNCHANGED <<vars, batch, phase, row, todo, stored, budgetVars, samples,
                   published, listed>>

BatchProcessed(w) ==
    /\ In(w, "samples") /\ todo[w] = {} /\ breaches[w] = {}
    /\ Finish(w)
    /\ UNCHANGED <<batch, todo, breaches, stored, budgetVars, samples,
                   published, logged, listed>>
-----------------------------------------------------------------------------
(* The users' edits of the budgets: BudgetService. *)

Edit(c) ==
    /\ changes < MaxChanges
    /\ changes' = changes + 1
    /\ raced' = raced \cup {<<Current(w), c>> : w \in {v \in Worker : In(v, "samples")}}
    /\ UNCHANGED <<vars, batch, handlerVars, stored, published, logged, listed>>

CreatePerfBudget(c, t) ==
    /\ Edit(c)
    /\ budgets[c] = NoBudget
    /\ budgets' = [budgets EXCEPT ![c] = [threshold |-> t, active |-> TRUE]]
    /\ UNCHANGED samples

UpdatePerfBudget(c, t, active) ==
    /\ Edit(c)
    /\ budgets[c] \notin {NoBudget, Deleted}
    /\ budgets' = [budgets EXCEPT ![c] = [threshold |-> t, active |-> active]]
    /\ UNCHANGED samples

\* ON DELETE CASCADE takes the samples along.
DeletePerfBudget(c) ==
    /\ Edit(c)
    /\ budgets[c] \notin {NoBudget, Deleted}
    /\ budgets' = [budgets EXCEPT ![c] = Deleted]
    /\ samples' = {x \in samples : x[2] # c}

IngestCrash ==
    /\ Crash
    /\ phase' = [w \in Worker |-> "rows"] /\ row' = [w \in Worker |-> 1]
    /\ todo' = [w \in Worker |-> {}] /\ breaches' = [w \in Worker |-> {}]
    /\ UNCHANGED <<batch, stored, budgetVars, samples, published, logged, listed>>

ProcessMessage(w) ==
    \/ RejectMalformed(w)
    \/ StoreRow(w)
    \/ RowFails(w)
    \/ NoProfilerEvents(w)
    \/ ListPerfBudgets(w)
    \/ ListPerfBudgetsFails(w)
    \/ \E s \in todo[w] : InsertBudgetSample(w, s) \/ InsertBudgetSampleFails(w, s)
    \/ \E s \in breaches[w] : Publish(w, s) \/ PublishFails(w, s)
    \/ BatchProcessed(w)

EditBudget(c) ==
    \/ \E t \in Threshold : CreatePerfBudget(c, t)
    \/ \E t \in Threshold, active \in BOOLEAN : UpdatePerfBudget(c, t, active)
    \/ DeletePerfBudget(c)

IngestNext ==
    \/ PublishBatch
    \/ \E w \in Worker : Consume(w) \/ ProcessMessage(w)
    \/ \E c \in Budget : EditBudget(c)
    \/ IngestCrash

IngestSpec == IngestInit /\ [][IngestNext]_allVars
-----------------------------------------------------------------------------
(* Properties *)

\* When a batch was handled (and so is acknowledged and never read again),
\* every error event, ORM stat and recording of it is in the database or was
\* logged as failed: one failure costs no other row (ingest.go: "don't fail
\* the whole batch for one event").
RowsAccountedFor ==
    \A m \in Id : handled[m] = 1 =>
        \A i \in 1..RowCount(batch[m]) : <<m, i>> \in stored \cup logged

\* Every budget that a handled batch exceeded, of those active when its
\* handler listed them, was announced to the alert worker, or a failure was
\* logged for it; also a budget exceeded by less than one percent.
BreachAnnounced ==
    \A m \in Id : handled[m] = 1 =>
        \A s \in listed[m] :
            ModuleMS(batch[m], ModuleOf[s.budget]) * 100
                > s.threshold * TotalMS(batch[m])
            => \/ [msg |-> m, budget |-> s.budget, threshold |-> s.threshold]
                      \in published
               \/ <<m, s.budget>> \in logged

\* A breach is announced for a budget that is active with that threshold and
\* has the batch's sample for the user to look at, unless a user edited the
\* budget while the batch was being handled.
BreachIsFounded ==
    [][\A p \in published' \ published :
          \/ <<p.msg, p.budget>> \in raced
          \/ /\ budgets[p.budget] = [threshold |-> p.threshold, active |-> TRUE]
             /\ <<p.msg, p.budget>> \in samples]_allVars
=============================================================================
