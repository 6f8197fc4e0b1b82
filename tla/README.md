# TLA+ models of OdooDevTools

This directory holds a formal model of the concurrent and failure-prone parts of
OdooDevTools: modules that TLC checks on small instances and theorems that TLAPS
proves for every instance. `PROJECT.json` lists, in machine-readable form, the runs,
which source lines every definition stands for, the findings, the hazards and the
theorems. All paths below are relative to `src/`.

## 1. The system

Three binaries share a PostgreSQL database, a Redis server and an S3 bucket.

* The **agent** (`cmd/agent`) runs beside a customer's Odoo. Goroutines poll Odoo and
  tail its log, aggregate what they see and POST it to the server; a WebSocket brings
  feature flags back.
* The **server** (`cmd/server`) answers the dashboard and the agents. It stores errors
  in Postgres directly and puts telemetry batches on the Redis stream `agent:ingest`.
* The **worker** (`cmd/worker`) runs pools of stream consumers (ingest, alert), the
  notification worker and the retention worker. Several worker processes may run.

### Inventory

| component | state | operations | hard parts | what makes it correct |
|---|---|---|---|---|
| ring buffer (`internal/agent/ringbuf`) | slots, head, count | Push, DrainAll, Peek | wrap-around, rewind without clearing | is a drop-oldest FIFO; hands out written slots only |
| error pipeline (`internal/agent/errors`, `internal/service/error_service.go`) | buffer, poll cursor, batch in flight | poll, handleEntry, Flush, POST, re-push | producers interleave with the re-push; ambiguous POSTs; cancellation; a cursor in memory | events are conserved, held once; nothing skipped; counted again only for a reason; delivered in the end |
| telemetry pipeline (`aggregator`, `transport/sender.go`) | EventCh, window, SendCh, retry state | ingest, flush, sendBatch, drain | bounded channels, retries, handlers of given-up POSTs, two loops on one context | conservation, stream order and copies, shutdown |
| rate limiter (`transport/ratelimiter.go`) | two limits, two counters | Allow, Reset, UpdateLimits | lock-free check-then-record | recorded usage within the checked limit |
| credentials (`cmd/agent/main.go`, `agent_register_service.go`) | one-time tokens, API keys, credentials file, key in memory | loadOrRegister, SelfRegister, RefreshOnUnauthorized | concurrent 401s, lost replies, restarts, three statements without a transaction | a token gives one key; a restart finds the working key |
| log readers (`internal/agent/hook`) | open file, offset, entry accumulator | read, rotation check, flush | rotation and truncation between two reads, half-written entries, three copies of the loop | each entry once, whole and in order |
| N+1 tracker and sampler (`hook/ormcollector.go`, `sampler`) | time stamps per signature, prune counter, mode | Check, pruneAll, Allow, UpdateConfig | window boundary, prunes with another signature's time, a full EventCh | flags exactly what the window holds; hands it on if there is room |
| schema syncer (`internal/agent/syncer`) | hash of the last push | RunOnce, push, refresh and retry | collection in two steps; late and lost pushes | the server's newest snapshot converges to Odoo's schema |
| feature flags (`agent/flags`, `handler/ws_handler.go`) | registry, connections, stored and current flags, backoff | register, unregister, push, apply, reconnect | two ends close at different times; update races handshake | the connected agent is registered and has the stored flags |
| stream consumer (`internal/worker/consumer.go`) | consumer group, pending entries, batches | XREADGROUP, handler, XACK | crashes, lost replies, failed ACKs, trimming | one holder, at most once, ACK after success |
| alert worker (`internal/worker/alert.go`) | alerts in the dedup window | HasRecentAlert, CreateAlertWithDeliveryTx | check and insert are not atomic | one alert per key and window; no breach swallowed |
| notification worker (`internal/worker/notification.go`) | delivery rows, attempt counts | list, send, mark, reset | outcome lost between send and mark; replicas | "sent" is true, bounded retries, every delivery ends |
| error groups (`db/sqlc/tx_ingest_error.go`) | row, status, count, trace ref | upsert, resolve, acknowledge, reopen | snapshot before the lock | one spike alert per crossing; reopen alerts match |
| retention worker (`internal/worker/retention.go`) | expiring rows, S3 objects | list, delete objects, delete rows | row changes between the steps; one statement for many environments | a kept group keeps its trace, an environment its newest snapshot |
| ingest worker and budgets (`internal/worker/ingest.go`, `budget_service.go`) | stored rows, budgets, samples, published breaches | processMessage, CalculateOverhead, budget CRUD | partial failure of a batch; budgets edited under the handler; rounding | what is acknowledged is stored or logged; exceeded budgets are announced, and only those |
| sessions (`auth_service.go`, `helper.go`, `cache/redis.go`) | session rows, their copies in Redis, blacklist, counters | login, refresh, logout, revoke, list | refresh races logout; two stores without a transaction, one of which may lose keys; check before count | a refresh token works once, a revoked session stays revoked, guesses are bounded |
| account (`auth_service.go`, `tx_register_tenant.go`) | user, tenant plan, codes, reset tokens, password | register, verify, resend, profile, forgot, reset, change | a code outlives the address; failing mails and undo; parallel resets | only a proven address is verified; a reset token works once |
| tenant API (`internal/handler`, `internal/service`, `db/sqlc`) | all tables of two tenants | every service method that touches a table | ownership is checked once, then statements follow by id, and not at all for a batch; page and total are two queries | isolation of tenants, consistent pages, unique names |
| ACL debugger (`internal/acl`, `acl_service.go`) | none (a pipeline over one request) | five stages, group expansion, domain parse and evaluation | implicit operators, early ends, domains the parser refuses | the verdict is what the rules grant |
| migration scanner, profiler computations, window statistics | none | pure functions | string tables, tree building | agree with a reference definition (not modelled) |

Interactions: the tailer and the collector share the ring buffer with the flusher; the
collectors, the aggregator and the sender share two channels; every goroutine of the
agent that talks to the server shares the credential manager; the flag receiver writes
the sampler's and the rate limiter's configuration; server and ingest workers share
`agent:ingest`, ingest and alert workers share `agent:alert`; the alert worker's
transaction creates the rows the notification worker polls; ingestion, users and the
retention worker write the same rows, and the API reads them.

## 2. Modules

| module | models | composed with |
|---|---|---|
| `DropOldestQueue` | what the ring buffer promises (abstract) | |
| `RingBuffer` | `ringbuf.go`; one action per method, as each holds the mutex throughout | implements `DropOldestQueue` |
| `ErrorPipeline` | collector, tailer push, flusher, server ingestion | uses `DropOldestQueue` as its buffer |
| `TelemetryPipeline` | collectors, aggregator, sender, `/agent/batch` | |
| `RateLimiter` | `ratelimiter.go` and the flag applier, one action per atomic access | |
| `AgentIdentity` | tokens, keys, self-registration, the credential manager and its file | |
| `LogTailer` | the three readers of Odoo's log | hands its entries to `ErrorPipeline`'s push |
| `N1Tracker` | `n1Tracker` and the sampler | |
| `SchemaSyncer` | `syncer.go` and the snapshots the server stores | |
| `FeatureFlags` | `ws_handler.go` and `flags.go` for one environment | |
| `StreamConsumer` | `consumer.go`, any handler | |
| `AlertWorker` | `alert.go` | extends `StreamConsumer`, and implements it |
| `IngestWorker` | `ingest.go` and `budget_service.go` | extends `StreamConsumer`, and implements it; what it publishes is `AlertWorker`'s input, one error event of it is a transaction of `ErrorGroups` |
| `NotificationWorker` | `notification.go` and the tables it polls | |
| `ErrorGroups` | one row of `error_groups`, its ingesters, users and retention | |
| `AuthSessions` | login, refresh, logout and revocation of one user, in Postgres and Redis | |
| `Account` | registration, verification, profile and passwords of one owner | |
| `Store` | the SQL statements as operators on a record of tables | |
| `TenantApi` | handlers and services of the dashboard and agent API, the workers' inserts, a retention run | extends `Store` |
| `RuleDomain` | domain parser and evaluator of record rules | |
| `AccessTrace` | the ACL debugger's five stages | extends `RuleDomain` |
| `StreamConsumer_proofs`, `AlertWorker_proofs`, `NotificationWorker_proofs` | theorems about the module in the name | `AlertWorker_proofs` extends `StreamConsumer_proofs` |
| `Agent_proofs` | theorems about `RingBuffer`, `RateLimiter`, `AgentIdentity`, `N1Tracker`, `TelemetryPipeline` | |
| `ErrorPipeline_proofs` | theorems about `ErrorPipeline` and `LogTailer` | |
| `Ingest_proofs` | theorems about `ErrorGroups` and `IngestWorker` | extends `StreamConsumer_proofs` |
| `Connections_proofs` | theorems about `AuthSessions`, `Account`, `FeatureFlags` | |
| `Server_proofs` | theorems about `TenantApi` with its `Store`, and `AccessTrace` with its `RuleDomain` | |
| `MC*` | the instance the runs check | |

Components that share no state are checked in one run where that asks one question of
one binary: `MCAgentParts`, `MCIngest`, `MCTelemetry`, `MCConnections` and `MCServer`
have a variable `part` that is chosen at the start and never changes; a behaviour is a
behaviour of that part, and the variables of the others keep their initial values. The
state spaces are added, not multiplied.

How state and actions correspond to the code:

* **RingBuffer** keeps the fields of the struct (`items`, `head`, `count`) with Go's
  indices from 0, and the slice the last read returned.
* **ErrorPipeline** has one action per atomic stretch of each goroutine: a poll, one
  record, a drain, one POST outcome, one turn of the re-push loop. A POST commits the
  first `k` events on the server, each in its transaction, and then succeeds, fails, is
  refused, is unauthorized or is cut off by the cancelled context; `k` counts what the
  handler ever commits, also after the agent has given the POST up. An event is one
  *capture* of an error: Odoo may write one error to `ir.logging` and to the log file,
  the collector and the tailer run side by side without comparing notes
  (`cmd/agent/main.go` 496, 519-520), and an agent that starts again polls from row 0,
  as the cursor is in memory (`collector.go` 26, 49). `Restart` ends the process at any
  point and begins the next life with an empty buffer and no cursor.
* **TelemetryPipeline** numbers the events in the order the collectors offer them. A
  batch is its set of events. `TakeBatch` is the head of `sendBatch` (rate limit
  included), `PostOk`/`PostFails` are the outcomes of a POST. The server's handler of a
  POST is an actor of its own: when the agent gives the POST up (the client's timeout,
  `sender.go` 42, or the drain's deadline, 104), the handler may still run and XADD the
  batch at any later time, and one handler may XADD it up to `XAddTries` times, as
  go-redis repeats a command whose reply it lost (`redis.go` sets no MaxRetries, so 3
  retries). The stream records the copies. A batch taken from SendCh by the normal
  select case after the cancellation fails at once, as its context is cancelled; the
  drain loop has a context of its own. What a window computes from its events is left
  out.
* **RateLimiter** splits `Allow`, `Reset` and `UpdateLimits` at their atomic accesses.
  Loading a limit and the counter it is compared with is one step: no other goroutine
  writes both, so any interleaving between the two loads has the effect of one before
  or after them.
* **AgentIdentity** runs each registration as three statements on the server (look up
  the token, create the key, clear the token) with a reply that may be lost; on the
  agent it has the start-up paths (configured, cached, registering with retries), the
  goroutines that send, and the refresh under the manager's mutex, which deletes the
  file, registers and saves. `doubtful`, `unsaved` and `twice` are history variables.
* **LogTailer** makes a log a sequence of pieces, a piece being what Odoo wrote between
  two reads, and numbers the entries. Which reader runs is chosen at the start, as the
  readers differ in what they flush and when. What the accumulator makes of the pieces
  of one read is a recursive function over them (`Fed`: what it assembles, `Sent`: what
  it hands on). `missable` and `mangled` record the cases in which the code gives up an
  entry or its text.
* **N1Tracker** keeps the time stamps per signature as slices and has one action per
  `Check`, the periodic prune included; the sampler's decision on the event follows in
  the same action, and the non-blocking send on EventCh, whose `default` branch drops
  the event when the channel is full (`ormcollector.go` 263-269). The aggregator makes
  and takes room at any time. A sampling rate is a choice.
* **SchemaSyncer** collects the models and the rules at different times, so a payload
  is a pair of versions and its own hash. A push that is given up stays under way and may
  be stored later.
* **FeatureFlags** has two ends per connection. Flags are told apart by the update that
  stored them. Heartbeats and log lines travel on the same socket and touch none of
  this state.
* **StreamConsumer** represents the consumer group by its last delivered id and its
  pending entries; a message is its id. `XAdd` may trim, as `MAXLEN ~` does.
* **AlertWorker** replaces the consumer's handler by the two database calls of
  `processMessage`. The dedup window is a set that alerts leave at any time; `blind` is a
  history variable.
* **IngestWorker** replaces the handler by the calls of `processMessage`: the inserts of
  error events, ORM stats and the recording are numbered rows, then come the listing of
  the budgets, one sample per budget and one XADD per breach. Overheads are compared as
  exact fractions; at equality the float comparison is a nondeterministic choice. The
  ingest stream is not trimmed (`HandleIngestBatch` sets no MAXLEN). `listed` and `raced`
  are history variables.
* **NotificationWorker** has a row per alert and channel. History variables record what
  the recipient got, which outcomes the table does not show, and which rows two workers
  held at once.
* **ErrorGroups** makes the transaction two steps, the unlocked snapshot and everything
  from the upsert on, as the upsert holds the row lock until the commit (READ COMMITTED,
  Postgres' default; `exec_tx.go` sets no other level).
* **AuthSessions** and **Account** run each request statement by statement, one record
  per device or browser saying what it does next. A command to Redis, a statement or a
  mail may fail, and Redis may lose keys without any command (`RedisLosesKeys`:
  eviction, as `deploy/docker-compose.yml` runs it with `allkeys-lru` at 256 MB, or a
  flush), up to a bound. Another tenant may register the owner's address, as users are
  unique within their tenant only, and that overwrites the code of the address. Tokens,
  codes and passwords are numbers. Refresh tokens are good or not by the row in
  Postgres; access tokens are left out, as they are checked by signature and lifetime
  only.
* **Store** has one operator per query the services use, with its WHERE, ORDER BY,
  LIMIT and ON DELETE CASCADE. Rows are numbered in order of creation and every time
  stamp follows the numbers, which makes an ordering or a cutoff a statement on ids.
* **TenantApi** gives a request its tenant, checks the environment in the URL, and then
  takes the statements of one service method one at a time, in the method's order. The
  check is the same for all methods, so the method is chosen after it. `area` says which
  group of methods a behaviour uses, `Pairs` the areas in which two requests overlap.
  Every step that writes has a tenant in whose name it acts (the caller's, the API key's
  of a batch or a socket, the one retention runs for), and `leaks` records each row it
  shows or touches whose owner is another, with the path it came by.
* **RuleDomain** takes a domain as the sequence of its elements; lexing, the `like`
  operators and the print form of values other than small numbers are left out. Of what
  the parser refuses it has two elements: the condition `(1,'=',1)`, whose field is no
  string, and a text that is no list, such as the empty one. A node
  of the tree is the index of the element it was read from, so that the recursive descent
  and the evaluation are recursive functions over indices.
* **AccessTrace** has one action per stage of the pipeline; the loop of the second stage,
  which expands the user's groups, is taken turn by turn.

Operators whose comment says *Mutant of X* are deliberate mistakes: substituting one for
`X` must break the property named in `PROJECT.json`. No specification refers to them.

## 3. Runs

Each run is `tlc -config <cfg> <module>`; `PROJECT.json` has the full list. Runs that pass:

| run | bounds | shows |
|---|---|---|
| `agent_parts` | ring of 3 slots, 3 values; limiter sizes 1-2, 6 bytes, 2 batches, 2 resets, 2 updates; tailer 3 entries, 1 rotation, 2 opens; identity 2 goroutines, 2 tokens, 4 keys, 2 faults, 3 starts; N+1 2 signatures, time stamps to 2, window 1, threshold 2, prune every 2, 4 checks | the ring implements the queue; a torn reset at most doubles a quota; entries are lost only around a rotation or a stop, the rest is whole and in order; a token gives one key and a restart finds it, but for the named races; N+1 is flagged exactly by the window and handed on if there is room |
| `error_pipeline` | buffer 2, 3 rows, 1 of them empty and 1 also in the log file, page 2, body 1, 1 fault, 1 restart | conservation, no duplicates inside the agent, a capture or an error counted again only for a named reason, no skipped row; a captured error arrives, is overwritten, is stuck in a refused batch, or the agent stops |
| `telemetry` | 3 events, EventCh 1, SendCh 2, 2 attempts, 2 XADDs per POST and 3 in all; schema of 2 parts with 2 versions, 2 changes, 5 pushes, 2 faults | conservation over three goroutines, stream order; each event concludes; shutdown ends; the newest snapshot becomes Odoo's schema and stays so |
| `connections` | 2 connections, 2 admins, 2 updates; 2 devices, 3 tokens, or 2 tokens with lock at 2 and 4 guesses, 1 failing Redis command or loss of keys; 2 browsers, 2 addresses, 2 users, 3 codes, or 2 codes with 3 passwords, 1 fault | flags are current unless raced; a refresh or reset token works once, revocation is final, the session list is true at rest but for lost copies, guesses are bounded, a verified address was proven |
| `alert` | 2 goroutines, 2 messages, 2 keys, batch 2, trim to 1, 2 faults | a message is handled at most once; deduplication up to blind checks, no breach swallowed, every breach is alerted |
| `ingest` | 2 goroutines, 2 messages, batch 2, 2 budgets, 1 edit, 1 fault; 2 transactions, 3 events, 2 traces, threshold 2 | no row of an acknowledged batch lost silently; exceeded budgets announced or logged; breaches founded; one spike alert per crossing, reopen alerts match unless raced; a trace is lost only through retention |
| `notification` | 2 workers, 2 deliveries, batch 2, 3 attempts, 1 fault | "sent" is true, duplicates only if unrecorded or contested, retries stop, every delivery concludes |
| `server` | 2 tenants, 2 requests, 3 environments, 4 rows, 3 kinds of recordings, 11 areas of the API; ACL requests: every group hierarchy of 3, every pair of 36 rules, every domain of up to 5 elements, refused elements, every operator on 11 kinds of values | no response holds and no step in a tenant's name changes another tenant's row, but for the rows of a batch; pages within totals; names unique unless raced; retention keeps each newest snapshot; the ACL verdict is what the rules grant |

The type invariants of the modules that section 4 proves something about are parts of the
inductive invariants there and not repeated in the runs, and neither are the proved
`OneHolder`, `AckedWasHandled`, `LiveSlotsWritten`, `RecordedWithinLimit` and the
refinement `ImplementsConsumer`.

Why the bounds are enough: each channel or buffer is small enough to fill and wrap, each
pool has the two actors a race needs, each retry counter is reached and passed, each
page or batch is smaller than what is waiting, and there is at least one fault for every
kind of fault an action models. In `ingest` the one threshold is 33%, with one module
exactly at it and one a third of a percent above; edits deactivate, delete or rewrite a
budget, and a second threshold value only multiplies states (it was checked once, with
the same result). In `server` two requests overlap in the areas where the methods write
what another method reads between its statements; in the others one request overlaps
with the workers. There the environments have one type and one status, which the filters
of a list compare; with a second status the run has twice the states and gave the same
result. In `connections` the sessions and the account are explored twice each, once with
wrong passwords or new passwords and fewer tokens or codes, once without them and with
more; all bounds together were checked once, with the same result. Four tokens or keys
let a token be used, lost, issued again and raced. Symmetry is used for safety only. Deadlock checking is off because every behaviour may stop: the
bounds on messages, events and connections run out, and the programs stop.

Runs that end in a counterexample state what a comment of the code says, and show that
the code does something else (`findings` quotes the lines):

| run | what happens |
|---|---|
| `telemetry_shutdown` | the sender returns before the aggregator's final flush |
| `feature_flags_registry` | the handler of a replaced connection unregisters its successor |
| `stream_consumer_retry` | a failed message is never retried nor dead-lettered |
| `auth_resend` | an owner whose first code has expired can never get a fresh one: the route needs an active tenant, and only a code makes it active |

### Boundaries of the guarded properties

Several properties name an exception. Each exception is a behaviour of the code that
the model contains, and dropping it from the property gives a counterexample:

* `DeliveredUnlessOversize`, *refused batch*: `Flush` posts the whole buffer as one body
  and the route refuses more than 1 MB, so a refused batch is pushed back and posted
  again in one piece on every tick. *Overwritten*: producers refill the buffer during
  the POST, and the re-push then overwrites entries, also of the failed batch itself,
  which the comment at `flusher.go:114` does not expect.
* `CountedAgainOnlyForAReason`: an error is counted several times when a POST failed whose
  events were stored, when it is both a row of `ir.logging` and an entry of the log file,
  and when the agent restarted in between, although the comment at `event.go:43` has the
  high-water mark avoid it: that mark starts at 0 with every process.
* `StreamInOrder`: a batch that comes after a newer one was given up or is a further copy,
  and there are at most `MaxAttempts * XAddTries` copies of one. The run has three XADDs
  in all, enough for late, repeated and reordered copies but not for more than the four
  the bound allows there, as more make its liveness checks too long. The bound rests on
  the proof; both safety properties were also checked once with five XADDs.
* `OneRecentAlertPerKey`, *blind*: `HasRecentAlert` and the insert are two statements,
  so two goroutines (WorkerCount above 1) can both find no alert; a failed check goes
  on to create the alert.
* `BreachIsFounded`, *raced*: the handler announces a breach with the threshold it
  listed, also when the budget has since been changed, deactivated or deleted.
* `RowsAccountedFor`, `BreachAnnounced`, *logged*: the handler returns nil whatever
  failed inside, so a batch is acknowledged with rows missing and only the log tells.
  A failed listing of the budgets measures nothing (`listed` is empty then).
* `ReceivedAsRecorded`, `RetriesStop`, *contested*: the listing query claims nothing, so
  two worker processes send one row. The bound of `RetriesStop` is `MaxAttempts - 1`, but
  at least 1: `attempt` starts at 1 and counts failures, and the first try is made
  without looking at it.
* `ReopenAlertsUnlessRaced`, *raced*: the status snapshot takes no lock; two
  transactions can both see the closed row (two alerts, one reopening), and a user who
  resolves the group after a snapshot leaves a reopening without an alert.
* `TraceLostOnlyByRetention`, *listed*: a group that leaves the expired set between the
  listing of its trace and the deletion of rows keeps its row and loses its trace. The
  property says nothing of the HTTP path, which stores the traceback itself in
  `raw_trace_ref` and no object in S3.
* `LatestFlagsUnlessRaced`, *raced*: an update between `validateRequest` and `register`
  is neither pushed nor sent on connect, and two pushes may be written in the other
  order; *replaced*: see `feature_flags_registry`.
* `TickAtMostDoubles`, *no flag update*: the applier passes 0 for the batch limit, which
  switches it off (`cmd/agent/main.go:547`).
* `LostOnlyAroundRotation`, `EntriesWholeInOrder`, *missable, mangled*: the reader opens
  at the end of the file, also after a truncation, so what was written before it opened
  again is not read, although the comment at `logparser.go:44` has it re-read from the
  start; what was unread in a renamed file is given up. A read that ends inside a line
  takes the part as a line, although the comment at `logparser.go:200` has it left for
  the next poll: `ReadString` returns what it has. An entry is emitted only when the
  next header or a flush comes, and what Odoo appends to it afterwards is dropped.
* `TokenGrantsOneKey`, *doubtful*: the key is created before the token is cleared, without
  a transaction. `RestartFindsKeyUnlessRefreshedTwice`, *twice*: a goroutine that waited
  for the mutex deletes the file of the key its predecessor has just saved, and its own
  registration fails as the token is used.
* `RefreshUsedOnce`, *contended*; `SessionListTrueUnlessDisturbed`, *disturbed*;
  `ResetTokenUsedOnce`, *shared*: find, use and delete are separate statements.
  `GuessesBounded` allows the attempts under way when the lock comes, and one per failed
  Redis command; when Redis loses the counter or the lock a new window begins.
* `SessionListTrueUnlessDisturbed`, *lost*: `GetUserSessions` falls back to the rows only
  when Redis has no copy at all (`auth_service.go` 590, 598), so after a flush the first
  new login hides the user's older sessions, and an evicted copy hides its session. They
  still work, and the list never shows what is not stored.
* `VerifiedIsCurrentUnlessOutdated`, *outdated*: a code names the user, so the code sent
  to an earlier address marks the present one as verified.
* `SchemaArrives`, *disturbed*: a push the agent gave up is stored after a later one, and
  the hash of the later one then skips the push that would repair it.
* `TenantIsolation`, *batch*: `/agent/batch` takes the tenant from the API key and the
  environment from the body, and neither the handler (`batch_handler.go` 80-96) nor the
  ingest worker (`ingest.go` 107-139) compares the two. `IngestErrorBatchTx` upserts by the
  environment alone (`tx_ingest_error.go` 38-56), so a batch can insert rows into another
  tenant's environment and count or reopen its error groups; alerts made from it go to the
  channels of the key's tenant. The property allows exactly the tables those workers
  write (`BatchTables`) and that path. `POST /agent/errors` and the schema's route do
  check, and what a row says of who acknowledged, resolved or issued it stays right.
* `NamesUniqueUnlessRaced`, *racedNames*: no unique constraint stands behind the check.
* `FlaggedExactlyInOrder`, *in order*: several Odoo processes write one log; when a time
  stamp goes back, the window holds queries newer than its end. *Full*: the sampler lets a
  flagged query through in every mode, but its send does not wait for room in EventCh.
* `VerdictMatchesRules`, *AllAccepted*: `domain_evaluator.go:21` says that an empty domain
  or `(1,'=',1)` always passes, and so reads the definition the verdict is compared with.
  The code passes `[]`, but `parser.go:136` takes a string only as the field, and
  `parser.go:72` no empty text, which is how the agent sends a rule without a domain
  (`collector/acl.go` 132, 159-168): the rule fails and the answer is DENIED where Odoo
  would put no filter. The property allows that one direction: where the parser
  refuses an element the code may deny what the rules grant, and never allows more.
* `VerdictMatchesRules`, *Traceable*: where the snapshot or the record lack a field, the
  evaluator passes: NOT over an undecidable condition, `<=` on values that are not
  numbers, and `child_of`, of which `domain_evaluator.go:22` says that such conditions
  are marked as "unevaluable" with a warning. A many2one read as `[id, name]` equals no
  id. A user in none of the groups of the group rules is denied, as the reference
  definition has it.
* The receiver's backoff is only ever doubled: `connectAndListen` returns an error
  whenever a connection ends while the agent runs, so the reset in `Run` is not reached.

Seen while modelling, without a property: the total beside the list of alerts counts the
unacknowledged ones only, whatever the filter; `SearchModels` pages over a Go map, whose
order differs between two calls; the server-log handlers read Redis by the environment's
id without the ownership check the other routes make.

### Fairness

Weak fairness stands for what the code's scheduling gives: the Go runtime runs every
goroutine, tickers keep firing, calls return because clients have timeouts. It is never
assumed that a POST, a send or a handler succeeds, that users or Odoo do anything, or
that trimming spares a message. `NotificationWorker` needs strong fairness of the retry
reset: both tickers are cases of one `select`, which picks among ready cases at random,
so the reset is enabled again and again rather than for ever. `SchemaArrives` assumes
that the loop ticks for ever and that the server gets to the requests it received. In
`auth_resend` the owner is assumed to keep trying whatever the API lets them try, which
makes the counterexample stronger. Where failures must be finite for a liveness
property, the bound on faults says so.

## 4. Proofs

Each theorem holds for every value of the constants that the named `ASSUME`s of the
modules allow. All but the three refinements and the action properties have the form
`Spec => []Property`; the properties are those of section 3.

| module | theorems | for every |
|---|---|---|
| `Agent_proofs`, ring | `TypeCorrect`, `OnlyWrittenSlotsAreRead`, `RingImplementsQueue` (refinement) | capacity, element type |
| `Agent_proofs`, limiter | `SingleSenderIsFine`, `TornResetIsBounded` | limit, size, number of resets and updates |
| `Agent_proofs`, identity | `TokensGrantOneKey`, `RestartFindsKey` | number of goroutines, tokens, keys, starts and faults |
| `Agent_proofs`, N+1 | `N1FlagsExact` | window, threshold, prune interval, log, fill of EventCh |
| `Agent_proofs`, telemetry | `EventsAccountedFor`, `StreamKeepsOrder` | channel sizes, attempts, tries of an XADD, number of events |
| `ErrorPipeline_proofs`, pipeline | `EventsConserved`, `DoubleCountsExplained`, `PollingSkipsNothing` | capacity, page, body limit, rows and log entries in common or not, number of faults and restarts |
| `ErrorPipeline_proofs`, log readers | `LostOnlyWhereGivenUp`, `EntriesKeepTheirText` | number of entries, rotations, openings; pieces per read |
| `StreamConsumer_proofs` | `ConsumerTypeCorrect`, `OneHolderAlways`, `AtMostOnce`, `AckOnlyAfterHandling` | pool, batch size, trimming, number of faults |
| `AlertWorker_proofs` | `AlertPoolIsConsumer` (refinement), `NoBreachSwallowed`, `DedupHoldsUnlessBlind` | pool, keys |
| `Ingest_proofs`, pool | `IngestPoolIsConsumer` (refinement), `NoRowLostSilently`, `BreachesFounded` (action property), `BreachesAnnounced` | pool, batches, budgets, edits |
| `Ingest_proofs`, groups | `SpikesAlertOnce`, `ReopeningsAlerted`, `TracesKept` | number of transactions, events, traces, threshold |
| `NotificationWorker_proofs` | `DeliveriesReceivedAsRecorded`, `DeliveryRetriesStop` | number of workers, alerts, channels, attempts, faults |
| `Connections_proofs`, sessions | `RefreshTokensUsedOnce`, `SessionListTrue`, `WrongPasswordsBounded` | number of devices, tokens, guesses, faults and losses; lock threshold |
| `Connections_proofs`, account | `VerifiedAddressProven`, `ResetTokensUsedOnce` | number of browsers, addresses, codes, passwords, faults |
| `Connections_proofs`, flags | `FlagsReachAgent` | number of connections, administrators, updates |
| `Server_proofs`, API | `ApiInvariant`, `ApiTenantIsolation`, `ApiPageWithinTotal`, `ApiNamesUnique`, `ApiRetention` (action property) | number of tenants, requests, rows; areas that overlap |
| `Server_proofs`, ACL | `VerdictIsGranted` | groups and what they imply, access rules, record rules, domains of any length |

Assumptions: capacities, batch sizes and attempts are positive and bounds natural;
pools, devices and tenants are finite sets, and there is a device; a malformed payload
is no key and no batch; the rows of a batch
are counted by a natural number and its profiler events are a sequence with numbers of
milliseconds; window, threshold and prune interval of the N+1 tracker are positive, as
`NewORMCollector` replaces values that are not.

### The arguments

Hardly any property is inductive as it stands, as it depends on what a goroutine or
request found out some steps before it acts. TLC checked each inductive invariant on a
small instance before it was proved.

* **Ring buffer.** `tail` and the read positions are modular expressions; lemmas give
  them a closed form without `%` (a slot is below or above the wrap), from which the
  effect of Push on the window follows by cases. `LiveSlotsWritten` is made inductive by
  stating it in the closed form (`WindowWritten`). The refinement maps the queue to the
  window read oldest first.
* **Rate limiter.** `CheckStillHolds` carries a passed check to the record: only Reset
  writes in between, and it lowers the counter. `QuotaSinceTick` relates the batches
  sent since the tick to the counter: while Reset is between its stores they are
  included in it, afterwards they exceed it by at most one quota.
* **Identity.** `GrantInv`: two calls that are past the lookup of one token make it
  doubtful; while a token that gave a key is not doubtful, no call is about to create a
  key for it, and if the row still holds it the call that will clear it is under way.
  `FileInv` must also hold inside a refresh, where file and memory differ: a key in
  memory that is not in the file is one the server does not know any more, and it never
  learns a key again.
* **N+1 tracker.** `KeptCount`: for every cutoff that is not before the newest window,
  the kept times of a signature at or after the cutoff are as many as the queries of the
  log; `KeptWereSeen` bounds the kept times by the log's newest. Pruning with a time of
  another signature keeps both, as time stamps grow. The lemmas on `Pruned` (it is
  ordered, only drops what is before the cutoff) carry the proof; `Answered` then ties
  each answer, and what became of a flagged event, to the window and the channel at
  that moment, which later queries do not change.
* **Error pipeline.** `Distinct` and `HeldApart`: buffer, batch, the rows still to be
  pushed and the part of a batch not yet pushed back are free of repetitions and of each
  other, so re-pushing holds nothing twice; `SourcesFresh`: what a poll still has to push
  is new in this life of the agent, and a row it has captured in this life is behind the
  cursor. A restart empties the places and starts the next life, whose captures are all
  new. `CommitsBounded`: an event the agent still holds was committed at most once
  per fault, and one it never captured was not. `CursorOK`: between the cursor and a row
  of the page there are only rows of the page, handled rows and late ones.
* **Log readers.** `TailInv` puts the places of an entry in order: what was handed on is
  older than what is being assembled, and that is older than the headers still unread;
  an entry that was written and is none of these is missable. The text of an entry
  is whole, or still to be read right behind its header, unless the entry is mangled.
  A read takes any number of pieces at once: what `Fed` and `Sent` make of them is
  proved by taking the least index at which the claim fails (`FedHolds`, `SentFacts`).
* **Telemetry pipeline.** `PlacesInOrder` orders the places of the pipeline: stream
  before batch, SendCh, window and EventCh. Hence an event is in one place and the
  stream is ordered (`StreamSorted`). As a handler may add a batch long after the agent
  moved on, the order is that of the batches ever posted (`PostedInOrder`): such a batch
  is the one being sent, in the stream, or given up. `PostsNumbered` and
  `EntriesDistinct` number the POSTs of a batch and the copies of a POST, so that its
  entries inject into pairs of both numbers, which bounds them. Cardinalities of the
  disjoint places are added by lemmas on finite sets and on sequences without
  repetition.
* **Consumer.** `HandledAtMostOnce` needs to know that what a goroutine is about to
  handle was not handled before. `IInv` adds that held messages are pending and pairwise
  disjoint, that pending and handled ids are at or below the last delivered one, and that
  a message still to be handled in a batch has count 0 while the one being acknowledged
  has count 1. Reads deliver only ids above the last delivered one, which re-establishes
  it.
* **Alert worker.** The refinement needs only that a handler is between its database
  calls while its message is being handled (`AlertInv`). `HandledIsAlerted` then follows
  as alerts are never removed. `OneRecentAlertPerKey`: an insert relies on what its check
  found earlier. `DedupInv` adds that an alert of the key which is in the window by then,
  and an insert of the key another goroutine is about to make, have a blind check on one
  side; the three parts re-establish each other at check and insert.
* **Ingest worker.** On top of the consumer's `IInv`, `RowsSoFar` says which rows a
  handler has behind it and that these are stored or logged, `ListingHolds` that a budget
  it listed is unchanged or raced. `OnItsWay` follows each exceeded budget from the
  listing through the samples to the publications; that an exceeded budget is never the
  tie of the float comparison is arithmetic (`OverIsExceeded`), for which the fold over
  the profiler events has to be a number (`SumIsNumber`, by induction on the size of the
  set summed over). Each step is a step of the consumer or leaves it alone, which makes
  the pool a refinement of it.
* **Error groups.** `SnapshotHolds`: while nothing raced, an open transaction's snapshot
  is the row's status. `SpikeState` and `TraceState` state the properties for a row that
  may be gone, and that a transaction's trace is stored before its upsert.
* **Notification worker.** `Exclusive`: a row that two workers hold is contested.
  `RowOK` says that nothing happened to a delivery whose alert is still to come, and
  what a waiting or sent row tells; `Counts` bounds the tries and receipts of a row by
  its `attempt`, its status and where the worker that holds it is. The attempt to prove
  the first version of `RetriesStop` failed for `MaxAttempts = 1`, where the bound
  `MaxAttempts - 1` is wrong: the property was corrected.
* **Sessions and account.** `Rotation`: no row has a token that was exchanged, and a
  refresh that holds one, or the same token as another refresh, has made it contended;
  tokens and session ids are distinct. `ListInv`: undisturbed, at most one request is
  under way and the copies in Redis differ from the rows by what its stage has still to
  do and by the copies lost since they were stored (`CopyAt`). `GuessInv` counts guesses
  against the counter, the lock, and the requests that passed the check. `ResetInv` is
  the pattern of `GrantInv` for reset tokens.
* **Feature flags.** `FlowInv`: while a connection is served, the last message on its way to
  the agent, the flags it runs with, or a push that is about to be written carries what is
  stored, unless raced or replaced; `RegistryInv` says that the handler that serves is the
  registered one, `UpdateInv` that an update under way is the only one and the stored one,
  and that a handshake read what is stored.
* **Tenant API.** `ApiInv` has a part for the tables, `DbInv` (types, keys, foreign
  keys, and that what a row says of its tenant is what its environment says), and one
  for each request, `RequestInv`: what a request between two statements relies on. A
  request that passed the ownership check has an environment of its tenant or one that
  is gone for good, as ids are not used again (`RequestOwns`); the rows it counted and
  the names it found free are void once another step changed the tables
  (`RequestCounted`, `RequestChecked`). Each operator of `Store` keeps `DbInv` and
  changes rows of one tenant only (`DbStep`), which makes isolation a lemma per
  statement and lets the other requests keep what they rely on. The rows of a batch are
  stored in the name of their environment's owner for this purpose, whoever's key it
  was: they keep `DbInv` all the same, and what they touch is in `BatchTables`
  (`BatchWrites`). For `ApiRetention` the newest snapshot of an environment is the
  newest of those that are left. The attempt to prove `PageWithinTotal` showed that two
  CASEs of the model overlapped; their guards now exclude each other.
* **ACL debugger.** The parser reads a domain from its beginning, the definition from
  its end with a stack. `NodesMeanValues`, by induction from the end: an operand that
  can be read from an index leaves its value on top of what the elements behind it
  leave. `ResultsLeft`: reading leaves as many results as there are conditions more than
  joining operators, and `needed` is one less, so the implicit operators join the whole
  stack; hence `AcceptedIsDomainHolds`, and `EvalRuleIsDomainHolds` for every domain: a
  rule passes when its domain is accepted and holds. The expansion of groups keeps what
  it has within every closed set, and the part that is not queued closed
  (`ExpandingInv`), so it ends with the least one. `StagesInv` ties every stage to a
  condition on the request alone, and `RulesDecide` the two ways of joining the rules.

### Only model-checked

* All liveness properties: fairness and `ENABLED` are outside the prover.
* The runs that end in a counterexample: a counterexample is an instance.

Every safety invariant and every action property of a passing run is stated by a theorem.

## 5. Not modelled

* The migration scanner (`internal/migration`): matching of source text and schemas
  against a table of deprecations, string by string, without state. The scans it stores
  are rows of `TenantApi`.
* What the services compute from rows they read: waterfalls, compute chains, N+1
  patterns, budget breakdowns, schema diffs, and the statistics of a telemetry window.
  They are pure functions of one payload whose shape the models leave out.
* Odoo's XML-RPC client and the collectors' parsing: they are the inputs of the pipelines.
* The request rate limiter, CORS, logging and token parsing of the middleware; server
  logs kept in Redis; queries that nothing calls (billing, anonymization).
* Generated text (`docs`), mocks, formatting, templates, and the debug feeder, which is
  for local development.

## 6. Plan

Done: the agent's data paths, its identity, log readers, limiter, syncer and detection;
the consumers, ingestion with budgets, alerts, notifications, error groups and
retention; sessions and accounts; the tenants' API with its tables; the ACL debugger.

Proved: the safety properties of all modules (section 4). The order was: agent and
consumers first, as their races are the hardest to test, then the workers' handlers,
sessions and flags, and at last the API and the ACL debugger, whose arguments are long
rather than subtle.

What would extend it: the statistics of a telemetry window and the profiler's tree of
queries as pure functions with a reference definition (section 5); a theorem that one
error event of `IngestWorker` is a transaction of `ErrorGroups`, which share no state in
the model; and liveness arguments by hand, from the fairness of section 3.
