----------------------------- MODULE TenantApi -----------------------------
(***************************************************************************)
(* The tenants' HTTP API over the shared database: handlers and services   *)
(* for environments, API keys, error groups, alerts, notification          *)
(* channels, recordings, N+1 patterns, schemas, migration scans, budgets,  *)
(* the overview and the audit log (internal/handler, internal/service),    *)
(* together with the workers' inserts and the retention worker's deletes.  *)
(*                                                                         *)
(* Authentication gives a request its tenant (middleware/tenant.go).  A    *)
(* service method first checks that the environment in the URL is the      *)
(* tenant's and then works with the environment's id alone, statement by   *)
(* statement, without a transaction; other requests and the workers run    *)
(* between the statements.  The check does not depend on the operation, so *)
(* the model chooses the operation when the check has passed.              *)
(*                                                                         *)
(* The agents' batches are the exception: batch_handler.go takes the tenant *)
(* from the API key and the environment from the body, and neither it nor  *)
(* the ingest worker compares the two.                                     *)
(***************************************************************************)
EXTENDS Store

CONSTANTS
    Tenant,     \* tenants
    Client,     \* requests in flight
    Area,       \* parts of the API, explored one at a time
    Names, Types, Statuses, \* names, types and statuses of environments
    Signatures, \* signatures of error groups
    Recordings, \* kinds of recordings: with a chain, slow, with N+1 patterns
    Pages,      \* limits and offsets of lists, as the services normalise them
    Pairs,      \* bound: areas where two requests on environments overlap;
                \* elsewhere one overlaps with the workers and with deletions
    MaxEnvironments, \* bound: number of the last environment created
    MaxRows     \* bound: rows ever created, the first environments included

ASSUME TenantApiAssumption ==
    /\ IsFiniteSet(Tenant)
    /\ MaxRows \in Nat /\ MaxEnvironments \in 0..MaxRows
    /\ Pages \subseteq [limit : Nat \ {0}, offset : Nat]

VARIABLES
    area,       \* the part of the API in use
    db,         \* the database
    nextId,     \* number of the next row
    req,        \* [Client -> progress of its request]
    leaks,      \* <<path, table>> for rows that a response held or a step
                \* touched in the name of another than their owner, history
    overfull,   \* lists and figures larger than their total, history
    racedNames  \* environments whose name was checked before some other
                \* request or worker changed the database, history

vars == <<area, db, nextId, req, leaks, overfull, racedNames>>

Idle == [at |-> "idle"]
Ids == 1..(nextId - 1)
AnEnvironment(id, tenant, name, type) ==
    [id |-> id, tenant |-> tenant, name |-> name, type |-> type, status |-> "active"]

\* Every tenant has registered and created its first environment.
Init ==
    /\ area \in Area
    /\ \E order \in [Tenant -> 1..Cardinality(Tenant)] :
          /\ \A t, u \in Tenant : t # u => order[t] # order[u]
          /\ \E name \in Names, type \in Types :
                db = [EmptyDb EXCEPT !.environments =
                        {AnEnvironment(order[t], t, name, type) : t \in Tenant}]
    /\ nextId = Cardinality(Tenant) + 1
    /\ req = [c \in Client |-> Idle]
    /\ leaks = {} /\ overfull = {} /\ racedNames = {}
-----------------------------------------------------------------------------
(* Owners of rows, and what a step of a request shows and changes. *)

TenantOf(env) == (CHOOSE e \in db.environments : e.id = env).tenant
Owner(table, r) ==
    CASE table \in TenantTables -> r.tenant
      [] table \in EnvTables -> TenantOf(r.env)
      [] OTHER -> TenantOf((CHOOSE b \in db.perf_budgets : b.id = r.budget).env)

\* Rows that newDb no longer holds, or did not hold before, as they are.
Changed(newDb) ==
    UNION {{t} \X ((db[t] \ newDb[t]) \cup (newDb[t] \ db[t])) : t \in Tables}

\* What a step in the name of tenant touched of others, by way of path.
Leaked(path, tenant, touched) ==
    {<<path, x[1]>> : x \in {y \in touched : Owner(y[1], y[2]) # tenant}}

\* A step of tenant's request reads the rows of table and leaves newDb.
Step(tenant, table, rows, newDb) ==
    /\ db' = newDb
    /\ leaks' = leaks \cup Leaked("api", tenant, ({table} \X rows) \cup Changed(newDb))
    /\ UNCHANGED area

\* A request between two statements notices a change of the database.
Noticing(r) ==
    IF db' # db /\ r.at \notin {"idle", "authorized"} THEN [r EXCEPT !.raced = TRUE] ELSE r

\* The request of c goes on with next.
Proceed(c, next) == req' = [x \in Client |-> IF x = c THEN next ELSE Noticing(req[x])]

\* The request answers with the rows, or with the new state of the database.
Reply(c, tenant, table, rows, newDb) ==
    /\ Step(tenant, table, rows, newDb)
    /\ Proceed(c, Idle)
    /\ UNCHANGED <<nextId, overfull, racedNames>>

Read(c, table, rows) == Reply(c, req[c].tenant, table, rows, db)
Write(c, newDb) == Reply(c, req[c].tenant, "alerts", {}, newDb)

\* An INSERT of the request; the number is used up even when the statement is
\* refused.
Insert(c, tenant, newDb) ==
    /\ nextId <= MaxRows /\ nextId' = nextId + 1
    /\ Step(tenant, "alerts", {}, newDb)
    /\ Proceed(c, Idle)
    /\ UNCHANGED <<overfull, racedNames>>

\* The request reads the rows and goes on to another statement.
Continue(c, next, table, rows) ==
    /\ Step(req[c].tenant, table, rows, db)
    /\ Proceed(c, next)
    /\ UNCHANGED <<nextId, overfull, racedNames>>
Then(c, at, size) == [req[c] EXCEPT !.at = at, !.size = size, !.raced = FALSE]

\* The response holds a part and, from another statement, the whole of the
\* table's rows; this statement reads the rows.
Compare(c, next, table, rows, part, whole) ==
    /\ overfull' = overfull \cup (IF part > whole /\ ~req[c].raced THEN {table} ELSE {})
    /\ Step(req[c].tenant, table, rows, db)
    /\ Proceed(c, next)
    /\ UNCHANGED <<nextId, racedNames>>

\* A worker or an agent changes the database in the name of tenant.
ActFor(path, tenant, newDb) ==
    /\ db' = newDb
    /\ leaks' = leaks \cup Leaked(path, tenant, Changed(newDb))
    /\ req' = [x \in Client |-> Noticing(req[x])]
    /\ UNCHANGED <<area, overfull, racedNames>>
InsertFor(path, tenant, areas, newDb) ==
    /\ area \in areas
    /\ nextId <= MaxRows /\ nextId' = nextId + 1
    /\ ActFor(path, tenant, newDb)

\* A batch of an agent: the tenant is the API key's, the environment the
\* body's, and no statement compares the two.  These are the tables the ingest
\* worker and the alert worker write.
BatchTables ==
    {"error_groups", "alerts", "orm_stats", "profiler_recordings", "perf_budget_samples"}
BatchStored(tenant, areas, newDb) == InsertFor("batch", tenant, areas, newDb)
-----------------------------------------------------------------------------
(* Requests *)

Request(at, tenant, env, row, name) ==
    [at |-> at, tenant |-> tenant, env |-> env, row |-> row, size |-> 0,
     name |-> name, type |-> "null", status |-> "null", raced |-> FALSE]
Authorized(c, a) == area = a /\ req[c].at = "authorized"
At(c, step) == req[c].at = step
Env(c) == req[c].env

\* A statement fails, or finds no row: the handler answers with the error
\* (MapErr) and nothing is undone.
HandleErr(c) == req[c] # Idle /\ Write(c, db)

\* MustTenantAndEnvID and the check a service method begins with; for another
\* tenant's environment the answer is 404.
MustTenantAndEnvID(c) ==
    /\ req[c] = Idle /\ area \notin {"environments", "channels", "audit"}
    /\ area \in Pairs \/ \A x \in Client : req[x] = Idle
    /\ \E t \in Tenant, env \in Ids :
          /\ GetEnvironmentByID(db, env, t) # {}
          /\ req' = [req EXCEPT ![c] = Request("authorized", t, env, 0, "null")]
    /\ UNCHANGED <<area, db, nextId, leaks, overfull, racedNames>>

\* Requests that name no environment.
MustTenantID(c, a) == area = a /\ req[c] = Idle
Show(c, tenant, table, rows) == Reply(c, tenant, table, rows, db)
-----------------------------------------------------------------------------
(* Environments: enviroment_handler.go, enviroment_service.go *)

\* Mutant of CreateEnvironmentRequest: the name is not checked.
CreateUnchecked(c, tenant, name) ==
    /\ req' = [req EXCEPT ![c] = Request("creating", tenant, 0, 0, name)]
    /\ UNCHANGED <<area, db, nextId, leaks, overfull, racedNames>>
\* Create and Update, up to the check of the name; 409 when it is taken.
CreateEnvironmentRequest(c, tenant, name) ==
    /\ ~CheckEnvironmentNameExists(db, tenant, name, 0)
    /\ req' = [req EXCEPT ![c] = Request("creating", tenant, 0, 0, name)]
    /\ UNCHANGED <<area, db, nextId, leaks, overfull, racedNames>>
RenameEnvironmentRequest(c, tenant, env, name) ==
    /\ ~CheckEnvironmentNameExists(db, tenant, name, env)
    /\ req' = [req EXCEPT ![c] = Request("renaming", tenant, env, 0, name)]
    /\ UNCHANGED <<area, db, nextId, leaks, overfull, racedNames>>
\* The statement after the check.
CheckedName(c, env, newDb) ==
    /\ Step(req[c].tenant, "alerts", {}, newDb)
    /\ racedNames' = racedNames \cup (IF req[c].raced THEN {env} ELSE {})
    /\ Proceed(c, Idle)
    /\ UNCHANGED overfull
EnvironmentCreate(c) ==
    /\ At(c, "creating")
    /\ nextId <= MaxEnvironments /\ nextId' = nextId + 1
    /\ \E type \in Types :
          CheckedName(c, nextId,
              CreateEnvironment(db, AnEnvironment(nextId, req[c].tenant, req[c].name, type)))
\* The other columns of the request, left alone here, are set by the same
\* statement.
EnvironmentRename(c) ==
    /\ At(c, "renaming")
    /\ CheckedName(c, Env(c), UpdateEnvironment(db, Env(c), req[c].tenant, req[c].name, "null"))
    /\ UNCHANGED nextId
\* Update without a name, GetByID and Delete are one statement each.
EnvironmentUpdate(c, t, env, status) ==
    Reply(c, t, "environments", {}, UpdateEnvironment(db, env, t, "null", status))
EnvironmentGetByID(c, t, env) == Show(c, t, "environments", GetEnvironmentByID(db, env, t))
EnvironmentDelete(c, t, env) == Reply(c, t, "environments", {}, DeleteEnvironment(db, env, t))

\* List: a page, then the count with the same filter; without a filter every
\* environment of the tenant and their number.
EnvironmentPage(t, type, status, p) ==
    CASE type # "null" /\ status # "null" ->
           ListEnvironmentsByTenantTypeAndStatus(db, t, type, status, p)
      [] type # "null" /\ status = "null" -> ListEnvironmentsByTenantAndType(db, t, type, p)
      [] type = "null" /\ status # "null" -> ListEnvironmentsByTenantAndStatus(db, t, status, p)
      [] OTHER -> ListEnvironmentsByTenant(db, t)
EnvironmentTotal(t, type, status) ==
    CASE type # "null" /\ status # "null" ->
           CountEnvironmentsByTenantTypeAndStatus(db, t, type, status)
      [] type # "null" /\ status = "null" -> CountEnvironmentsByTenantAndType(db, t, type)
      [] type = "null" /\ status # "null" -> CountEnvironmentsByTenantAndStatus(db, t, status)
      [] OTHER -> CountEnvironmentsByTenant(db, t)
EnvironmentList(c, t, type, status, p) ==
    LET rows == EnvironmentPage(t, type, status, p)
        next == [Request("listed", t, 0, 0, "null") EXCEPT
                    !.type = type, !.status = status, !.size = Cardinality(rows)]
    IN  /\ Step(t, "environments", rows, db)
        /\ Proceed(c, next)
        /\ UNCHANGED <<nextId, overfull, racedNames>>
EnvironmentCount(c) ==
    /\ At(c, "listed") /\ area = "environments"
    /\ Compare(c, Idle, "environments", {}, req[c].size,
               EnvironmentTotal(req[c].tenant, req[c].type, req[c].status))

HandleCreateEnvironment(c) ==
    /\ MustTenantID(c, "environments")
    /\ \E t \in Tenant, name \in Names : CreateEnvironmentRequest(c, t, name)
HandleUpdateEnvironment(c) ==
    /\ MustTenantID(c, "environments")
    /\ \E t \in Tenant, env \in Ids :
          \/ \E status \in Statuses \cup {"null"} : EnvironmentUpdate(c, t, env, status)
          \/ \E name \in Names : RenameEnvironmentRequest(c, t, env, name)
HandleGetEnvironment(c) ==
    /\ MustTenantID(c, "environments")
    /\ \E t \in Tenant, env \in Ids : EnvironmentGetByID(c, t, env)
\* In every area: the environment goes while other requests are under way.
HandleDeleteEnvironment(c) ==
    /\ req[c] = Idle
    /\ \E t \in Tenant, env \in Ids : EnvironmentDelete(c, t, env)
HandleListEnvironments(c) ==
    /\ MustTenantID(c, "environments")
    /\ area \in Pairs \/ \A x \in Client : req[x] = Idle
    /\ \E t \in Tenant, type \in Types \cup {"null"}, status \in Statuses \cup {"null"},
          p \in Pages : EnvironmentList(c, t, type, status, p)

\* Heartbeats of the agent, over its WebSocket, which was opened for an
\* environment of the key's tenant; the environment may be gone.
HandleHeartbeat(t, env) ==
    /\ \A e \in WithId(db.environments, env) : e.tenant = t
    /\ InsertFor("socket", t, {"heartbeats", "overview"},
                 InsertHeartbeat(db, [id |-> nextId, env |-> env]))
EnvironmentLatestHeartbeat(c) ==
    /\ Authorized(c, "heartbeats")
    /\ Read(c, "agent_heartbeats", GetLatestHeartbeat(db, Env(c)))
EnvironmentHeartbeats(c, limit) ==
    /\ Authorized(c, "heartbeats")
    /\ Read(c, "agent_heartbeats", ListHeartbeats(db, Env(c), limit))
HandleGetLatestHeartbeat(c) == EnvironmentLatestHeartbeat(c)
HandleListHeartbeats(c) == \E p \in Pages : EnvironmentHeartbeats(c, p.limit)

RegisterEnvironmentRoutes(c) ==
    \/ HandleCreateEnvironment(c) \/ EnvironmentCreate(c)
    \/ HandleUpdateEnvironment(c) \/ EnvironmentRename(c)
    \/ HandleGetEnvironment(c) \/ HandleDeleteEnvironment(c)
    \/ HandleListEnvironments(c) \/ EnvironmentCount(c)
    \/ HandleGetLatestHeartbeat(c) \/ HandleListHeartbeats(c)
-----------------------------------------------------------------------------
(* API keys: api_key_handler.go, api_key_service.go *)

AnAPIKey(tenant, env) == [id |-> nextId, tenant |-> tenant, env |-> env, is_active |-> TRUE]
APIKeyCreate(c) ==
    /\ Authorized(c, "keys")
    /\ Insert(c, req[c].tenant, CreateAPIKey(db, AnAPIKey(req[c].tenant, Env(c))))
APIKeyList(c) ==
    /\ Authorized(c, "keys")
    /\ Read(c, "api_keys", ListAPIKeysByEnvironment(db, req[c].tenant, Env(c)))
\* Revoke looks the key up by tenant and id; an inactive one is answered 400.
APIKeyLookup(c, t, key) ==
    LET found == GetAPIKeyByID(db, key, t)
    IN  /\ \E k \in found : k.is_active
        /\ Step(t, "api_keys", found, db)
        /\ Proceed(c, Request("revoking", t, 0, key, "null"))
        /\ UNCHANGED <<nextId, overfull, racedNames>>
APIKeyRevoke(c) ==
    At(c, "revoking") /\ Write(c, RevokeAPIKey(db, req[c].row, req[c].tenant))

HandleCreateAPIKey(c) == APIKeyCreate(c)
HandleListAPIKeys(c) == APIKeyList(c)
HandleRevokeAPIKey(c) ==
    /\ MustTenantID(c, "keys")
    /\ \E t \in Tenant, key \in Ids : APIKeyLookup(c, t, key)
-----------------------------------------------------------------------------
(* Error groups: error_handler.go, error_service.go *)

AnErrorGroup(env, sig) ==
    [id |-> nextId, env |-> env, signature |-> sig, status |-> "open", resolved_by |-> "null"]
\* An event of a batch, stored by the ingest worker.
ErrorEventStored(t, env, sig) ==
    BatchStored(t, {"errors", "overview"}, UpsertErrorGroup(db, AnErrorGroup(env, sig)))
\* POST /agent/errors checks the environment in its body like any other request,
\* and then stores each event in a transaction of its own; one event here.
ErrorIngestBatch(c, sig) ==
    /\ Authorized(c, "errors")
    /\ Insert(c, req[c].tenant, UpsertErrorGroup(db, AnErrorGroup(Env(c), sig)))

ErrorPage(env, filter, value, p) ==
    CASE filter = "search" -> SearchErrorGroups(db, env, value, p)
      [] filter = "status" -> ListErrorGroupsByStatus(db, env, value, p)
      [] filter = "type" -> ListErrorGroupsByType(db, env, value, p)
      [] OTHER -> ListErrorGroups(db, env, p)
\* A page of the groups that match; the total is of all of the environment's.
ErrorList(c, filter, value, p) ==
    /\ Authorized(c, "errors")
    /\ LET rows == ErrorPage(Env(c), filter, value, p)
       IN  Continue(c, Then(c, "listed", Cardinality(rows)), "error_groups", rows)
ErrorTotal(c) ==
    /\ At(c, "listed") /\ area = "errors"
    /\ Compare(c, Idle, "error_groups", {}, req[c].size, CountErrorGroupsByEnv(db, Env(c)))
ErrorGet(c, id) ==
    Authorized(c, "errors") /\ Read(c, "error_groups", GetErrorGroupByID(db, id, Env(c)))
ErrorGetBySignature(c, sig) ==
    Authorized(c, "errors") /\ Read(c, "error_groups", GetErrorGroupBySignature(db, Env(c), sig))
ErrorStatuses == {"open", "acknowledged", "resolved"}
ErrorUpdateStatus(c, id, status) ==
    /\ Authorized(c, "errors")
    /\ \/ status = "acknowledged" /\ Write(c, AcknowledgeErrorGroup(db, id, Env(c)))
       \/ status = "resolved" /\ Write(c, ResolveErrorGroup(db, id, req[c].tenant, Env(c)))
       \/ status = "open" /\ Write(c, ReopenErrorGroup(db, id, Env(c)))

HandleListErrors(c) ==
    \E p \in Pages :
       \/ \E s \in Signatures, f \in {"search", "type"} : ErrorList(c, f, s, p)
       \/ \E s \in ErrorStatuses : ErrorList(c, "status", s, p)
       \/ ErrorList(c, "none", "null", p)
\* By id when the parameter is a UUID, otherwise by signature.
HandleGetErrorGroup(c) ==
    \/ \E id \in Ids : ErrorGet(c, id)
    \/ \E sig \in Signatures : ErrorGetBySignature(c, sig)
HandleUpdateErrorGroup(c) ==
    \E id \in Ids, status \in ErrorStatuses : ErrorUpdateStatus(c, id, status)
HandleIngestErrors(c) == \E sig \in Signatures : ErrorIngestBatch(c, sig)
-----------------------------------------------------------------------------
(* Alerts: alert_handler.go, alert_service.go *)

AlertStored(t, env) ==
    BatchStored(t, {"alerts", "overview"},
        CreateAlert(db, [id |-> nextId, env |-> env, acknowledged |-> FALSE,
                         acknowledged_by |-> "null"]))

\* The total counts the unacknowledged alerts only, whatever is listed.
AlertCounted(c) ==
    /\ Authorized(c, "alerts")
    /\ Continue(c, Then(c, "counted", CountUnacknowledgedAlerts(db, Env(c))), "alerts", {})
AlertList(c, unacknowledged, p) ==
    /\ At(c, "counted") /\ area = "alerts"
    /\ IF unacknowledged
         THEN LET rows == ListUnacknowledgedAlerts(db, Env(c), p.limit)
              IN  Compare(c, Idle, "alerts", rows, Cardinality(rows), req[c].size)
         ELSE Read(c, "alerts", ListAlerts(db, Env(c), p))
AlertGetByID(c, id) ==
    Authorized(c, "alerts") /\ Read(c, "alerts", GetAlertByID(db, id, Env(c)))
AlertAcknowledge(c, id) ==
    Authorized(c, "alerts") /\ Write(c, AcknowledgeAlert(db, id, req[c].tenant, Env(c)))
AlertAcknowledgeAll(c) ==
    Authorized(c, "alerts") /\ Write(c, AcknowledgeAllAlerts(db, Env(c), req[c].tenant))
AlertCountUnacknowledged(c) ==
    Authorized(c, "alerts") /\ Read(c, "alerts", Unacknowledged(db, Env(c)))

HandleListAlerts(c) == \E u \in BOOLEAN, p \in Pages : AlertList(c, u, p)
HandleGetAlert(c) == \E id \in Ids : AlertGetByID(c, id)
HandleAcknowledge(c) == \E id \in Ids : AlertAcknowledge(c, id)
HandleAcknowledgeAll(c) == AlertAcknowledgeAll(c)
HandleCount(c) == AlertCountUnacknowledged(c)
-----------------------------------------------------------------------------
(* Notification channels, one statement a request, by tenant. *)

ChannelCreate(c, t) ==
    Insert(c, t, CreateNotificationChannel(db, [id |-> nextId, tenant |-> t, is_active |-> TRUE]))
ChannelList(c, t) == Show(c, t, "notification_channels", ListNotificationChannels(db, t))
ChannelGet(c, t, id) == Show(c, t, "notification_channels", GetNotificationChannel(db, id, t))
ChannelUpdate(c, t, id, active) ==
    Reply(c, t, "alerts", {}, UpdateNotificationChannel(db, id, t, active))
ChannelDelete(c, t, id) == Reply(c, t, "alerts", {}, DeleteNotificationChannel(db, id, t))

HandleCreateChannel(c) == MustTenantID(c, "channels") /\ \E t \in Tenant : ChannelCreate(c, t)
HandleListChannels(c) == MustTenantID(c, "channels") /\ \E t \in Tenant : ChannelList(c, t)
HandleGetChannel(c) ==
    MustTenantID(c, "channels") /\ \E t \in Tenant, id \in Ids : ChannelGet(c, t, id)
HandleUpdateChannel(c) ==
    /\ MustTenantID(c, "channels")
    /\ \E t \in Tenant, id \in Ids, active \in BOOLEAN : ChannelUpdate(c, t, id, active)
HandleDeleteChannel(c) ==
    MustTenantID(c, "channels") /\ \E t \in Tenant, id \in Ids : ChannelDelete(c, t, id)
RegisterNotificationChannelRoutes(c) ==
    \/ HandleCreateChannel(c) \/ HandleListChannels(c) \/ HandleGetChannel(c)
    \/ HandleUpdateChannel(c) \/ HandleDeleteChannel(c)
-----------------------------------------------------------------------------
(* Audit log *)

AuditActions == {"POST", "DELETE"}
\* The middleware's write after a request that is not a GET has answered,
\* whatever the answer was; it can come late, and a failure is only logged.
AuditLog(t) ==
    \E action \in AuditActions :
       InsertFor("audit", t, {"audit"},
           CreateAuditLog(db, [id |-> nextId, tenant |-> t, user |-> t, action |-> action,
                               resource |-> "null"]))

AuditList(c, t, p) ==
    LET rows == ListAuditLogs(db, t, p)
        next == [Request("listed", t, 0, 0, "null") EXCEPT !.size = Cardinality(rows)]
    IN  /\ Step(t, "audit_logs", rows, db)
        /\ Proceed(c, next)
        /\ UNCHANGED <<nextId, overfull, racedNames>>
AuditTotal(c) ==
    /\ At(c, "listed") /\ area = "audit"
    /\ Compare(c, Idle, "audit_logs", {}, req[c].size, CountAuditLogs(db, req[c].tenant))
AuditListByAction(c, t, action, p) ==
    Show(c, t, "audit_logs", ListAuditLogsByAction(db, t, action, p))
AuditListByUser(c, t, user, p) == Show(c, t, "audit_logs", ListAuditLogsByUser(db, t, user, p))
AuditListByResource(c, t, limit) ==
    Show(c, t, "audit_logs", ListAuditLogsByResource(db, t, "environment", limit))
AuditListBetween(c, t, from, to, p) ==
    Show(c, t, "audit_logs", ListAuditLogsBetween(db, t, from, to, p))

HandleListAudit(c) ==
    MustTenantID(c, "audit") /\ \E t \in Tenant, p \in Pages : AuditList(c, t, p)
HandleListByAction(c) ==
    /\ MustTenantID(c, "audit")
    /\ \E t \in Tenant, p \in Pages, a \in AuditActions : AuditListByAction(c, t, a, p)
\* The user may be one of another tenant.
HandleListByUser(c) ==
    /\ MustTenantID(c, "audit")
    /\ \E t, user \in Tenant, p \in Pages : AuditListByUser(c, t, user, p)
HandleListByResource(c) ==
    MustTenantID(c, "audit") /\ \E t \in Tenant, p \in Pages : AuditListByResource(c, t, p.limit)
HandleListBetween(c) ==
    /\ MustTenantID(c, "audit")
    /\ \E t \in Tenant, from, to \in Ids, p \in Pages : AuditListBetween(c, t, from, to, p)
RegisterAuditRoutes(c) ==
    \/ HandleListAudit(c) \/ AuditTotal(c) \/ HandleListByAction(c) \/ HandleListByUser(c)
    \/ HandleListByResource(c) \/ HandleListBetween(c)
-----------------------------------------------------------------------------
(* Recordings and N+1 patterns: profiler_*.go, n1_*.go *)

RecordingStored(t, env) ==
    \E kind \in Recordings :
       BatchStored(t, {"profiler", "overview"},
           CreateProfilerRecording(db, [id |-> nextId, env |-> env,
                                        has_chain |-> kind.has_chain, slow |-> kind.slow,
                                        has_n1 |-> kind.has_n1]))
ORMStatStored(t, env) ==
    \E n1 \in BOOLEAN :
       BatchStored(t, {"profiler", "overview"},
           InsertORMStat(db, [id |-> nextId, env |-> env, n1_detected |-> n1]))

ProfilerGetRecording(c, id) ==
    /\ Authorized(c, "profiler")
    /\ Read(c, "profiler_recordings", GetProfilerRecording(db, id, Env(c)))
ProfilerListRecordings(c, p) ==
    /\ Authorized(c, "profiler")
    /\ LET rows == ListProfilerRecordings(db, Env(c), p)
       IN  Continue(c, Then(c, "listed", Cardinality(rows)), "profiler_recordings", rows)
ProfilerTotal(c) ==
    /\ At(c, "listed") /\ area = "profiler"
    /\ Compare(c, Idle, "profiler_recordings", {}, req[c].size, CountRecordingsByEnv(db, Env(c)))
ProfilerListSlow(c, limit) ==
    /\ Authorized(c, "profiler")
    /\ Read(c, "profiler_recordings", ListSlowRecordings(db, Env(c), limit))
ProfilerListChain(c, p) ==
    /\ Authorized(c, "profiler")
    /\ Read(c, "profiler_recordings", ListRecordingsWithChain(db, Env(c), p))
\* A recording without a chain is answered 404.
ProfilerGetChain(c, id) ==
    /\ Authorized(c, "profiler")
    /\ Read(c, "profiler_recordings",
            {r \in GetProfilerRecording(db, id, Env(c)) : r.has_chain})

\* Detect: the aggregated patterns, then the recordings that enrich them; a
\* failure of the second statement is ignored.
N1Detect(c, since, limit) ==
    /\ Authorized(c, "profiler")
    /\ Continue(c, [Then(c, "patterns", 0) EXCEPT !.row = since], "orm_stats",
                GetN1PatternsSummary(db, Env(c), since, limit))
N1RecordingPatterns(c) ==
    /\ At(c, "patterns")
    /\ Read(c, "profiler_recordings", ListN1RecordingPatterns(db, Env(c), req[c].row))
N1GetTimeline(c, since, limit) ==
    Authorized(c, "profiler") /\ Read(c, "orm_stats", GetN1Timeline(db, Env(c), since, limit))

HandleGetRecording(c) == \E id \in Ids : ProfilerGetRecording(c, id)
HandleListRecordings(c) == \E p \in Pages : ProfilerListRecordings(c, p)
HandleListSlowRecordings(c) == \E p \in Pages : ProfilerListSlow(c, p.limit)
HandleListChainRecordings(c) == \E p \in Pages : ProfilerListChain(c, p)
HandleGetChain(c) == \E id \in Ids : ProfilerGetChain(c, id)
HandleDetect(c) == \E since \in Ids, p \in Pages : N1Detect(c, since, p.limit)
HandleTimeline(c) == \E since \in Ids, p \in Pages : N1GetTimeline(c, since, p.limit)
-----------------------------------------------------------------------------
(* Schema snapshots and migration scans: schema_*.go, migration_*.go *)

\* From the agent: the tenant is the key's, the environment is named in the
\* payload or, when it is not, is the key's, and is checked like any other.
SchemaStore(c) ==
    /\ Authorized(c, "schema")
    /\ Insert(c, req[c].tenant, CreateSchemaSnapshot(db, [id |-> nextId, env |-> Env(c)]))
SchemaGetLatest(c) ==
    Authorized(c, "schema") /\ Read(c, "schema_snapshots", GetLatestSchema(db, Env(c)))
SchemaGetSnapshot(c, id) ==
    Authorized(c, "schema") /\ Read(c, "schema_snapshots", GetSchemaByID(db, id, Env(c)))
\* ListSnapshots counts first.
SchemaCounted(c) ==
    /\ Authorized(c, "schema")
    /\ Continue(c, Then(c, "counted", CountSchemasByEnv(db, Env(c))), "schema_snapshots", {})
SchemaListSnapshots(c, limit) ==
    /\ At(c, "counted") /\ area = "schema"
    /\ LET rows == ListSchemaSnapshots(db, Env(c), limit)
       IN  Compare(c, Idle, "schema_snapshots", rows, Cardinality(rows), req[c].size)

\* RunScan reads the pinned or the latest snapshot, then stores its report;
\* the snapshot may be deleted in between.
MigrationLoadSnapshot(c, snapshots) ==
    /\ Authorized(c, "schema")
    /\ snapshots # {}
    /\ Continue(c, Then(c, "scanning", 0), "schema_snapshots", snapshots)
MigrationRunScan(c) ==
    /\ At(c, "scanning")
    /\ Insert(c, req[c].tenant, CreateMigrationScan(db, [id |-> nextId, env |-> Env(c)]))
MigrationGetScan(c, id) ==
    Authorized(c, "schema") /\ Read(c, "migration_scans", GetMigrationScan(db, id, Env(c)))
MigrationGetLatest(c) ==
    Authorized(c, "schema") /\ Read(c, "migration_scans", GetLatestMigrationScan(db, Env(c)))
MigrationListScans(c, p) ==
    Authorized(c, "schema") /\ Read(c, "migration_scans", ListMigrationScans(db, Env(c), p))
MigrationDeleteScan(c, id) ==
    Authorized(c, "schema") /\ Write(c, DeleteMigrationScan(db, id, Env(c)))

HandleStore(c) == SchemaStore(c)
HandleGetLatestSchema(c) == SchemaGetLatest(c)
\* SearchModels filters the models of the latest snapshot.
HandleSearchModels(c) == SchemaGetLatest(c)
HandleGetSnapshot(c) == \E id \in Ids : SchemaGetSnapshot(c, id)
HandleListSnapshots(c) == \E p \in Pages : SchemaListSnapshots(c, p.limit)
HandleRunScan(c) ==
    \/ \E id \in Ids : MigrationLoadSnapshot(c, GetSchemaByID(db, id, Env(c)))
    \/ MigrationLoadSnapshot(c, GetLatestSchema(db, Env(c)))
HandleGetScan(c) == \E id \in Ids : MigrationGetScan(c, id)
HandleGetLatestScan(c) == MigrationGetLatest(c)
HandleListScans(c) == \E p \in Pages : MigrationListScans(c, p)
HandleDeleteScan(c) == \E id \in Ids : MigrationDeleteScan(c, id)
-----------------------------------------------------------------------------
(* Budgets: budget_handler.go, budget_service.go *)

BudgetSampled(t, budget) ==
    BatchStored(t, {"budgets"},
        InsertBudgetSample(db, [id |-> nextId, budget |-> budget]))

BudgetCreate(c, module) ==
    /\ Authorized(c, "budgets")
    /\ Insert(c, req[c].tenant,
              CreatePerfBudget(db, [id |-> nextId, env |-> Env(c), module |-> module,
                                    is_active |-> TRUE]))
BudgetList(c, includeInactive) ==
    /\ Authorized(c, "budgets")
    /\ Read(c, "perf_budgets", IF includeInactive THEN ListAllPerfBudgetsByEnv(db, Env(c))
                               ELSE ListPerfBudgets(db, Env(c)))
BudgetUpdate(c, id, active) ==
    Authorized(c, "budgets") /\ Write(c, UpdatePerfBudget(db, id, Env(c), active))
BudgetDelete(c, id) ==
    Authorized(c, "budgets") /\ Write(c, DeletePerfBudget(db, id, Env(c)))
\* The second check of GetByID, ListSamples, GetTrend and GetBreakdown; the
\* statements on samples after it name the budget alone.
BudgetVerified(c, id) ==
    /\ Authorized(c, "budgets")
    /\ GetPerfBudget(db, id, Env(c)) # {}
    /\ Continue(c, [Then(c, "budget", 0) EXCEPT !.row = id], "perf_budgets",
                GetPerfBudget(db, id, Env(c)))
BudgetGetByID(c) ==
    /\ At(c, "budget")
    /\ Continue(c, [req[c] EXCEPT !.at = "trend"], "perf_budget_samples",
                GetLatestBudgetSample(db, req[c].row))
BudgetGetTrend(c, since) ==
    /\ req[c].at \in {"budget", "trend"}
    /\ Read(c, "perf_budget_samples", GetBudgetAverage7d(db, req[c].row, since))
BudgetListSamples(c, limit) ==
    /\ At(c, "budget")
    /\ Read(c, "perf_budget_samples", ListBudgetSamples(db, req[c].row, limit))
BudgetGetBreakdown(c, sample) ==
    /\ At(c, "budget")
    /\ Read(c, "perf_budget_samples", GetBudgetSampleByID(db, sample, req[c].row))

HandleCreateBudget(c) == \E module \in Names : BudgetCreate(c, module)
HandleListBudgets(c) == \E inactive \in BOOLEAN : BudgetList(c, inactive)
HandleUpdateBudget(c) == \E id \in Ids, active \in BOOLEAN : BudgetUpdate(c, id, active)
HandleDeleteBudget(c) == \E id \in Ids : BudgetDelete(c, id)
HandleGetBudget(c) == (\E id \in Ids : BudgetVerified(c, id)) \/ BudgetGetByID(c)
HandleGetTrend(c) == \E since \in Ids : BudgetGetTrend(c, since)
HandleListSamples(c) == \E p \in Pages : BudgetListSamples(c, p.limit)
HandleGetBreakdown(c) == \E sample \in Ids : BudgetGetBreakdown(c, sample)
-----------------------------------------------------------------------------
(* The overview of an environment: overview_handler.go, overview_service.go *)

PopulateAgent(c) ==
    /\ Authorized(c, "overview")
    /\ Continue(c, Then(c, "agent", 0), "agent_heartbeats", GetLatestHeartbeat(db, Env(c)))
PopulateErrorsTotal(c) ==
    /\ At(c, "agent")
    /\ Continue(c, Then(c, "total_errors", CountErrorGroupsByEnv(db, Env(c))), "error_groups", {})
PopulateErrors(c) ==
    /\ At(c, "total_errors")
    /\ Compare(c, Then(c, "errors", 0), "error_groups", {},
               CountErrorGroupsByStatus(db, Env(c), "open"), req[c].size)
PopulateProfilerTotal(c) ==
    /\ At(c, "errors")
    /\ Continue(c, Then(c, "total_recordings", CountRecordingsByEnv(db, Env(c))),
                "profiler_recordings", {})
\* LIMIT 1000, above MaxRows.
PopulateProfiler(c) ==
    /\ At(c, "total_recordings")
    /\ LET rows == ListRecordingsWithChain(db, Env(c), [limit |-> MaxRows, offset |-> 0])
       IN  Compare(c, Then(c, "profiler", 0), "profiler_recordings", rows,
                   Cardinality(rows), req[c].size)
PopulateN1(c) ==
    /\ At(c, "profiler")
    /\ \E since \in Ids :
          Continue(c, Then(c, "n1", 0), "orm_stats",
                   GetN1PatternsSummary(db, Env(c), since, MaxRows))
PopulateAlerts(c) ==
    /\ At(c, "n1")
    /\ Continue(c, Then(c, "alerts", 0), "alerts", Unacknowledged(db, Env(c)))
\* Total and active are counted over one list.
PopulateBudgets(c) ==
    At(c, "alerts") /\ Read(c, "perf_budgets", ListAllPerfBudgetsByEnv(db, Env(c)))
GetOverview(c) ==
    \/ PopulateAgent(c) \/ PopulateErrorsTotal(c) \/ PopulateErrors(c)
    \/ PopulateProfilerTotal(c) \/ PopulateProfiler(c) \/ PopulateN1(c)
    \/ PopulateAlerts(c) \/ PopulateBudgets(c)

RegisterEnvSubRoutes(c) ==
    \/ HandleCreateAPIKey(c) \/ HandleListAPIKeys(c) \/ HandleRevokeAPIKey(c) \/ APIKeyRevoke(c)
    \/ HandleListErrors(c) \/ ErrorTotal(c) \/ HandleGetErrorGroup(c) \/ HandleUpdateErrorGroup(c)
    \/ HandleIngestErrors(c)
    \/ AlertCounted(c) \/ HandleListAlerts(c) \/ HandleGetAlert(c) \/ HandleAcknowledge(c)
    \/ HandleAcknowledgeAll(c) \/ HandleCount(c)
    \/ HandleGetRecording(c) \/ HandleListRecordings(c) \/ ProfilerTotal(c)
    \/ HandleListSlowRecordings(c) \/ HandleListChainRecordings(c) \/ HandleGetChain(c)
    \/ HandleDetect(c) \/ N1RecordingPatterns(c) \/ HandleTimeline(c)
    \/ HandleStore(c) \/ HandleGetLatestSchema(c) \/ HandleSearchModels(c)
    \/ HandleGetSnapshot(c) \/ SchemaCounted(c) \/ HandleListSnapshots(c)
    \/ HandleRunScan(c) \/ MigrationRunScan(c) \/ HandleGetScan(c) \/ HandleGetLatestScan(c)
    \/ HandleListScans(c) \/ HandleDeleteScan(c)
    \/ HandleCreateBudget(c) \/ HandleListBudgets(c) \/ HandleUpdateBudget(c)
    \/ HandleDeleteBudget(c) \/ HandleGetBudget(c) \/ HandleGetTrend(c)
    \/ HandleListSamples(c) \/ HandleGetBreakdown(c)
    \/ GetOverview(c)
-----------------------------------------------------------------------------
(* The workers. *)

Stored ==
    \E t \in Tenant :
       \/ \E env \in Ids :
             \/ HandleHeartbeat(t, env) \/ AlertStored(t, env)
             \/ RecordingStored(t, env) \/ ORMStatStored(t, env)
             \/ \E sig \in Signatures : ErrorEventStored(t, env, sig)
       \/ \E budget \in Ids : BudgetSampled(t, budget)
       \/ AuditLog(t)

\* runForTenant: one DELETE per table, each skipped when the tenant's policy
\* disables it, none stopping the others when it fails.
Retain(t, a, newDb) == area = a /\ ActFor("retention", t, newDb) /\ UNCHANGED nextId
RunForTenant(t) ==
    \E cutoff \in Ids :
       \/ Retain(t, "errors", DeleteOldErrorGroups(db, t, cutoff))
       \/ Retain(t, "profiler", DeleteOldProfilerRecordings(db, t, cutoff))
       \/ Retain(t, "budgets", DeleteOldBudgetSamples(db, t, cutoff))
       \/ Retain(t, "profiler", DeleteOldORMStats(db, t, cutoff))
       \/ Retain(t, "alerts", DeleteOldAlerts(db, t, cutoff))
       \/ Retain(t, "schema", DeleteOldSchemaSnapshots(db, t, cutoff)) \* the newest `cutoff`
       \/ Retain(t, "audit", DeleteOldAuditLogs(db, t, cutoff))
       \/ Retain(t, "heartbeats", DeleteOldHeartbeats(db, t, cutoff))

Next ==
    \/ \E c \in Client :
          \/ MustTenantAndEnvID(c) \/ HandleErr(c)
          \/ RegisterEnvironmentRoutes(c) \/ RegisterNotificationChannelRoutes(c)
          \/ RegisterAuditRoutes(c) \/ RegisterEnvSubRoutes(c)
    \/ Stored
    \/ \E t \in Tenant : RunForTenant(t)

Spec == Init /\ [][Next]_vars
-----------------------------------------------------------------------------
\* A response never holds a row of another tenant than the one it answers, and
\* no step in the name of a tenant adds, changes, deletes or signs a row of
\* another: the services check the environment once and then use its id alone,
\* and the environment may be deleted while they do (internal/service, WHERE
\* clauses of db/sqlc).  The exception is what the code does: a batch of an
\* agent is stored, in the tables of the workers, under whatever environment
\* its body names (batch_handler.go 80-96, ingest.go 107-139).
TenantIsolation ==
    /\ leaks \subseteq {"batch"} \X BatchTables
    /\ \A a \in db.alerts : a.acknowledged => a.acknowledged_by = TenantOf(a.env)
    /\ \A g \in db.error_groups : g.resolved_by \in {"null", TenantOf(g.env)}
    /\ \A k \in db.api_keys : k.tenant = TenantOf(k.env)

\* A list is never longer than the total beside it, nor an overview's part
\* larger than its whole, unless the database changed between the two
\* statements (the List methods, populateErrors, populateProfiler).
PageWithinTotal == overfull = {}

\* Two environments of a tenant share a name only if the database changed
\* between the check of a name and the statement that used it: no constraint
\* stands behind CheckEnvironmentNameExists.
NamesUniqueUnlessRaced ==
    \A e, f \in db.environments :
       e # f /\ e.tenant = f.tenant /\ e.name = f.name => {e.id, f.id} \cap racedNames # {}

\* Retention never takes the newest snapshot of an environment, and a tenant's
\* retention takes no row of another tenant (runForTenant, whose statements
\* join environments by tenant_id).
RetentionKeepsTheNewest ==
    [][(\E t \in Tenant : RunForTenant(t)) =>
         /\ \A e \in db.environments : GetLatestSchema(db', e.id) = GetLatestSchema(db, e.id)
         /\ Cardinality({Owner(x[1], x[2]) : x \in Changed(db')}) <= 1]_vars
=============================================================================
