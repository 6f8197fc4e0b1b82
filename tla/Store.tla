------------------------------- MODULE Store -------------------------------
(***************************************************************************)
(* The statements of db/sqlc as operators on a database d, a record with   *)
(* one set of rows per table.  A SELECT is the set of rows it returns; an  *)
(* INSERT, UPDATE or DELETE is the database it leaves.                     *)
(*                                                                         *)
(* Rows are numbered in order of creation, and created_at, captured_at,    *)
(* received_at, recorded_at, last_seen and the like follow the numbers, so *)
(* that "ORDER BY ... DESC LIMIT l OFFSET o" and a retention cutoff are    *)
(* stated on ids.  A row keeps its owner and the columns the WHERE clauses *)
(* look at; its payload is left out.                                       *)
(***************************************************************************)
EXTENDS Integers, FiniteSets

\* Tables whose rows belong to an environment and go with it (ON DELETE
\* CASCADE), and tables whose rows belong to a tenant.
EnvTables == {"agent_heartbeats", "alerts", "api_keys", "error_groups",
              "migration_scans", "orm_stats", "perf_budgets",
              "profiler_recordings", "schema_snapshots"}
TenantTables == {"environments", "notification_channels", "audit_logs"}
Tables == EnvTables \cup TenantTables \cup {"perf_budget_samples"}

EmptyDb == [t \in Tables |-> {}]
-----------------------------------------------------------------------------
(* The clauses the statements are made of. *)

OfEnv(rows, env) == {r \in rows : r.env = env}
OfTenant(rows, tenant) == {r \in rows : r.tenant = tenant}
WithId(rows, id) == {r \in rows : r.id = id}

\* Environments of a tenant: SELECT id FROM environments WHERE tenant_id = $1.
EnvsOf(d, tenant) == {e.id : e \in OfTenant(d.environments, tenant)}

\* ORDER BY ... DESC LIMIT limit OFFSET offset.
Newest(rows, limit, offset) ==
    {r \in rows : LET newer == Cardinality({s \in rows : s.id > r.id})
                  IN  offset <= newer /\ newer < offset + limit}

SetWhere(rows, Where(_), Set(_)) == {IF Where(r) THEN Set(r) ELSE r : r \in rows}

\* INSERT INTO a table of an environment: refused by the foreign key when the
\* environment is gone.
InsertOfEnv(d, table, row) ==
    IF \E e \in d.environments : e.id = row.env
      THEN [d EXCEPT ![table] = @ \cup {row}]
      ELSE d

\* DELETE of the tenant's rows older than the cutoff.
DeleteOlder(d, table, tenant, cutoff) ==
    [d EXCEPT ![table] = {r \in @ : ~(r.env \in EnvsOf(d, tenant) /\ r.id < cutoff)}]
-----------------------------------------------------------------------------
(* enviroments.sql.go *)

\* Mutant of GetEnvironmentByID: the tenant is not compared.
GetEnvironmentByAnyTenant(d, id, tenant) == WithId(d.environments, id)

GetEnvironmentByID(d, id, tenant) == WithId(OfTenant(d.environments, tenant), id)
ListEnvironmentsByTenant(d, tenant) == OfTenant(d.environments, tenant)
CountEnvironmentsByTenant(d, tenant) == Cardinality(OfTenant(d.environments, tenant))

ByType(rows, type) == {e \in rows : e.type = type}
ByStatus(rows, status) == {e \in rows : e.status = status}
ListEnvironmentsByTenantAndType(d, tenant, type, p) ==
    Newest(ByType(OfTenant(d.environments, tenant), type), p.limit, p.offset)
CountEnvironmentsByTenantAndType(d, tenant, type) ==
    Cardinality(ByType(OfTenant(d.environments, tenant), type))
ListEnvironmentsByTenantAndStatus(d, tenant, status, p) ==
    Newest(ByStatus(OfTenant(d.environments, tenant), status), p.limit, p.offset)
CountEnvironmentsByTenantAndStatus(d, tenant, status) ==
    Cardinality(ByStatus(OfTenant(d.environments, tenant), status))
ListEnvironmentsByTenantTypeAndStatus(d, tenant, type, status, p) ==
    Newest(ByType(ByStatus(OfTenant(d.environments, tenant), status), type),
           p.limit, p.offset)
CountEnvironmentsByTenantTypeAndStatus(d, tenant, type, status) ==
    Cardinality(ByType(ByStatus(OfTenant(d.environments, tenant), status), type))

CheckEnvironmentNameExists(d, tenant, name, id) ==
    \E e \in OfTenant(d.environments, tenant) : e.name = name /\ e.id # id
CreateEnvironment(d, row) == [d EXCEPT !.environments = @ \cup {row}]
\* COALESCE: a column whose new value is "null" keeps the old one.
UpdateEnvironment(d, id, tenant, name, status) ==
    [d EXCEPT !.environments =
        SetWhere(@, LAMBDA e : e.id = id /\ e.tenant = tenant,
                    LAMBDA e : [e EXCEPT !.name = IF name = "null" THEN @ ELSE name,
                                         !.status = IF status = "null" THEN @ ELSE status])]
\* With the rows of the environment, and the samples of its budgets.
DeleteEnvironment(d, id, tenant) ==
    LET gone == {e.id : e \in GetEnvironmentByID(d, id, tenant)}
        budgets == {b.id : b \in {r \in d.perf_budgets : r.env \in gone}}
    IN  [t \in Tables |->
            CASE t = "environments" -> {e \in d[t] : e.id \notin gone}
              [] t \in EnvTables -> {r \in d[t] : r.env \notin gone}
              [] t = "perf_budget_samples" -> {s \in d[t] : s.budget \notin budgets}
              [] OTHER -> d[t]]

InsertHeartbeat(d, row) == InsertOfEnv(d, "agent_heartbeats", row)
GetLatestHeartbeat(d, env) == Newest(OfEnv(d.agent_heartbeats, env), 1, 0)
ListHeartbeats(d, env, limit) == Newest(OfEnv(d.agent_heartbeats, env), limit, 0)
DeleteOldHeartbeats(d, tenant, cutoff) == DeleteOlder(d, "agent_heartbeats", tenant, cutoff)
-----------------------------------------------------------------------------
(* api_keys.sql.go *)

CreateAPIKey(d, row) == InsertOfEnv(d, "api_keys", row)
GetAPIKeyByID(d, id, tenant) == WithId(OfTenant(d.api_keys, tenant), id)
ListAPIKeysByEnvironment(d, tenant, env) == OfEnv(OfTenant(d.api_keys, tenant), env)

RevokeAPIKey(d, id, tenant) ==
    [d EXCEPT !.api_keys = SetWhere(@, LAMBDA k : k.id = id /\ k.tenant = tenant,
                                       LAMBDA k : [k EXCEPT !.is_active = FALSE])]
-----------------------------------------------------------------------------
(* alerts.sql.go: alerts and notification channels *)

CreateAlert(d, row) == InsertOfEnv(d, "alerts", row)
GetAlertByID(d, id, env) == WithId(OfEnv(d.alerts, env), id)
Unacknowledged(d, env) == {a \in OfEnv(d.alerts, env) : ~a.acknowledged}
ListAlerts(d, env, p) == Newest(OfEnv(d.alerts, env), p.limit, p.offset)
ListUnacknowledgedAlerts(d, env, limit) == Newest(Unacknowledged(d, env), limit, 0)
CountUnacknowledgedAlerts(d, env) == Cardinality(Unacknowledged(d, env))
Acknowledge(a, by) == [a EXCEPT !.acknowledged = TRUE, !.acknowledged_by = by]
AcknowledgeAlert(d, id, by, env) ==
    [d EXCEPT !.alerts = SetWhere(@, LAMBDA a : a.id = id /\ a.env = env,
                                     LAMBDA a : Acknowledge(a, by))]

AcknowledgeAllAlerts(d, env, by) ==
    [d EXCEPT !.alerts = SetWhere(@, LAMBDA a : a.env = env /\ ~a.acknowledged,
                                     LAMBDA a : Acknowledge(a, by))]
DeleteOldAlerts(d, tenant, cutoff) == DeleteOlder(d, "alerts", tenant, cutoff)

CreateNotificationChannel(d, row) == [d EXCEPT !.notification_channels = @ \cup {row}]
GetNotificationChannel(d, id, tenant) == WithId(OfTenant(d.notification_channels, tenant), id)
ListNotificationChannels(d, tenant) == OfTenant(d.notification_channels, tenant)
UpdateNotificationChannel(d, id, tenant, active) ==
    [d EXCEPT !.notification_channels =
        SetWhere(@, LAMBDA c : c.id = id /\ c.tenant = tenant,
                    LAMBDA c : [c EXCEPT !.is_active = active])]
DeleteNotificationChannel(d, id, tenant) ==
    [d EXCEPT !.notification_channels = @ \ GetNotificationChannel(d, id, tenant)]
-----------------------------------------------------------------------------
(* audit_logs.sql.go *)

CreateAuditLog(d, row) == [d EXCEPT !.audit_logs = @ \cup {row}]
CountAuditLogs(d, tenant) == Cardinality(OfTenant(d.audit_logs, tenant))
ListAuditLogs(d, tenant, p) == Newest(OfTenant(d.audit_logs, tenant), p.limit, p.offset)
ListAuditLogsByAction(d, tenant, action, p) ==
    Newest({a \in OfTenant(d.audit_logs, tenant) : a.action = action}, p.limit, p.offset)
ListAuditLogsByUser(d, tenant, user, p) ==
    Newest({a \in OfTenant(d.audit_logs, tenant) : a.user = user}, p.limit, p.offset)
\* The middleware writes no resource, so the column is NULL in every row here.
ListAuditLogsByResource(d, tenant, resource, limit) ==
    Newest({a \in OfTenant(d.audit_logs, tenant) : a.resource = resource}, limit, 0)
ListAuditLogsBetween(d, tenant, from, to, p) ==
    Newest({a \in OfTenant(d.audit_logs, tenant) : from <= a.id /\ a.id <= to},
           p.limit, p.offset)
DeleteOldAuditLogs(d, tenant, cutoff) ==
    [d EXCEPT !.audit_logs = {a \in @ : ~(a.tenant = tenant /\ a.id < cutoff)}]
-----------------------------------------------------------------------------
(* profilier.sql.go, orm_stats.sql.go and n1_detector.sql.go *)

CreateProfilerRecording(d, row) == InsertOfEnv(d, "profiler_recordings", row)
GetProfilerRecording(d, id, env) == WithId(OfEnv(d.profiler_recordings, env), id)
ListProfilerRecordings(d, env, p) ==
    Newest(OfEnv(d.profiler_recordings, env), p.limit, p.offset)
CountRecordingsByEnv(d, env) == Cardinality(OfEnv(d.profiler_recordings, env))
ListRecordingsWithChain(d, env, p) ==
    Newest({r \in OfEnv(d.profiler_recordings, env) : r.has_chain}, p.limit, p.offset)
ListSlowRecordings(d, env, limit) ==
    Newest({r \in OfEnv(d.profiler_recordings, env) : r.slow}, limit, 0)
DeleteOldProfilerRecordings(d, tenant, cutoff) ==
    DeleteOlder(d, "profiler_recordings", tenant, cutoff)
ListN1RecordingPatterns(d, env, since) ==
    {r \in OfEnv(d.profiler_recordings, env) : r.has_n1 /\ r.id >= since}

InsertORMStat(d, row) == InsertOfEnv(d, "orm_stats", row)
N1Stats(d, env, since) == {s \in OfEnv(d.orm_stats, env) : s.n1_detected /\ s.id >= since}
\* GROUP BY model, method, or by period: a statistic stands for its group.
GetN1PatternsSummary(d, env, since, limit) == Newest(N1Stats(d, env, since), limit, 0)
GetN1Timeline(d, env, since, limit) == Newest(N1Stats(d, env, since), limit, 0)
DeleteOldORMStats(d, tenant, cutoff) == DeleteOlder(d, "orm_stats", tenant, cutoff)
-----------------------------------------------------------------------------
(* schema_snapshots.sql.go and migrations_scan.sql.go *)

CreateSchemaSnapshot(d, row) == InsertOfEnv(d, "schema_snapshots", row)
GetSchemaByID(d, id, env) == WithId(OfEnv(d.schema_snapshots, env), id)
GetLatestSchema(d, env) == Newest(OfEnv(d.schema_snapshots, env), 1, 0)
ListSchemaSnapshots(d, env, limit) == Newest(OfEnv(d.schema_snapshots, env), limit, 0)
CountSchemasByEnv(d, env) == Cardinality(OfEnv(d.schema_snapshots, env))

\* Mutant of DeleteOldSchemaSnapshots: ORDER BY captured_at without DESC.
DeleteNewSchemaSnapshots(d, tenant, keep) ==
    [d EXCEPT !.schema_snapshots =
        {s \in @ : s.env \in EnvsOf(d, tenant) =>
                     Cardinality({r \in OfEnv(@, s.env) : r.id < s.id}) < keep}]
\* All but the newest `keep` of each environment of the tenant.
DeleteOldSchemaSnapshots(d, tenant, keep) ==
    [d EXCEPT !.schema_snapshots =
        {s \in @ : s.env \in EnvsOf(d, tenant) => s \in Newest(OfEnv(@, s.env), keep, 0)}]

CreateMigrationScan(d, row) == InsertOfEnv(d, "migration_scans", row)
GetMigrationScan(d, id, env) == WithId(OfEnv(d.migration_scans, env), id)
GetLatestMigrationScan(d, env) == Newest(OfEnv(d.migration_scans, env), 1, 0)
ListMigrationScans(d, env, p) == Newest(OfEnv(d.migration_scans, env), p.limit, p.offset)
DeleteMigrationScan(d, id, env) ==
    [d EXCEPT !.migration_scans = @ \ GetMigrationScan(d, id, env)]
-----------------------------------------------------------------------------
(* perf_budges.sql.go *)

\* UNIQUE (env_id, module, endpoint)
CreatePerfBudget(d, row) ==
    IF \E b \in d.perf_budgets : b.env = row.env /\ b.module = row.module
      THEN d ELSE InsertOfEnv(d, "perf_budgets", row)
GetPerfBudget(d, id, env) == WithId(OfEnv(d.perf_budgets, env), id)
ListPerfBudgets(d, env) == {b \in OfEnv(d.perf_budgets, env) : b.is_active}
ListAllPerfBudgetsByEnv(d, env) == OfEnv(d.perf_budgets, env)
UpdatePerfBudget(d, id, env, active) ==
    [d EXCEPT !.perf_budgets = SetWhere(@, LAMBDA b : b.id = id /\ b.env = env,
                                           LAMBDA b : [b EXCEPT !.is_active = active])]
\* With its samples.
DeletePerfBudget(d, id, env) ==
    LET gone == GetPerfBudget(d, id, env)
    IN  [d EXCEPT !.perf_budgets = @ \ gone,
                  !.perf_budget_samples = {s \in @ : s.budget \notin {b.id : b \in gone}}]

OfBudget(d, budget) == {s \in d.perf_budget_samples : s.budget = budget}
InsertBudgetSample(d, row) ==
    IF \E b \in d.perf_budgets : b.id = row.budget
      THEN [d EXCEPT !.perf_budget_samples = @ \cup {row}] ELSE d
GetLatestBudgetSample(d, budget) == Newest(OfBudget(d, budget), 1, 0)
GetBudgetAverage7d(d, budget, since) == {s \in OfBudget(d, budget) : s.id > since}
GetBudgetSampleByID(d, id, budget) == WithId(OfBudget(d, budget), id)
ListBudgetSamples(d, budget, limit) == Newest(OfBudget(d, budget), limit, 0)
DeleteOldBudgetSamples(d, tenant, cutoff) ==
    LET mine == {b.id : b \in {r \in d.perf_budgets : r.env \in EnvsOf(d, tenant)}}
    IN  [d EXCEPT !.perf_budget_samples = {s \in @ : ~(s.budget \in mine /\ s.id < cutoff)}]
-----------------------------------------------------------------------------
(* error_groups.sql.go, as far as the groups' lists and statuses go; what an *)
(* event does to its group is in ErrorGroups.                              *)

\* UNIQUE (env_id, signature): a second event of a signature is an update.
UpsertErrorGroup(d, row) ==
    IF \E g \in d.error_groups : g.env = row.env /\ g.signature = row.signature
      THEN [d EXCEPT !.error_groups =
              SetWhere(@, LAMBDA g : g.env = row.env /\ g.signature = row.signature,
                          LAMBDA g : [g EXCEPT !.status = "open", !.resolved_by = "null"])]
      ELSE InsertOfEnv(d, "error_groups", row)
GetErrorGroupByID(d, id, env) == WithId(OfEnv(d.error_groups, env), id)
GetErrorGroupBySignature(d, env, sig) == {g \in OfEnv(d.error_groups, env) : g.signature = sig}
ListErrorGroups(d, env, p) == Newest(OfEnv(d.error_groups, env), p.limit, p.offset)
ListErrorGroupsByStatus(d, env, status, p) ==
    Newest(ByStatus(OfEnv(d.error_groups, env), status), p.limit, p.offset)
\* A group's type and its searched text follow from its signature here.
ListErrorGroupsByType(d, env, type, p) ==
    Newest(GetErrorGroupBySignature(d, env, type), p.limit, p.offset)
SearchErrorGroups(d, env, text, p) ==
    Newest(GetErrorGroupBySignature(d, env, text), p.limit, p.offset)
\* Mutant of CountErrorGroupsByEnv: the open groups only.
CountOpenErrorGroups(d, env) == Cardinality(ByStatus(OfEnv(d.error_groups, env), "open"))
CountErrorGroupsByEnv(d, env) == Cardinality(OfEnv(d.error_groups, env))
CountErrorGroupsByStatus(d, env, status) ==
    Cardinality(ByStatus(OfEnv(d.error_groups, env), status))
SetGroup(d, id, env, Set(_)) ==
    [d EXCEPT !.error_groups = SetWhere(@, LAMBDA g : g.id = id /\ g.env = env, Set)]
AcknowledgeErrorGroup(d, id, env) ==
    SetGroup(d, id, env, LAMBDA g : [g EXCEPT !.status = "acknowledged"])
ResolveErrorGroup(d, id, by, env) ==
    SetGroup(d, id, env, LAMBDA g : [g EXCEPT !.status = "resolved", !.resolved_by = by])
ReopenErrorGroup(d, id, env) ==
    SetGroup(d, id, env, LAMBDA g : [g EXCEPT !.status = "open", !.resolved_by = "null"])
DeleteOldErrorGroups(d, tenant, cutoff) ==
    [d EXCEPT !.error_groups = {g \in @ : ~(/\ g.env \in EnvsOf(d, tenant)
                                            /\ g.id < cutoff /\ g.status # "open")}]
=============================================================================
