--------------------------- MODULE Server_proofs ---------------------------
(***************************************************************************)
(* Proofs about the server's API.                                          *)
(*                                                                         *)
(* TenantApi, for any number of tenants, clients, requests under way and   *)
(* rows: no request reads or writes a row of another tenant (the batches   *)
(* of the agents alone reach one), a page is never longer than the total   *)
(* it is shown with, an environment's name stays unique unless two         *)
(* requests race, and the retention worker deletes none of the newest      *)
(* rows.  The inductive invariant ApiInv has two halves: DbInv, what holds *)
(* of the database between two statements, and RequestInv, what each       *)
(* request under way may rely on until another one changes the database.   *)
(*                                                                         *)
(* AccessTrace, for any groups, access rules and record rules: the answer  *)
(* of the ACL debugger is what the rules grant, unless the parser refuses  *)
(* a domain, and never more.  The tree of a domain is   *)
(* shown to mean what the domain means for domains of any length, the      *)
(* groups expanded one by one to be the least closed set.                  *)
(***************************************************************************)
EXTENDS TenantApi, AccessTrace, SequenceTheorems, FiniteSetTheorems, WellFoundedInduction, TLAPS
-----------------------------------------------------------------------------
(* The tenants' API: what a database is made of. *)

EnvironmentRow ==
    [id : Nat, tenant : Tenant, name : Names \cup {"null"}, type : Types,
     status : Statuses \cup {"active"}]
KeyRow == [id : Nat, tenant : Tenant, env : Nat, is_active : BOOLEAN]
AlertRow ==
    [id : Nat, env : Nat, acknowledged : BOOLEAN, acknowledged_by : Tenant \cup {"null"}]
ChannelRow == [id : Nat, tenant : Tenant, is_active : BOOLEAN]
GroupRow ==
    [id : Nat, env : Nat, signature : Signatures, status : ErrorStatuses,
     resolved_by : Tenant \cup {"null"}]
BudgetRow == [id : Nat, env : Nat, module : Names, is_active : BOOLEAN]

\* The rows of the tables whose rows are updated or compared, numbered below n.
DbTyped(d, n) ==
    /\ d = [t \in Tables |-> d[t]]
    /\ \A t \in Tables : IsFiniteSet(d[t])
    /\ d.environments \subseteq EnvironmentRow
    /\ d.api_keys \subseteq KeyRow
    /\ d.alerts \subseteq AlertRow
    /\ d.notification_channels \subseteq ChannelRow
    /\ d.error_groups \subseteq GroupRow
    /\ d.perf_budgets \subseteq BudgetRow
    /\ \A t \in {"environments", "perf_budgets", "schema_snapshots"} :
          \A r \in d[t] : r.id \in 1..(n - 1)

\* Primary keys of environments and budgets.
DbKeys(d) ==
    /\ \A e, f \in d.environments : e.id = f.id => e = f
    /\ \A b, c \in d.perf_budgets : b.id = c.id => b = c

\* Foreign keys: a row's environment exists, and a sample's budget.
DbReferences(d) ==
    /\ \A t \in EnvTables : \A r \in d[t] : \E e \in d.environments : e.id = r.env
    /\ \A s \in d.perf_budget_samples : \E b \in d.perf_budgets : b.id = s.budget

\* Who acknowledged, resolved and issued belongs to the environment's tenant.
DbSigned(d) ==
    \A e \in d.environments :
       /\ \A a \in d.alerts : a.env = e.id /\ a.acknowledged => a.acknowledged_by = e.tenant
       /\ \A g \in d.error_groups : g.env = e.id => g.resolved_by \in {"null", e.tenant}
       /\ \A k \in d.api_keys : k.env = e.id => k.tenant = e.tenant

DbInv(d, n) == DbTyped(d, n) /\ DbKeys(d) /\ DbReferences(d) /\ DbSigned(d)
-----------------------------------------------------------------------------
(* The tenants' API: what a request under way may rely on. *)

\* Progress of a request that works with an environment it was checked for,
\* and of one that names its tenant in every statement.
OnEnvironment ==
    {"authorized", "listed", "counted", "patterns", "scanning", "budget", "trend", "agent",
     "total_errors", "errors", "total_recordings", "profiler", "n1", "alerts"}
OnTenant == {"creating", "renaming", "revoking"}
RequestRow ==
    [at : OnEnvironment \cup OnTenant, tenant : Tenant, env : Nat, row : Nat, size : Nat,
     name : Names \cup {"null"}, type : Types \cup {"null"},
     status : Statuses \cup {"null"}, raced : BOOLEAN]

Typed(r) ==
    /\ r \in {Idle} \cup RequestRow
    /\ r # Idle => r.env < nextId /\ r.row < nextId

\* As long as the environment exists it is the tenant's, and the budget the
\* environment's.
Owns(r) ==
    /\ r.at \in OnEnvironment =>
         \A e \in db.environments : e.id = r.env => e.tenant = r.tenant
    /\ r.at \in {"budget", "trend"} =>
         \A b \in db.perf_budgets : b.id = r.row => b.env = r.env

\* What the request counted or listed, as long as the database is the same.
Counts(r) ==
    r # Idle /\ ~r.raced =>
      /\ r.at = "listed" /\ area = "environments" =>
           r.size <= EnvironmentTotal(r.tenant, r.type, r.status)
      /\ r.at = "listed" /\ area = "errors" => r.size <= CountErrorGroupsByEnv(db, r.env)
      /\ r.at = "listed" /\ area = "audit" => r.size <= CountAuditLogs(db, r.tenant)
      /\ r.at = "listed" /\ area = "profiler" => r.size <= CountRecordingsByEnv(db, r.env)
      /\ r.at = "counted" /\ area = "alerts" => r.size = CountUnacknowledgedAlerts(db, r.env)
      /\ r.at = "counted" /\ area = "schema" => r.size = CountSchemasByEnv(db, r.env)
      /\ r.at = "total_errors" => r.size = CountErrorGroupsByEnv(db, r.env)
      /\ r.at = "total_recordings" => r.size = CountRecordingsByEnv(db, r.env)

\* A name that was checked is free, as long as the database is the same.
Checks(r) ==
    r # Idle /\ ~r.raced =>
      /\ r.at = "creating" => ~CheckEnvironmentNameExists(db, r.tenant, r.name, 0)
      /\ r.at = "renaming" => ~CheckEnvironmentNameExists(db, r.tenant, r.name, r.env)

Relies(r) == Typed(r) /\ Owns(r) /\ Counts(r) /\ Checks(r)

RequestTyped(c) == Typed(req[c])
RequestOwns(c) == Owns(req[c])
RequestCounted(c) == Counts(req[c])
RequestChecked(c) == Checks(req[c])
RequestInv(c) == RequestTyped(c) /\ RequestOwns(c) /\ RequestCounted(c) /\ RequestChecked(c)

ApiInv ==
    /\ nextId \in Nat \ {0}
    /\ DbInv(db, nextId)
    /\ req = [c \in Client |-> req[c]]
    /\ \A c \in Client : RequestInv(c)
    /\ leaks \subseteq {"batch"} \X BatchTables /\ overfull = {}
    /\ NamesUniqueUnlessRaced
-----------------------------------------------------------------------------
(* The tenants' API: what the statements do to the database. *)

\* No environment changes hands and no budget moves: what d2 holds under a
\* number, d held, unless the number is n, the next.
KeepsOwners(d, d2, n) ==
    /\ \A f \in d2.environments :
          f.id = n \/ \E e \in d.environments : e.id = f.id /\ e.tenant = f.tenant
    /\ \A c \in d2.perf_budgets :
          c.id = n \/ \E b \in d.perf_budgets : b.id = c.id /\ b.env = c.env

\* The row of a table belongs to tenant t.
OwnedBy(d, table, r, t) ==
    /\ table \in TenantTables => r.tenant = t
    /\ table \in EnvTables => \E e \in d.environments : e.id = r.env /\ e.tenant = t
    /\ table = "perf_budget_samples" =>
         \E b \in d.perf_budgets : b.id = r.budget /\ \E e \in d.environments : e.id = b.env /\ e.tenant = t

\* Every row of one of two databases and not of the other is tenant t's.
Touches(d, d2, t) ==
    \A table \in Tables :
       /\ \A r \in d[table] \ d2[table] : OwnedBy(d, table, r, t)
       /\ \A r \in d2[table] \ d[table] : OwnedBy(d, table, r, t)

\* A statement in the name of tenant t turns d into d2: the invariant stays and
\* only rows of the tenant are added, changed or gone.
DbChange(d, n, d2, m, t) ==
    /\ DbInv(d2, m)
    /\ KeepsOwners(d, d2, n)
    /\ Touches(d, d2, t)

\* A statement that gives no environment a name.
DbStep(d, n, d2, m, t) ==
    /\ DbChange(d, n, d2, m, t)
    /\ \A f \in d2.environments :
          \E e \in d.environments : e.id = f.id /\ e.tenant = f.tenant /\ e.name = f.name

\* A database is an admissible one with any larger number to come.
LEMMA DbInvGrows ==
    ASSUME NEW d, NEW n \in Nat, NEW m \in Nat, n <= m, DbInv(d, n)
    PROVE  DbInv(d, m)
<1>1. DbTyped(d, n)
  BY DEF DbInv
<1>2. ASSUME NEW u \in {"environments", "perf_budgets", "schema_snapshots"}, NEW r \in d[u]
      PROVE  r.id \in 1..(m - 1)
  <2>1. r.id \in 1..(n - 1)
    BY <1>1 DEF DbTyped
  <2> QED
    BY <2>1
<1>3. DbTyped(d, m)
  BY <1>1, <1>2, Zenon DEF DbTyped
<1> QED
  BY <1>3 DEF DbInv

\* Nothing happens to the database: a read, or a statement that is refused.
LEMMA NoDbStep ==
    ASSUME NEW d, NEW n \in Nat, NEW m \in Nat, n <= m, DbInv(d, n), NEW t
    PROVE  DbStep(d, n, d, m, t)
<1>1. DbInv(d, m)
  BY DbInvGrows
<1> QED
  BY <1>1 DEF DbStep, DbChange, KeepsOwners, Touches

\* Rows disappear, each with what refers to it.
LEMMA ShrinkStep ==
    ASSUME NEW d, NEW n \in Nat, DbInv(d, n), NEW t,
           NEW d2, d2 = [u \in Tables |-> d2[u]], \A u \in Tables : d2[u] \subseteq d[u],
           DbReferences(d2),
           \A u \in Tables : \A r \in d[u] \ d2[u] : OwnedBy(d, u, r, t)
    PROVE  DbStep(d, n, d2, n, t)
<1>1. DbTyped(d, n) /\ DbKeys(d) /\ DbReferences(d) /\ DbSigned(d)
  BY DEF DbInv
<1>2. /\ d2.environments \subseteq d.environments /\ d2.perf_budgets \subseteq d.perf_budgets
      /\ d2.api_keys \subseteq d.api_keys /\ d2.alerts \subseteq d.alerts
      /\ d2.notification_channels \subseteq d.notification_channels
      /\ d2.error_groups \subseteq d.error_groups
      /\ d2.schema_snapshots \subseteq d.schema_snapshots
  BY DEF Tables, EnvTables, TenantTables
<1>3. \A u \in Tables : IsFiniteSet(d2[u])
  BY <1>1, FS_Subset DEF DbTyped
<1>4. DbTyped(d2, n)
  BY <1>1, <1>2, <1>3 DEF DbTyped
<1>5. DbKeys(d2)
  BY <1>1, <1>2 DEF DbKeys
<1>6. DbSigned(d2)
  BY <1>1, <1>2 DEF DbSigned
<1>7. KeepsOwners(d, d2, n)
  BY <1>2 DEF KeepsOwners
<1>8. Touches(d, d2, t)
  BY DEF Touches
<1> QED
  BY <1>2, <1>4, <1>5, <1>6, <1>7, <1>8 DEF DbStep, DbChange, DbInv

\* A row that may stand in one of the tables of an environment.
RowOK(d, table, r, m) ==
    /\ \E e \in d.environments : e.id = r.env
    /\ table = "api_keys" =>
         r \in KeyRow /\ \A e \in d.environments : r.env = e.id => r.tenant = e.tenant
    /\ table = "alerts" =>
         /\ r \in AlertRow
         /\ \A e \in d.environments : r.env = e.id /\ r.acknowledged => r.acknowledged_by = e.tenant
    /\ table = "error_groups" =>
         /\ r \in GroupRow
         /\ \A e \in d.environments : r.env = e.id => r.resolved_by \in {"null", e.tenant}
    /\ table = "schema_snapshots" => r.id \in 1..(m - 1)

\* The rows of one such table are replaced by others.
LEMMA ReplaceRows ==
    ASSUME NEW d, NEW n \in Nat, NEW m \in Nat, n <= m, DbInv(d, n), NEW t,
           NEW table \in EnvTables \ {"perf_budgets"}, NEW rows, IsFiniteSet(rows),
           \A r \in rows : RowOK(d, table, r, m),
           \A r \in d[table] \ rows : OwnedBy(d, table, r, t),
           \A r \in rows \ d[table] : OwnedBy(d, table, r, t)
    PROVE  DbStep(d, n, [d EXCEPT ![table] = rows], m, t)
<1> DEFINE d2 == [d EXCEPT ![table] = rows]
<1>1. DbTyped(d, m) /\ DbKeys(d) /\ DbReferences(d) /\ DbSigned(d)
  BY DbInvGrows DEF DbInv
<1>2. /\ d2 = [u \in Tables |-> d2[u]]
      /\ \A u \in Tables : d2[u] = IF u = table THEN rows ELSE d[u]
  BY <1>1 DEF DbTyped, Tables
<1> HIDE DEF d2
<1>3. /\ d2.environments = d.environments /\ d2.perf_budgets = d.perf_budgets
      /\ d2.notification_channels = d.notification_channels
      /\ d2.perf_budget_samples = d.perf_budget_samples
      /\ d2.api_keys = IF table = "api_keys" THEN rows ELSE d.api_keys
      /\ d2.alerts = IF table = "alerts" THEN rows ELSE d.alerts
      /\ d2.error_groups = IF table = "error_groups" THEN rows ELSE d.error_groups
      /\ d2.schema_snapshots = IF table = "schema_snapshots" THEN rows ELSE d.schema_snapshots
  BY <1>2 DEF Tables, EnvTables, TenantTables
<1>4. DbTyped(d2, m)
  <2>1. \A u \in Tables : IsFiniteSet(d2[u])
    BY <1>1, <1>2 DEF DbTyped
  <2>2. d2.api_keys \subseteq KeyRow /\ d2.alerts \subseteq AlertRow /\ d2.error_groups \subseteq GroupRow
    BY <1>1, <1>3 DEF DbTyped, RowOK
  <2>3. \A r \in d2.schema_snapshots : r.id \in 1..(m - 1)
    BY <1>1, <1>3 DEF DbTyped, RowOK
  <2> QED
    BY <1>1, <1>2, <1>3, <2>1, <2>2, <2>3 DEF DbTyped
<1>5. DbKeys(d2)
  BY <1>1, <1>3 DEF DbKeys
<1>6. DbReferences(d2)
  <2>1. ASSUME NEW u \in EnvTables, NEW r \in d2[u] PROVE \E e \in d2.environments : e.id = r.env
    BY <1>1, <1>2, <1>3, <2>1 DEF DbReferences, RowOK, Tables
  <2> QED
    BY <1>1, <1>3, <2>1 DEF DbReferences
<1>7. DbSigned(d2)
  BY <1>1, <1>3 DEF DbSigned, RowOK
<1>8. KeepsOwners(d, d2, n)
  BY <1>3 DEF KeepsOwners
<1>9. Touches(d, d2, t)
  BY <1>2 DEF Touches
<1> QED
  BY <1>3, <1>4, <1>5, <1>6, <1>7, <1>8, <1>9 DEF DbStep, DbChange, DbInv, d2

\* Rows that are updated stay finitely many.
LEMMA UpdatedFinite ==
    ASSUME NEW S, IsFiniteSet(S), NEW f
    PROVE  IsFiniteSet({f[x] : x \in S})
<1> DEFINE T == {f[x] : x \in S}
           g == [x \in S |-> f[x]]
<1>1. g \in Surjection(S, T)
  BY DEF Surjection
<1> QED
  BY <1>1, FS_Surjection, Zenon

\* The environments are replaced by others, each with an owner as before.
LEMMA ReplaceEnvironments ==
    ASSUME NEW d, NEW n \in Nat, DbInv(d, n), NEW t, NEW rows, IsFiniteSet(rows),
           rows \subseteq EnvironmentRow,
           \A f \in rows : \E e \in d.environments : e.id = f.id /\ e.tenant = f.tenant,
           \A e \in d.environments : \E f \in rows : f.id = e.id,
           \A e, f \in rows : e.id = f.id => e = f,
           \A e \in d.environments \ rows : e.tenant = t,
           \A e \in rows \ d.environments : e.tenant = t
    PROVE  DbChange(d, n, [d EXCEPT !.environments = rows], n, t)
<1> DEFINE d2 == [d EXCEPT !.environments = rows]
<1>1. DbTyped(d, n) /\ DbKeys(d) /\ DbReferences(d) /\ DbSigned(d)
  BY DEF DbInv
<1>2. /\ d2 = [u \in Tables |-> d2[u]]
      /\ \A u \in Tables : d2[u] = IF u = "environments" THEN rows ELSE d[u]
  BY <1>1 DEF DbTyped, Tables, TenantTables
<1> HIDE DEF d2
<1>3. /\ d2.environments = rows /\ d2.perf_budgets = d.perf_budgets
      /\ d2.notification_channels = d.notification_channels
      /\ d2.perf_budget_samples = d.perf_budget_samples
      /\ d2.api_keys = d.api_keys /\ d2.alerts = d.alerts /\ d2.error_groups = d.error_groups
      /\ d2.schema_snapshots = d.schema_snapshots
  BY <1>2 DEF Tables, EnvTables, TenantTables
<1>4. DbTyped(d2, n)
  <2>1. \A u \in Tables : IsFiniteSet(d2[u])
    BY <1>1, <1>2 DEF DbTyped
  <2>2. \A f \in rows : f.id \in 1..(n - 1)
    BY <1>1 DEF DbTyped
  <2> QED
    BY <1>1, <1>2, <1>3, <2>1, <2>2 DEF DbTyped
<1>5. DbKeys(d2)
  BY <1>1, <1>3 DEF DbKeys
<1>6. DbReferences(d2)
  <2>1. \A u \in EnvTables : d2[u] = d[u]
    BY <1>2 DEF Tables, EnvTables
  <2>2. ASSUME NEW u \in EnvTables, NEW r \in d2[u] PROVE \E e \in d2.environments : e.id = r.env
    <3>1. PICK e \in d.environments : e.id = r.env
      BY <1>1, <2>1, <2>2 DEF DbReferences
    <3> QED
      BY <1>3, <3>1
  <2> QED
    BY <1>1, <1>3, <2>2 DEF DbReferences
<1>7. DbSigned(d2)
  <2> SUFFICES ASSUME NEW f \in rows
               PROVE  /\ \A a \in d.alerts : a.env = f.id /\ a.acknowledged => a.acknowledged_by = f.tenant
                      /\ \A g \in d.error_groups : g.env = f.id => g.resolved_by \in {"null", f.tenant}
                      /\ \A k \in d.api_keys : k.env = f.id => k.tenant = f.tenant
    BY <1>3 DEF DbSigned
  <2>1. PICK e \in d.environments : e.id = f.id /\ e.tenant = f.tenant
    OBVIOUS
  <2> QED
    BY <1>1, <2>1 DEF DbSigned
<1>8. KeepsOwners(d, d2, n)
  BY <1>3 DEF KeepsOwners
<1>9. Touches(d, d2, t)
  <2>1. \A u \in Tables : u # "environments" => d2[u] = d[u]
    BY <1>2
  <2>2. ASSUME NEW r, r.tenant = t PROVE OwnedBy(d, "environments", r, t)
    BY <2>2 DEF OwnedBy, EnvTables
  <2> QED
    BY <1>3, <2>1, <2>2 DEF Touches
<1> QED
  BY <1>4, <1>5, <1>6, <1>7, <1>8, <1>9 DEF DbChange, DbInv, d2

\* The budgets are replaced by others of the same environments.
LEMMA ReplaceBudgets ==
    ASSUME NEW d, NEW n \in Nat, DbInv(d, n), NEW t, NEW rows, IsFiniteSet(rows),
           rows \subseteq BudgetRow,
           \A c \in rows : \E b \in d.perf_budgets : b.id = c.id /\ b.env = c.env,
           \A b \in d.perf_budgets : \E c \in rows : c.id = b.id,
           \A b, c \in rows : b.id = c.id => b = c,
           \A b \in d.perf_budgets \ rows : OwnedBy(d, "perf_budgets", b, t),
           \A b \in rows \ d.perf_budgets : OwnedBy(d, "perf_budgets", b, t)
    PROVE  DbStep(d, n, [d EXCEPT !.perf_budgets = rows], n, t)
<1> DEFINE d2 == [d EXCEPT !.perf_budgets = rows]
<1>1. DbTyped(d, n) /\ DbKeys(d) /\ DbReferences(d) /\ DbSigned(d)
  BY DEF DbInv
<1>2. /\ d2 = [u \in Tables |-> d2[u]]
      /\ \A u \in Tables : d2[u] = IF u = "perf_budgets" THEN rows ELSE d[u]
  BY <1>1 DEF DbTyped, Tables, EnvTables
<1> HIDE DEF d2
<1>3. /\ d2.environments = d.environments /\ d2.perf_budgets = rows
      /\ d2.notification_channels = d.notification_channels
      /\ d2.perf_budget_samples = d.perf_budget_samples
      /\ d2.api_keys = d.api_keys /\ d2.alerts = d.alerts /\ d2.error_groups = d.error_groups
      /\ d2.schema_snapshots = d.schema_snapshots
  BY <1>2 DEF Tables, EnvTables, TenantTables
<1>4. DbTyped(d2, n)
  <2>1. \A u \in Tables : IsFiniteSet(d2[u])
    BY <1>1, <1>2 DEF DbTyped
  <2>2. \A c \in rows : c.id \in 1..(n - 1)
    BY <1>1 DEF DbTyped
  <2> QED
    BY <1>1, <1>2, <1>3, <2>1, <2>2 DEF DbTyped
<1>5. DbKeys(d2)
  BY <1>1, <1>3 DEF DbKeys
<1>6. DbReferences(d2)
  <2>1. ASSUME NEW u \in EnvTables, NEW r \in d2[u] PROVE \E e \in d2.environments : e.id = r.env
    <3>1. CASE u = "perf_budgets"
      <4>1. PICK b \in d.perf_budgets : b.env = r.env
        BY <1>3, <2>1, <3>1
      <4> QED
        BY <1>1, <1>3, <4>1 DEF DbReferences, EnvTables
    <3>2. CASE u # "perf_budgets"
      BY <1>1, <1>2, <1>3, <2>1, <3>2 DEF DbReferences, Tables
    <3> QED
      BY <3>1, <3>2
  <2>2. ASSUME NEW s \in d2.perf_budget_samples PROVE \E c \in d2.perf_budgets : c.id = s.budget
    <3>1. PICK b \in d.perf_budgets : b.id = s.budget
      BY <1>1, <1>3, <2>2 DEF DbReferences
    <3> QED
      BY <1>3, <3>1
  <2> QED
    BY <2>1, <2>2 DEF DbReferences
<1>7. DbSigned(d2)
  BY <1>1, <1>3 DEF DbSigned
<1>8. KeepsOwners(d, d2, n)
  BY <1>3 DEF KeepsOwners
<1>9. Touches(d, d2, t)
  <2>1. \A u \in Tables : u # "perf_budgets" => d2[u] = d[u]
    BY <1>2
  <2> QED
    BY <1>3, <2>1 DEF Touches
<1> QED
  BY <1>3, <1>4, <1>5, <1>6, <1>7, <1>8, <1>9 DEF DbStep, DbChange, DbInv, d2

\* The rows of a table no other table refers to, and of no environment, are
\* replaced.
LEMMA ReplaceTenantRows ==
    ASSUME NEW d, NEW n \in Nat, NEW m \in Nat, n <= m, DbInv(d, n), NEW t,
           NEW table \in {"notification_channels", "audit_logs", "perf_budget_samples"},
           NEW rows, IsFiniteSet(rows),
           table = "notification_channels" => rows \subseteq ChannelRow,
           table = "perf_budget_samples" =>
              \A s \in rows : \E b \in d.perf_budgets : b.id = s.budget,
           \A r \in d[table] \ rows : OwnedBy(d, table, r, t),
           \A r \in rows \ d[table] : OwnedBy(d, table, r, t)
    PROVE  DbStep(d, n, [d EXCEPT ![table] = rows], m, t)
<1> DEFINE d2 == [d EXCEPT ![table] = rows]
<1>1. DbTyped(d, m) /\ DbKeys(d) /\ DbReferences(d) /\ DbSigned(d)
  BY DbInvGrows DEF DbInv
<1>2. /\ d2 = [u \in Tables |-> d2[u]]
      /\ \A u \in Tables : d2[u] = IF u = table THEN rows ELSE d[u]
  BY <1>1 DEF DbTyped, Tables
<1> HIDE DEF d2
<1>3. /\ d2.environments = d.environments /\ d2.perf_budgets = d.perf_budgets
      /\ d2.notification_channels =
           IF table = "notification_channels" THEN rows ELSE d.notification_channels
      /\ d2.perf_budget_samples =
           IF table = "perf_budget_samples" THEN rows ELSE d.perf_budget_samples
      /\ d2.api_keys = d.api_keys /\ d2.alerts = d.alerts /\ d2.error_groups = d.error_groups
      /\ d2.schema_snapshots = d.schema_snapshots
      /\ \A u \in EnvTables : d2[u] = d[u]
  BY <1>2 DEF Tables, EnvTables, TenantTables
<1>4. DbTyped(d2, m)
  <2>1. \A u \in Tables : IsFiniteSet(d2[u])
    BY <1>1, <1>2 DEF DbTyped
  <2> QED
    BY <1>1, <1>2, <1>3, <2>1 DEF DbTyped
<1>5. DbKeys(d2) /\ DbReferences(d2) /\ DbSigned(d2)
  BY <1>1, <1>3 DEF DbKeys, DbReferences, DbSigned
<1>6. KeepsOwners(d, d2, n)
  BY <1>3 DEF KeepsOwners
<1>7. Touches(d, d2, t)
  BY <1>2 DEF Touches
<1> QED
  BY <1>3, <1>4, <1>5, <1>6, <1>7 DEF DbStep, DbChange, DbInv, d2
-----------------------------------------------------------------------------
(* The tenants' API: every statement that writes is a DbStep. *)

\* The rows a table holds may stand in it.
LEMMA OldRowOK ==
    ASSUME NEW d, NEW n \in Nat, NEW m \in Nat, n <= m, DbInv(d, n),
           NEW table \in EnvTables, NEW r \in d[table]
    PROVE  RowOK(d, table, r, m)
<1>1. \E e \in d.environments : e.id = r.env
  BY DEF DbInv, DbReferences
<1>2. table = "api_keys" =>
        r \in KeyRow /\ \A e \in d.environments : r.env = e.id => r.tenant = e.tenant
  BY DEF DbInv, DbTyped, DbSigned
<1>3. table = "alerts" =>
        /\ r \in AlertRow
        /\ \A e \in d.environments : r.env = e.id /\ r.acknowledged => r.acknowledged_by = e.tenant
  BY DEF DbInv, DbTyped, DbSigned
<1>4. table = "error_groups" =>
        /\ r \in GroupRow
        /\ \A e \in d.environments : r.env = e.id => r.resolved_by \in {"null", e.tenant}
  BY DEF DbInv, DbTyped, DbSigned
<1>5. table = "schema_snapshots" => r.id \in 1..(m - 1)
  <2>1. table = "schema_snapshots" => r.id \in 1..(n - 1)
    BY DEF DbInv, DbTyped
  <2> QED
    BY <2>1
<1> QED
  BY <1>1, <1>2, <1>3, <1>4, <1>5 DEF RowOK

\* INSERT INTO a table of an environment.
LEMMA InsertStep ==
    ASSUME NEW d, NEW n \in Nat \ {0}, DbInv(d, n), NEW t,
           NEW table \in EnvTables \ {"perf_budgets"}, NEW row,
           (\E e \in d.environments : e.id = row.env) => RowOK(d, table, row, n + 1),
           \A e \in d.environments : e.id = row.env => e.tenant = t
    PROVE  DbStep(d, n, InsertOfEnv(d, table, row), n + 1, t)
<1>0. n + 1 \in Nat /\ n <= n + 1
  OBVIOUS
<1>1. CASE \E e \in d.environments : e.id = row.env
  <2> DEFINE rows == d[table] \cup {row}
  <2>1. IsFiniteSet(rows)
    BY FS_AddElement DEF DbInv, DbTyped, Tables
  <2>2. \A r \in d[table] : RowOK(d, table, r, n + 1)
    BY <1>0, OldRowOK
  <2>3. \A r \in rows : RowOK(d, table, r, n + 1)
    BY <1>1, <2>2
  <2>4. OwnedBy(d, table, row, t)
    BY <1>1 DEF OwnedBy, EnvTables, TenantTables
  <2>5. /\ \A r \in d[table] \ rows : OwnedBy(d, table, r, t)
        /\ \A r \in rows \ d[table] : OwnedBy(d, table, r, t)
    BY <2>4
  <2>6. DbStep(d, n, [d EXCEPT ![table] = rows], n + 1, t)
    BY <1>0, <2>1, <2>3, <2>5, ReplaceRows
  <2> QED
    BY <1>1, <2>6 DEF InsertOfEnv
<1>2. CASE ~\E e \in d.environments : e.id = row.env
  BY <1>0, <1>2, NoDbStep DEF InsertOfEnv
<1> QED
  BY <1>1, <1>2

\* Inserts into the tables whose rows name nothing but their environment.
LEMMA InsertPlainStep ==
    ASSUME NEW d, NEW n \in Nat \ {0}, DbInv(d, n), NEW t, NEW row,
           \A e \in d.environments : e.id = row.env => e.tenant = t
    PROVE  /\ DbStep(d, n, InsertHeartbeat(d, row), n + 1, t)
           /\ DbStep(d, n, CreateMigrationScan(d, row), n + 1, t)
           /\ DbStep(d, n, CreateProfilerRecording(d, row), n + 1, t)
           /\ DbStep(d, n, InsertORMStat(d, row), n + 1, t)
<1>1. ASSUME NEW table \in {"agent_heartbeats", "migration_scans", "profiler_recordings", "orm_stats"}
      PROVE  DbStep(d, n, InsertOfEnv(d, table, row), n + 1, t)
  <2>1. table \in EnvTables \ {"perf_budgets"}
    BY DEF EnvTables
  <2>2. (\E e \in d.environments : e.id = row.env) => RowOK(d, table, row, n + 1)
    BY DEF RowOK
  <2> QED
    BY <2>1, <2>2, InsertStep
<1> QED
  BY <1>1 DEF InsertHeartbeat, CreateMigrationScan, CreateProfilerRecording, InsertORMStat

\* A snapshot is numbered like every row.
LEMMA CreateSchemaSnapshotStep ==
    ASSUME NEW d, NEW n \in Nat \ {0}, DbInv(d, n), NEW t, NEW env,
           \A e \in d.environments : e.id = env => e.tenant = t
    PROVE  DbStep(d, n, CreateSchemaSnapshot(d, [id |-> n, env |-> env]), n + 1, t)
<1> DEFINE row == [id |-> n, env |-> env]
<1>1. (\E e \in d.environments : e.id = row.env) => RowOK(d, "schema_snapshots", row, n + 1)
  BY DEF RowOK
<1>2. "schema_snapshots" \in EnvTables \ {"perf_budgets"}
  BY DEF EnvTables
<1> QED
  BY <1>1, <1>2, InsertStep DEF CreateSchemaSnapshot

\* An alert comes unsigned.
LEMMA CreateAlertStep ==
    ASSUME NEW d, NEW n \in Nat \ {0}, DbInv(d, n), NEW t, NEW env \in Nat,
           \A e \in d.environments : e.id = env => e.tenant = t
    PROVE  DbStep(d, n, CreateAlert(d, [id |-> n, env |-> env, acknowledged |-> FALSE,
                                        acknowledged_by |-> "null"]), n + 1, t)
<1> DEFINE row == [id |-> n, env |-> env, acknowledged |-> FALSE, acknowledged_by |-> "null"]
<1>1. (\E e \in d.environments : e.id = row.env) => RowOK(d, "alerts", row, n + 1)
  BY DEF RowOK, AlertRow
<1>2. "alerts" \in EnvTables \ {"perf_budgets"}
  BY DEF EnvTables
<1> QED
  BY <1>1, <1>2, InsertStep DEF CreateAlert

\* A key is issued with the tenant whose environment it is.
LEMMA CreateAPIKeyStep ==
    ASSUME NEW d, NEW n \in Nat \ {0}, DbInv(d, n), NEW t \in Tenant, NEW env \in Nat,
           \A e \in d.environments : e.id = env => e.tenant = t
    PROVE  DbStep(d, n, CreateAPIKey(d, [id |-> n, tenant |-> t, env |-> env, is_active |-> TRUE]),
                  n + 1, t)
<1> DEFINE row == [id |-> n, tenant |-> t, env |-> env, is_active |-> TRUE]
<1>1. (\E e \in d.environments : e.id = row.env) => RowOK(d, "api_keys", row, n + 1)
  BY DEF RowOK, KeyRow
<1>2. "api_keys" \in EnvTables \ {"perf_budgets"}
  BY DEF EnvTables
<1> QED
  BY <1>1, <1>2, InsertStep DEF CreateAPIKey

\* The budget, if it exists, is of an environment of tenant t.
BudgetOf(d, budget, t) ==
    \A b \in d.perf_budgets : b.id = budget =>
       \A e \in d.environments : e.id = b.env => e.tenant = t

\* Inserts of a tenant's channels and audit entries and of a budget's samples.
LEMMA InsertTenantSteps ==
    ASSUME NEW d, NEW n \in Nat \ {0}, DbInv(d, n), NEW t
    PROVE  /\ t \in Tenant =>
                DbStep(d, n, CreateNotificationChannel(d, [id |-> n, tenant |-> t, is_active |-> TRUE]),
                       n + 1, t)
           /\ \A row : row.tenant = t => DbStep(d, n, CreateAuditLog(d, row), n + 1, t)
           /\ \A row : BudgetOf(d, row.budget, t) =>
                DbStep(d, n, InsertBudgetSample(d, row), n + 1, t)
<1>0. /\ n + 1 \in Nat /\ n <= n + 1
      /\ \A u \in Tables : IsFiniteSet(d[u])
  BY DEF DbInv, DbTyped
<1>1. ASSUME t \in Tenant
      PROVE  DbStep(d, n, CreateNotificationChannel(d, [id |-> n, tenant |-> t, is_active |-> TRUE]),
                    n + 1, t)
  <2> DEFINE rows == d.notification_channels \cup {[id |-> n, tenant |-> t, is_active |-> TRUE]}
  <2>1. IsFiniteSet(rows)
    BY <1>0, FS_AddElement DEF Tables, TenantTables
  <2>2. rows \subseteq ChannelRow
    <3>1. d.notification_channels \subseteq ChannelRow
      BY DEF DbInv, DbTyped
    <3>2. [id |-> n, tenant |-> t, is_active |-> TRUE] \in ChannelRow
      BY <1>1 DEF ChannelRow
    <3> QED
      BY <3>1, <3>2, Zenon
  <2>3. OwnedBy(d, "notification_channels", [id |-> n, tenant |-> t, is_active |-> TRUE], t)
    BY DEF OwnedBy, EnvTables
  <2>4. /\ \A r \in d["notification_channels"] \ rows : OwnedBy(d, "notification_channels", r, t)
        /\ \A r \in rows \ d["notification_channels"] : OwnedBy(d, "notification_channels", r, t)
    BY <2>3
  <2> HIDE DEF rows
  <2>5. DbStep(d, n, [d EXCEPT !["notification_channels"] = rows], n + 1, t)
    BY <1>0, <2>1, <2>2, <2>4, ReplaceTenantRows
  <2> QED
    BY <2>5 DEF CreateNotificationChannel, rows
<1>2. ASSUME NEW row, row.tenant = t PROVE DbStep(d, n, CreateAuditLog(d, row), n + 1, t)
  <2> DEFINE rows == d.audit_logs \cup {row}
  <2>1. IsFiniteSet(rows)
    BY <1>0, FS_AddElement DEF Tables, TenantTables
  <2>2. OwnedBy(d, "audit_logs", row, t)
    BY <1>2 DEF OwnedBy, EnvTables
  <2>3. /\ \A r \in d["audit_logs"] \ rows : OwnedBy(d, "audit_logs", r, t)
        /\ \A r \in rows \ d["audit_logs"] : OwnedBy(d, "audit_logs", r, t)
    BY <2>2
  <2>4. DbStep(d, n, [d EXCEPT !["audit_logs"] = rows], n + 1, t)
    BY <1>0, <2>1, <2>3, ReplaceTenantRows
  <2> QED
    BY <2>4 DEF CreateAuditLog
<1>3. ASSUME NEW row, BudgetOf(d, row.budget, t)
      PROVE  DbStep(d, n, InsertBudgetSample(d, row), n + 1, t)
  <2>1. CASE \E b \in d.perf_budgets : b.id = row.budget
    <3> DEFINE rows == d.perf_budget_samples \cup {row}
    <3>1. IsFiniteSet(rows)
      BY <1>0, FS_AddElement DEF Tables
    <3>2. \A s \in rows : \E b \in d.perf_budgets : b.id = s.budget
      BY <2>1 DEF DbInv, DbReferences
    <3>3. OwnedBy(d, "perf_budget_samples", row, t)
      <4>1. PICK b \in d.perf_budgets : b.id = row.budget
        BY <2>1
      <4>2. \E e \in d.environments : e.id = b.env
        BY DEF DbInv, DbReferences, EnvTables
      <4>3. \E e \in d.environments : e.id = b.env /\ e.tenant = t
        BY <1>3, <4>1, <4>2 DEF BudgetOf
      <4> QED
        BY <4>1, <4>3 DEF OwnedBy, EnvTables, TenantTables
    <3>4. /\ \A r \in d["perf_budget_samples"] \ rows : OwnedBy(d, "perf_budget_samples", r, t)
          /\ \A r \in rows \ d["perf_budget_samples"] : OwnedBy(d, "perf_budget_samples", r, t)
      BY <3>3
    <3>5. DbStep(d, n, [d EXCEPT !["perf_budget_samples"] = rows], n + 1, t)
      BY <1>0, <3>1, <3>2, <3>4, ReplaceTenantRows
    <3> QED
      BY <2>1, <3>5 DEF InsertBudgetSample
  <2>2. CASE ~\E b \in d.perf_budgets : b.id = row.budget
    BY <1>0, <2>2, NoDbStep DEF InsertBudgetSample
  <2> QED
    BY <2>1, <2>2
<1> QED
  BY <1>1, <1>2, <1>3

\* A number that was not given out yet is no environment's and no budget's.
LEMMA FreshNumber ==
    ASSUME NEW d, NEW n \in Nat \ {0}, DbInv(d, n)
    PROVE  /\ \A e \in d.environments : e.id # n
           /\ \A b \in d.perf_budgets : b.id # n
           /\ \A u \in EnvTables : \A r \in d[u] : r.env # n
<1>1. \A u \in {"environments", "perf_budgets"} : \A r \in d[u] : r.id \in 1..(n - 1)
  BY DEF DbInv, DbTyped
<1>2. \A e \in d.environments : e.id # n
  BY <1>1
<1>3. \A b \in d.perf_budgets : b.id # n
  BY <1>1
<1> QED
  BY <1>2, <1>3 DEF DbInv, DbReferences

\* INSERT INTO environments.
LEMMA CreateEnvironmentStep ==
    ASSUME NEW d, NEW n \in Nat \ {0}, DbInv(d, n), NEW t,
           NEW row \in EnvironmentRow, row.id = n, row.tenant = t
    PROVE  DbChange(d, n, CreateEnvironment(d, row), n + 1, t)
<1> DEFINE d2 == CreateEnvironment(d, row)
<1>0. n + 1 \in Nat /\ n <= n + 1
  OBVIOUS
<1>1. DbTyped(d, n + 1) /\ DbKeys(d) /\ DbReferences(d) /\ DbSigned(d)
  BY <1>0, DbInvGrows DEF DbInv
<1>2. /\ d2 = [u \in Tables |-> d2[u]]
      /\ \A u \in Tables : d2[u] = IF u = "environments" THEN d.environments \cup {row} ELSE d[u]
  BY <1>1 DEF DbTyped, Tables, TenantTables, CreateEnvironment
<1> HIDE DEF d2
<1>3. /\ d2.environments = d.environments \cup {row} /\ d2.perf_budgets = d.perf_budgets
      /\ d2.notification_channels = d.notification_channels
      /\ d2.perf_budget_samples = d.perf_budget_samples
      /\ d2.api_keys = d.api_keys /\ d2.alerts = d.alerts /\ d2.error_groups = d.error_groups
      /\ d2.schema_snapshots = d.schema_snapshots
      /\ \A u \in EnvTables : d2[u] = d[u]
  BY <1>2 DEF Tables, EnvTables, TenantTables
<1>4. DbTyped(d2, n + 1)
  <2>0. IsFiniteSet(d.environments \cup {row})
    BY <1>1, FS_AddElement DEF DbTyped, Tables, TenantTables
  <2>1. \A u \in Tables : IsFiniteSet(d2[u])
    BY <1>1, <1>2, <2>0 DEF DbTyped
  <2>2. d2.environments \subseteq EnvironmentRow /\ \A e \in d2.environments : e.id \in 1..((n + 1) - 1)
    BY <1>1, <1>3 DEF DbTyped
  <2> QED
    BY <1>1, <1>2, <1>3, <2>1, <2>2 DEF DbTyped
<1>5. DbKeys(d2)
  BY <1>1, <1>3, FreshNumber DEF DbKeys
<1>6. DbReferences(d2)
  BY <1>1, <1>3 DEF DbReferences
<1>7. DbSigned(d2)
  <2>1. /\ \A a \in d.alerts : a.env # n
        /\ \A g \in d.error_groups : g.env # n
        /\ \A k \in d.api_keys : k.env # n
    BY FreshNumber DEF EnvTables
  <2> QED
    BY <1>1, <1>3, <2>1 DEF DbSigned
<1>8. KeepsOwners(d, d2, n)
  BY <1>3 DEF KeepsOwners
<1>9. Touches(d, d2, t)
  <2>1. \A u \in Tables : u # "environments" => d2[u] = d[u]
    BY <1>2
  <2>2. OwnedBy(d, "environments", row, t)
    BY DEF OwnedBy, EnvTables
  <2> QED
    BY <1>3, <2>1, <2>2 DEF Touches
<1> QED
  BY <1>4, <1>5, <1>6, <1>7, <1>8, <1>9 DEF DbChange, DbInv, d2

\* INSERT INTO perf_budgets, unless the environment has one for the module.
LEMMA CreatePerfBudgetStep ==
    ASSUME NEW d, NEW n \in Nat \ {0}, DbInv(d, n), NEW t, NEW row \in BudgetRow, row.id = n,
           \A e \in d.environments : e.id = row.env => e.tenant = t
    PROVE  DbStep(d, n, CreatePerfBudget(d, row), n + 1, t)
<1>0. n + 1 \in Nat /\ n <= n + 1
  OBVIOUS
<1>1. CASE CreatePerfBudget(d, row) = d
  BY <1>0, <1>1, NoDbStep
<1>2. CASE /\ \E e \in d.environments : e.id = row.env
           /\ CreatePerfBudget(d, row) = [d EXCEPT !["perf_budgets"] = @ \cup {row}]
  <2> DEFINE d2 == CreatePerfBudget(d, row)
  <2>1. DbTyped(d, n + 1) /\ DbKeys(d) /\ DbReferences(d) /\ DbSigned(d)
    BY <1>0, DbInvGrows DEF DbInv
  <2>2. /\ d2 = [u \in Tables |-> d2[u]]
        /\ \A u \in Tables : d2[u] = IF u = "perf_budgets" THEN d.perf_budgets \cup {row} ELSE d[u]
    BY <1>2, <2>1 DEF DbTyped, Tables, EnvTables
  <2> HIDE DEF d2
  <2>3. /\ d2.environments = d.environments /\ d2.perf_budgets = d.perf_budgets \cup {row}
        /\ d2.notification_channels = d.notification_channels
        /\ d2.perf_budget_samples = d.perf_budget_samples
        /\ d2.api_keys = d.api_keys /\ d2.alerts = d.alerts /\ d2.error_groups = d.error_groups
        /\ d2.schema_snapshots = d.schema_snapshots
    BY <2>2 DEF Tables, EnvTables, TenantTables
  <2>4. DbTyped(d2, n + 1)
    <3>0. IsFiniteSet(d.perf_budgets \cup {row})
      BY <2>1, FS_AddElement DEF DbTyped, Tables, EnvTables
    <3>1. \A u \in Tables : IsFiniteSet(d2[u])
      BY <2>1, <2>2, <3>0 DEF DbTyped
    <3>2. d2.perf_budgets \subseteq BudgetRow /\ \A b \in d2.perf_budgets : b.id \in 1..((n + 1) - 1)
      <4>1. d.perf_budgets \subseteq BudgetRow /\ \A b \in d.perf_budgets : b.id \in 1..((n + 1) - 1)
        BY <2>1 DEF DbTyped
      <4>2. row.id \in 1..((n + 1) - 1)
        OBVIOUS
      <4> QED
        BY <2>3, <4>1, <4>2
    <3> QED
      BY <2>1, <2>2, <2>3, <3>1, <3>2 DEF DbTyped
  <2>5. DbKeys(d2)
    BY <2>1, <2>3, FreshNumber DEF DbKeys
  <2>6. DbReferences(d2)
    <3>1. ASSUME NEW u \in EnvTables, NEW r \in d2[u] PROVE \E e \in d2.environments : e.id = r.env
      <4>1. r \in d[u] \/ r = row
        BY <2>2, <3>1 DEF Tables
      <4> QED
        BY <1>2, <2>1, <2>3, <4>1 DEF DbReferences
    <3> QED
      BY <2>1, <2>3, <3>1 DEF DbReferences
  <2>7. DbSigned(d2)
    BY <2>1, <2>3 DEF DbSigned
  <2>8. KeepsOwners(d, d2, n)
    BY <2>3 DEF KeepsOwners
  <2>9. Touches(d, d2, t)
    <3>1. \A u \in Tables : u # "perf_budgets" => d2[u] = d[u]
      BY <2>2
    <3>2. OwnedBy(d, "perf_budgets", row, t)
      BY <1>2 DEF OwnedBy, EnvTables, TenantTables
    <3> QED
      BY <2>3, <3>1, <3>2 DEF Touches
  <2> QED
    BY <2>3, <2>4, <2>5, <2>6, <2>7, <2>8, <2>9 DEF DbStep, DbChange, DbInv, d2
<1> QED
  BY <1>1, <1>2 DEF CreatePerfBudget, InsertOfEnv

\* The rows an UPDATE leaves when it turns each row r into f[r].
Updated(f, rows) == {f[r] : r \in rows}

\* UPDATE of rows of a table of an environment: f turns each into another that
\* may stand there, and changes none but the tenant's.
LEMMA UpdateStep ==
    ASSUME NEW d, NEW n \in Nat, DbInv(d, n), NEW t,
           NEW table \in EnvTables \ {"perf_budgets"}, NEW f,
           \A r \in d[table] :
              f[r] = r \/ (RowOK(d, table, f[r], n) /\ f[r].env = r.env /\ OwnedBy(d, table, r, t))
    PROVE  DbStep(d, n, [d EXCEPT ![table] = Updated(f, d[table])], n, t)
<1> DEFINE rows == Updated(f, d[table])
<1>1. IsFiniteSet(rows)
  <2>1. IsFiniteSet(d[table])
    BY DEF DbInv, DbTyped, Tables
  <2> QED
    BY <2>1, UpdatedFinite DEF Updated
<1>2. \A r \in d[table] : RowOK(d, table, r, n)
  BY OldRowOK
<1>3. \A q \in rows : RowOK(d, table, q, n)
  BY <1>2 DEF Updated
<1>4. /\ \A r \in d[table] \ rows : OwnedBy(d, table, r, t)
      /\ \A r \in rows \ d[table] : OwnedBy(d, table, r, t)
  <2>1. table \notin TenantTables /\ table # "perf_budget_samples"
    BY DEF EnvTables, TenantTables
  <2> QED
    BY <2>1 DEF Updated, OwnedBy
<1> HIDE DEF rows
<1>5. n <= n
  OBVIOUS
<1>6. DbStep(d, n, [d EXCEPT ![table] = rows], n, t)
  BY <1>1, <1>3, <1>4, <1>5, ReplaceRows
<1> QED
  BY <1>6 DEF rows

\* Rows of an environment whose tenant is t are t's.
LEMMA OwnRows ==
    ASSUME NEW d, NEW n, DbInv(d, n), NEW table \in EnvTables, NEW r \in d[table], NEW t,
           \A e \in d.environments : e.id = r.env => e.tenant = t
    PROVE  OwnedBy(d, table, r, t)
<1>1. \E e \in d.environments : e.id = r.env /\ e.tenant = t
  BY DEF DbInv, DbReferences
<1>2. table \notin TenantTables /\ table # "perf_budget_samples"
  BY DEF EnvTables, TenantTables
<1> QED
  BY <1>1, <1>2 DEF OwnedBy

\* Alerts are signed by the tenant of their environment.
LEMMA AcknowledgeSteps ==
    ASSUME NEW d, NEW n \in Nat, DbInv(d, n), NEW t \in Tenant, NEW env,
           \A e \in d.environments : e.id = env => e.tenant = t, NEW id
    PROVE  /\ DbStep(d, n, AcknowledgeAlert(d, id, t, env), n, t)
           /\ DbStep(d, n, AcknowledgeAllAlerts(d, env, t), n, t)
<1>1. "alerts" \in EnvTables \ {"perf_budgets"} /\ "alerts" \in EnvTables
  BY DEF EnvTables
<1>2. ASSUME NEW a \in d.alerts, a.env = env
      PROVE  /\ RowOK(d, "alerts", Acknowledge(a, t), n) /\ Acknowledge(a, t).env = a.env
             /\ OwnedBy(d, "alerts", a, t)
  <2>1. RowOK(d, "alerts", a, n) /\ OwnedBy(d, "alerts", a, t)
    BY <1>1, <1>2, OldRowOK, OwnRows
  <2>2. a \in AlertRow
    BY <2>1 DEF RowOK
  <2>3. /\ Acknowledge(a, t) \in AlertRow
        /\ Acknowledge(a, t).env = env /\ Acknowledge(a, t).acknowledged_by = t
    BY <1>2, <2>2 DEF Acknowledge, AlertRow
  <2> QED
    BY <1>2, <2>1, <2>3 DEF RowOK
<1>3. DbStep(d, n, AcknowledgeAlert(d, id, t, env), n, t)
  <2> DEFINE f == [a \in d.alerts |-> IF a.id = id /\ a.env = env THEN Acknowledge(a, t) ELSE a]
  <2>1. \A a \in d["alerts"] :
           f[a] = a \/ (RowOK(d, "alerts", f[a], n) /\ f[a].env = a.env /\ OwnedBy(d, "alerts", a, t))
    BY <1>2
  <2>2. Updated(f, d["alerts"]) =
          {IF a.id = id /\ a.env = env THEN Acknowledge(a, t) ELSE a : a \in d["alerts"]}
    BY DEF Updated
  <2> HIDE DEF f
  <2>3. DbStep(d, n, [d EXCEPT !["alerts"] = Updated(f, d["alerts"])], n, t)
    BY <1>1, <2>1, UpdateStep
  <2> QED
    BY <2>2, <2>3 DEF AcknowledgeAlert, SetWhere
<1>4. DbStep(d, n, AcknowledgeAllAlerts(d, env, t), n, t)
  <2> DEFINE f == [a \in d.alerts |-> IF a.env = env /\ ~a.acknowledged THEN Acknowledge(a, t) ELSE a]
  <2>1. \A a \in d["alerts"] :
           f[a] = a \/ (RowOK(d, "alerts", f[a], n) /\ f[a].env = a.env /\ OwnedBy(d, "alerts", a, t))
    BY <1>2
  <2>2. Updated(f, d["alerts"]) =
          {IF a.env = env /\ ~a.acknowledged THEN Acknowledge(a, t) ELSE a : a \in d["alerts"]}
    BY DEF Updated
  <2> HIDE DEF f
  <2>3. DbStep(d, n, [d EXCEPT !["alerts"] = Updated(f, d["alerts"])], n, t)
    BY <1>1, <2>1, UpdateStep
  <2> QED
    BY <2>2, <2>3 DEF AcknowledgeAllAlerts, SetWhere
<1> QED
  BY <1>3, <1>4

\* A key is revoked by the tenant that it names.
LEMMA RevokeAPIKeyStep ==
    ASSUME NEW d, NEW n \in Nat, DbInv(d, n), NEW t, NEW id
    PROVE  DbStep(d, n, RevokeAPIKey(d, id, t), n, t)
<1>1. "api_keys" \in EnvTables \ {"perf_budgets"} /\ "api_keys" \in EnvTables
  BY DEF EnvTables
<1> DEFINE f == [k \in d.api_keys |->
                   IF k.id = id /\ k.tenant = t THEN [k EXCEPT !.is_active = FALSE] ELSE k]
<1>2. ASSUME NEW k \in d.api_keys, k.tenant = t
      PROVE  /\ RowOK(d, "api_keys", [k EXCEPT !.is_active = FALSE], n)
             /\ [k EXCEPT !.is_active = FALSE].env = k.env
             /\ OwnedBy(d, "api_keys", k, t)
  <2>1. RowOK(d, "api_keys", k, n)
    BY <1>1, <1>2, OldRowOK
  <2>2. k \in KeyRow /\ \A e \in d.environments : k.env = e.id => t = e.tenant
    BY <1>2, <2>1 DEF RowOK
  <2>3. OwnedBy(d, "api_keys", k, t)
    BY <1>1, <2>2, OwnRows
  <2>4. /\ [k EXCEPT !.is_active = FALSE] \in KeyRow
        /\ [k EXCEPT !.is_active = FALSE].env = k.env
        /\ [k EXCEPT !.is_active = FALSE].tenant = k.tenant
    BY <2>2 DEF KeyRow
  <2> QED
    BY <2>1, <2>3, <2>4 DEF RowOK
<1>3. \A k \in d.api_keys :
         f[k] = k \/ (RowOK(d, "api_keys", f[k], n) /\ f[k].env = k.env /\ OwnedBy(d, "api_keys", k, t))
  BY <1>2
<1>4. Updated(f, d["api_keys"]) =
        {IF k.id = id /\ k.tenant = t THEN [k EXCEPT !.is_active = FALSE] ELSE k : k \in d["api_keys"]}
  BY DEF Updated
<1> HIDE DEF f
<1>5. DbStep(d, n, [d EXCEPT !["api_keys"] = Updated(f, d["api_keys"])], n, t)
  BY <1>1, <1>3, UpdateStep
<1> QED
  BY <1>4, <1>5 DEF RevokeAPIKey, SetWhere

\* UPDATE of error groups of an environment of tenant t, signed by t or not.
LEMMA UpdateGroups ==
    ASSUME NEW d, NEW n \in Nat, DbInv(d, n), NEW t, NEW env,
           \A e \in d.environments : e.id = env => e.tenant = t, NEW f,
           \A g \in d.error_groups :
              \/ f[g] = g
              \/ /\ g.env = env /\ f[g].env = env /\ f[g] \in GroupRow
                 /\ f[g].resolved_by \in {"null", g.resolved_by, t}
    PROVE  DbStep(d, n, [d EXCEPT !["error_groups"] = Updated(f, d["error_groups"])], n, t)
<1>1. "error_groups" \in EnvTables \ {"perf_budgets"} /\ "error_groups" \in EnvTables
  BY DEF EnvTables
<1>2. ASSUME NEW g \in d["error_groups"], f[g] # g
      PROVE  /\ RowOK(d, "error_groups", f[g], n) /\ f[g].env = g.env
             /\ OwnedBy(d, "error_groups", g, t)
  <2>1. /\ g.env = env /\ f[g].env = env /\ f[g] \in GroupRow
        /\ f[g].resolved_by \in {"null", g.resolved_by, t}
    BY <1>2
  <2>2. RowOK(d, "error_groups", g, n) /\ OwnedBy(d, "error_groups", g, t)
    BY <1>1, <2>1, OldRowOK, OwnRows
  <2> QED
    BY <2>1, <2>2 DEF RowOK
<1> QED
  BY <1>1, <1>2, UpdateStep

\* A group's row with another status and signature.
LEMMA GroupRowSet ==
    ASSUME NEW g \in GroupRow, NEW status \in ErrorStatuses, NEW by \in Tenant \cup {"null"}
    PROVE  /\ [g EXCEPT !.status = status, !.resolved_by = by] \in GroupRow
           /\ [g EXCEPT !.status = status, !.resolved_by = by].env = g.env
           /\ [g EXCEPT !.status = status, !.resolved_by = by].resolved_by = by
BY DEF GroupRow

\* A group's row when the group is reopened.
LEMMA GroupRowReopened ==
    \A g \in GroupRow :
       /\ [g EXCEPT !.status = "open", !.resolved_by = "null"] \in GroupRow
       /\ [g EXCEPT !.status = "open", !.resolved_by = "null"].env = g.env
       /\ [g EXCEPT !.status = "open", !.resolved_by = "null"].resolved_by = "null"
<1>1. "open" \in ErrorStatuses /\ "null" \in Tenant \cup {"null"}
  BY DEF ErrorStatuses
<1>2. ASSUME NEW status, status = "open", NEW by, by = "null", NEW g \in GroupRow
      PROVE  /\ [g EXCEPT !.status = status, !.resolved_by = by] \in GroupRow
             /\ [g EXCEPT !.status = status, !.resolved_by = by].env = g.env
             /\ [g EXCEPT !.status = status, !.resolved_by = by].resolved_by = by
  <2>1. status \in ErrorStatuses /\ by \in Tenant \cup {"null"}
    BY <1>1, <1>2
  <2> QED
    BY <2>1, GroupRowSet, Zenon
<1> QED
  BY <1>2

\* The three statuses an error group may be given.
LEMMA GroupSteps ==
    ASSUME NEW d, NEW n \in Nat, DbInv(d, n), NEW t \in Tenant, NEW env,
           \A e \in d.environments : e.id = env => e.tenant = t, NEW id
    PROVE  /\ DbStep(d, n, AcknowledgeErrorGroup(d, id, env), n, t)
           /\ DbStep(d, n, ResolveErrorGroup(d, id, t, env), n, t)
           /\ DbStep(d, n, ReopenErrorGroup(d, id, env), n, t)
<1>1. d.error_groups \subseteq GroupRow
  BY DEF DbInv, DbTyped
<1>2. DbStep(d, n, AcknowledgeErrorGroup(d, id, env), n, t)
  <2> DEFINE f == [g \in d.error_groups |->
                     IF g.id = id /\ g.env = env THEN [g EXCEPT !.status = "acknowledged"] ELSE g]
  <2>1. \A g \in d.error_groups :
              \/ f[g] = g
              \/ /\ g.env = env /\ f[g].env = env /\ f[g] \in GroupRow
                 /\ f[g].resolved_by \in {"null", g.resolved_by, t}
    BY <1>1 DEF GroupRow, ErrorStatuses
  <2>2. Updated(f, d["error_groups"]) =
          {IF g.id = id /\ g.env = env THEN [g EXCEPT !.status = "acknowledged"] ELSE g :
             g \in d["error_groups"]}
    BY DEF Updated
  <2> HIDE DEF f
  <2>3. DbStep(d, n, [d EXCEPT !["error_groups"] = Updated(f, d["error_groups"])], n, t)
    BY <2>1, UpdateGroups
  <2> QED
    BY <2>2, <2>3 DEF AcknowledgeErrorGroup, SetGroup, SetWhere
<1>3. DbStep(d, n, ResolveErrorGroup(d, id, t, env), n, t)
  <2> DEFINE f == [g \in d.error_groups |->
                     IF g.id = id /\ g.env = env
                       THEN [g EXCEPT !.status = "resolved", !.resolved_by = t] ELSE g]
  <2>1. \A g \in d.error_groups :
              \/ f[g] = g
              \/ /\ g.env = env /\ f[g].env = env /\ f[g] \in GroupRow
                 /\ f[g].resolved_by \in {"null", g.resolved_by, t}
    <3>0. "resolved" \in ErrorStatuses /\ t \in Tenant \cup {"null"}
      BY DEF ErrorStatuses
    <3>1. ASSUME NEW g \in d.error_groups
          PROVE  /\ [g EXCEPT !.status = "resolved", !.resolved_by = t] \in GroupRow
                 /\ [g EXCEPT !.status = "resolved", !.resolved_by = t].env = g.env
                 /\ [g EXCEPT !.status = "resolved", !.resolved_by = t].resolved_by = t
      BY <1>1, <3>0, GroupRowSet, ZenonT(60)
    <3> QED
      BY <3>1
  <2>2. Updated(f, d["error_groups"]) =
          {IF g.id = id /\ g.env = env
             THEN [g EXCEPT !.status = "resolved", !.resolved_by = t] ELSE g :
             g \in d["error_groups"]}
    BY DEF Updated
  <2> HIDE DEF f
  <2>3. DbStep(d, n, [d EXCEPT !["error_groups"] = Updated(f, d["error_groups"])], n, t)
    BY <2>1, UpdateGroups
  <2> QED
    BY <2>2, <2>3 DEF ResolveErrorGroup, SetGroup, SetWhere
<1>4. DbStep(d, n, ReopenErrorGroup(d, id, env), n, t)
  <2> DEFINE f == [g \in d.error_groups |->
                     IF g.id = id /\ g.env = env
                       THEN [g EXCEPT !.status = "open", !.resolved_by = "null"] ELSE g]
  <2>1. \A g \in d.error_groups :
              \/ f[g] = g
              \/ /\ g.env = env /\ f[g].env = env /\ f[g] \in GroupRow
                 /\ f[g].resolved_by \in {"null", g.resolved_by, t}
    BY <1>1, GroupRowReopened
  <2>2. Updated(f, d["error_groups"]) =
          {IF g.id = id /\ g.env = env
             THEN [g EXCEPT !.status = "open", !.resolved_by = "null"] ELSE g :
             g \in d["error_groups"]}
    BY DEF Updated
  <2> HIDE DEF f
  <2>3. DbStep(d, n, [d EXCEPT !["error_groups"] = Updated(f, d["error_groups"])], n, t)
    BY <2>1, UpdateGroups
  <2> QED
    BY <2>2, <2>3 DEF ReopenErrorGroup, SetGroup, SetWhere
<1> QED
  BY <1>2, <1>3, <1>4

\* An event opens its group, which belongs to the environment's tenant, or
\* makes a new one.
LEMMA UpsertErrorGroupStep ==
    ASSUME NEW d, NEW n \in Nat \ {0}, DbInv(d, n), NEW env \in Nat, NEW sig \in Signatures,
           NEW t, \A e \in d.environments : e.id = env => e.tenant = t
    PROVE  DbStep(d, n, UpsertErrorGroup(d, [id |-> n, env |-> env, signature |-> sig,
                               status |-> "open", resolved_by |-> "null"]), n + 1, t)
<1> DEFINE row == [id |-> n, env |-> env, signature |-> sig, status |-> "open", resolved_by |-> "null"]
<1>0. n + 1 \in Nat /\ n <= n + 1 /\ DbInv(d, n + 1)
  BY DbInvGrows
<1>1. CASE \E g \in d.error_groups : g.env = row.env /\ g.signature = row.signature
  <2> DEFINE f == [g \in d.error_groups |->
                     IF g.env = env /\ g.signature = sig
                       THEN [g EXCEPT !.status = "open", !.resolved_by = "null"] ELSE g]
  <2>4. \A g \in d.error_groups :
              \/ f[g] = g
              \/ /\ g.env = env /\ f[g].env = env /\ f[g] \in GroupRow
                 /\ f[g].resolved_by \in {"null", g.resolved_by, t}
    <3>1. d.error_groups \subseteq GroupRow
      BY DEF DbInv, DbTyped
    <3> QED
      BY <3>1, GroupRowReopened
  <2>5. Updated(f, d["error_groups"]) =
          {IF g.env = env /\ g.signature = sig
             THEN [g EXCEPT !.status = "open", !.resolved_by = "null"] ELSE g :
             g \in d["error_groups"]}
    BY DEF Updated
  <2> HIDE DEF f
  <2>6. DbStep(d, n, [d EXCEPT !["error_groups"] = Updated(f, d["error_groups"])], n, t)
    BY <2>4, UpdateGroups
  <2>7. DbStep(d, n, UpsertErrorGroup(d, row), n, t)
    BY <1>1, <2>5, <2>6 DEF UpsertErrorGroup, SetWhere
  <2> HIDE DEF row
  <2>8. DbInv(UpsertErrorGroup(d, row), n + 1)
    BY <1>0, <2>7, DbInvGrows DEF DbStep, DbChange
  <2> QED
    BY <2>7, <2>8 DEF DbStep, DbChange, row
<1>2. CASE ~\E g \in d.error_groups : g.env = row.env /\ g.signature = row.signature
  <2>1. "error_groups" \in EnvTables \ {"perf_budgets"}
    BY DEF EnvTables
  <2>2. (\E e \in d.environments : e.id = row.env) => RowOK(d, "error_groups", row, n + 1)
    BY DEF RowOK, GroupRow, ErrorStatuses
  <2>3. DbStep(d, n, InsertOfEnv(d, "error_groups", row), n + 1, t)
    BY <2>1, <2>2, InsertStep
  <2> QED
    BY <1>2, <2>3 DEF UpsertErrorGroup
<1> QED
  BY <1>1, <1>2

\* What UPDATE environments makes of each environment.
SetEnvironment(e, id, t, name, status) ==
    IF e.id = id /\ e.tenant = t
      THEN [e EXCEPT !.name = IF name = "null" THEN @ ELSE name,
                     !.status = IF status = "null" THEN @ ELSE status]
      ELSE e

\* It keeps its number and its owner, and is renamed only by the owner.
LEMMA SetEnvironmentFacts ==
    ASSUME NEW e \in EnvironmentRow, NEW name \in Names \cup {"null"},
           NEW status \in Statuses \cup {"null"}, NEW id, NEW t, NEW f,
           f = SetEnvironment(e, id, t, name, status)
    PROVE  /\ f \in EnvironmentRow /\ f.id = e.id /\ f.tenant = e.tenant
           /\ f # e => e.id = id /\ e.tenant = t
           /\ f.name = e.name \/ (e.id = id /\ e.tenant = t /\ f.name = name /\ name # "null")
<1>1. CASE e.id = id /\ e.tenant = t
  BY <1>1 DEF SetEnvironment, EnvironmentRow
<1>2. CASE ~(e.id = id /\ e.tenant = t)
  BY <1>2 DEF SetEnvironment
<1> QED
  BY <1>1, <1>2

\* The tenant updates its environment: the database stays in order, and where
\* every environment of the result comes from.
LEMMA UpdateEnvironmentStep ==
    ASSUME NEW d, NEW n \in Nat, DbInv(d, n), NEW t, NEW id, NEW name \in Names \cup {"null"},
           NEW status \in Statuses \cup {"null"}
    PROVE  /\ DbChange(d, n, UpdateEnvironment(d, id, t, name, status), n, t)
           /\ \A f \in UpdateEnvironment(d, id, t, name, status).environments :
                 \E e \in d.environments :
                    /\ f.id = e.id /\ f.tenant = e.tenant
                    /\ f.name = e.name \/ (e.id = id /\ e.tenant = t /\ f.name = name /\ name # "null")
<1> DEFINE f == [e \in d.environments |-> SetEnvironment(e, id, t, name, status)]
           rows == Updated(f, d.environments)
<1>1. d.environments \subseteq EnvironmentRow /\ DbKeys(d) /\ d = [u \in Tables |-> d[u]]
  BY DEF DbInv, DbTyped
<1>2. rows = {SetEnvironment(e, id, t, name, status) : e \in d["environments"]}
  BY DEF Updated
<1>3. UpdateEnvironment(d, id, t, name, status) = [d EXCEPT !.environments = rows]
  BY <1>2 DEF UpdateEnvironment, SetWhere, SetEnvironment
<1>4. \A e \in d.environments :
         /\ f[e] \in EnvironmentRow /\ f[e].id = e.id /\ f[e].tenant = e.tenant
         /\ f[e] # e => e.id = id /\ e.tenant = t
         /\ f[e].name = e.name \/ (e.id = id /\ e.tenant = t /\ f[e].name = name /\ name # "null")
  <2> SUFFICES ASSUME NEW e \in d.environments
               PROVE  /\ f[e] \in EnvironmentRow /\ f[e].id = e.id /\ f[e].tenant = e.tenant
                      /\ f[e] # e => e.id = id /\ e.tenant = t
                      /\ \/ f[e].name = e.name
                         \/ e.id = id /\ e.tenant = t /\ f[e].name = name /\ name # "null"
    OBVIOUS
  <2>1. e \in EnvironmentRow /\ f[e] = SetEnvironment(e, id, t, name, status)
    BY <1>1
  <2> HIDE DEF f
  <2> QED
    BY <2>1, SetEnvironmentFacts
<1> HIDE DEF f
<1>5. IsFiniteSet(rows)
  <2>1. IsFiniteSet(d.environments)
    BY DEF DbInv, DbTyped, Tables, TenantTables
  <2> QED
    BY <2>1, UpdatedFinite DEF Updated
<1>6. \A x \in rows : \E e \in d.environments : x = f[e]
  BY DEF Updated
<1>7. \A e \in d.environments : f[e] \in rows
  BY DEF Updated
<1> HIDE DEF rows
<1>8. rows \subseteq EnvironmentRow
  BY <1>4, <1>6
<1>9. \A x \in rows : \E e \in d.environments : e.id = x.id /\ e.tenant = x.tenant
  BY <1>4, <1>6
<1>10. \A e \in d.environments : \E x \in rows : x.id = e.id
  BY <1>4, <1>7
<1>11. \A x, y \in rows : x.id = y.id => x = y
  BY <1>1, <1>4, <1>6 DEF DbKeys
<1>12. /\ \A e \in d.environments \ rows : e.tenant = t
       /\ \A e \in rows \ d.environments : e.tenant = t
  BY <1>4, <1>6, <1>7
<1>13. DbChange(d, n, [d EXCEPT !.environments = rows], n, t)
  BY <1>5, <1>8, <1>9, <1>10, <1>11, <1>12, ReplaceEnvironments
<1>14. [d EXCEPT !.environments = rows].environments = rows
  BY <1>1 DEF Tables, TenantTables
<1> QED
  BY <1>3, <1>4, <1>6, <1>13, <1>14

\* Without a name in the request the environments keep theirs.
LEMMA UpdateStatusStep ==
    ASSUME NEW d, NEW n \in Nat, DbInv(d, n), NEW t, NEW id, NEW status \in Statuses \cup {"null"},
           NEW name, name = "null"
    PROVE  DbStep(d, n, UpdateEnvironment(d, id, t, name, status), n, t)
<1> DEFINE d2 == UpdateEnvironment(d, id, t, name, status)
<1>1. name \in Names \cup {"null"}
  OBVIOUS
<1>2. /\ DbChange(d, n, d2, n, t)
      /\ \A f \in d2.environments : \E e \in d.environments :
            /\ f.id = e.id /\ f.tenant = e.tenant
            /\ f.name = e.name \/ (e.id = id /\ e.tenant = t /\ f.name = name /\ name # "null")
  BY <1>1, UpdateEnvironmentStep
<1> HIDE DEF d2
<1>3. DbStep(d, n, d2, n, t)
  BY <1>2 DEF DbStep
<1> QED
  BY <1>3 DEF d2

\* A tenant's channel is switched on or off by the tenant.
LEMMA UpdateNotificationChannelStep ==
    ASSUME NEW d, NEW n \in Nat, DbInv(d, n), NEW t, NEW id, NEW active \in BOOLEAN
    PROVE  DbStep(d, n, UpdateNotificationChannel(d, id, t, active), n, t)
<1> DEFINE f == [k \in d.notification_channels |->
                   IF k.id = id /\ k.tenant = t THEN [k EXCEPT !.is_active = active] ELSE k]
           rows == Updated(f, d["notification_channels"])
<1>1. d.notification_channels \subseteq ChannelRow
  BY DEF DbInv, DbTyped
<1>2. rows = {IF k.id = id /\ k.tenant = t THEN [k EXCEPT !.is_active = active] ELSE k :
                k \in d["notification_channels"]}
  BY DEF Updated
<1>3. UpdateNotificationChannel(d, id, t, active) = [d EXCEPT !["notification_channels"] = rows]
  BY <1>2 DEF UpdateNotificationChannel, SetWhere
<1>4. \A k \in d.notification_channels :
         f[k] \in ChannelRow /\ f[k].tenant = k.tenant /\ (f[k] # k => k.tenant = t)
  BY <1>1 DEF ChannelRow
<1> HIDE DEF f
<1>5. IsFiniteSet(rows)
  <2>1. IsFiniteSet(d["notification_channels"])
    BY DEF DbInv, DbTyped, Tables, TenantTables
  <2> QED
    BY <2>1, UpdatedFinite DEF Updated
<1>6. rows \subseteq ChannelRow
  BY <1>4 DEF Updated
<1>7. /\ \A k \in d["notification_channels"] \ rows : OwnedBy(d, "notification_channels", k, t)
      /\ \A k \in rows \ d["notification_channels"] : OwnedBy(d, "notification_channels", k, t)
  BY <1>4 DEF Updated, OwnedBy, EnvTables
<1> HIDE DEF rows
<1>8. n <= n
  OBVIOUS
<1>9. DbStep(d, n, [d EXCEPT !["notification_channels"] = rows], n, t)
  BY <1>5, <1>6, <1>7, <1>8, ReplaceTenantRows
<1> QED
  BY <1>3, <1>9

\* A budget of one of the tenant's environments is switched on or off.
LEMMA UpdatePerfBudgetStep ==
    ASSUME NEW d, NEW n \in Nat, DbInv(d, n), NEW t, NEW env,
           \A e \in d.environments : e.id = env => e.tenant = t, NEW id, NEW active \in BOOLEAN
    PROVE  DbStep(d, n, UpdatePerfBudget(d, id, env, active), n, t)
<1> DEFINE f == [b \in d.perf_budgets |->
                   IF b.id = id /\ b.env = env THEN [b EXCEPT !.is_active = active] ELSE b]
           rows == Updated(f, d.perf_budgets)
<1>1. d.perf_budgets \subseteq BudgetRow /\ DbKeys(d)
  BY DEF DbInv, DbTyped
<1>2. rows = {IF b.id = id /\ b.env = env THEN [b EXCEPT !.is_active = active] ELSE b :
                b \in d["perf_budgets"]}
  BY DEF Updated
<1>3. UpdatePerfBudget(d, id, env, active) = [d EXCEPT !.perf_budgets = rows]
  BY <1>2 DEF UpdatePerfBudget, SetWhere
<1>4. \A b \in d.perf_budgets :
         f[b] \in BudgetRow /\ f[b].id = b.id /\ f[b].env = b.env /\ (f[b] # b => b.env = env)
  BY <1>1 DEF BudgetRow
<1> HIDE DEF f
<1>5. IsFiniteSet(rows)
  <2>1. IsFiniteSet(d.perf_budgets)
    BY DEF DbInv, DbTyped, Tables, EnvTables
  <2> QED
    BY <2>1, UpdatedFinite DEF Updated
<1>6. \A x \in rows : \E b \in d.perf_budgets : x = f[b]
  BY DEF Updated
<1>7. \A b \in d.perf_budgets : f[b] \in rows
  BY DEF Updated
<1> HIDE DEF rows
<1>8. rows \subseteq BudgetRow
  BY <1>4, <1>6
<1>9. \A x \in rows : \E b \in d.perf_budgets : b.id = x.id /\ b.env = x.env
  BY <1>4, <1>6
<1>10. \A b \in d.perf_budgets : \E x \in rows : x.id = b.id
  BY <1>4, <1>7
<1>11. \A x, y \in rows : x.id = y.id => x = y
  BY <1>1, <1>4, <1>6 DEF DbKeys
<1>12. /\ \A b \in d.perf_budgets \ rows : OwnedBy(d, "perf_budgets", b, t)
       /\ \A b \in rows \ d.perf_budgets : OwnedBy(d, "perf_budgets", b, t)
  <2>1. ASSUME NEW b \in d.perf_budgets, f[b] # b
        PROVE  OwnedBy(d, "perf_budgets", b, t) /\ OwnedBy(d, "perf_budgets", f[b], t)
    <3>1. "perf_budgets" \in EnvTables
      BY DEF EnvTables
    <3>2. b.env = env /\ f[b].env = b.env
      BY <1>4, <2>1
    <3>3. OwnedBy(d, "perf_budgets", b, t)
      BY <3>1, <3>2, OwnRows
    <3> QED
      BY <3>2, <3>3 DEF OwnedBy, EnvTables, TenantTables
  <2> QED
    BY <1>6, <1>7, <2>1
<1> QED
  BY <1>3, <1>5, <1>8, <1>9, <1>10, <1>11, <1>12, ReplaceBudgets

\* DELETE of rows nothing else refers to.
LEMMA DeleteRows ==
    ASSUME NEW d, NEW n \in Nat, DbInv(d, n), NEW t,
           NEW table \in Tables \ {"environments", "perf_budgets"}, NEW rows, rows \subseteq d[table],
           \A r \in d[table] \ rows : OwnedBy(d, table, r, t)
    PROVE  DbStep(d, n, [d EXCEPT ![table] = rows], n, t)
<1> DEFINE d2 == [d EXCEPT ![table] = rows]
<1>1. DbReferences(d) /\ d = [u \in Tables |-> d[u]]
  BY DEF DbInv, DbTyped
<1>2. /\ d2 = [u \in Tables |-> d2[u]]
      /\ \A u \in Tables : d2[u] = IF u = table THEN rows ELSE d[u]
  BY <1>1
<1> HIDE DEF d2
<1>3. \A u \in Tables : d2[u] \subseteq d[u]
  BY <1>2
<1>4. d2.environments = d.environments /\ d2.perf_budgets = d.perf_budgets
  BY <1>2 DEF Tables, EnvTables, TenantTables
<1>5. d2.perf_budget_samples \subseteq d.perf_budget_samples
  BY <1>3 DEF Tables
<1>6. DbReferences(d2)
  BY <1>1, <1>3, <1>4, <1>5 DEF DbReferences, Tables
<1>7. \A u \in Tables : \A r \in d[u] \ d2[u] : OwnedBy(d, u, r, t)
  BY <1>2
<1>8. DbStep(d, n, d2, n, t)
  BY <1>2, <1>3, <1>6, <1>7, ShrinkStep
<1> QED
  BY <1>8 DEF d2

\* The tenant's rows in a table of environments.
LEMMA OwnedOfTenant ==
    ASSUME NEW d, NEW table \in EnvTables, NEW r, NEW t, r.env \in EnvsOf(d, t)
    PROVE  OwnedBy(d, table, r, t)
<1>1. \E e \in d.environments : e.id = r.env /\ e.tenant = t
  BY DEF EnvsOf, OfTenant
<1>2. table \notin TenantTables /\ table # "perf_budget_samples"
  BY DEF EnvTables, TenantTables
<1> QED
  BY <1>1, <1>2 DEF OwnedBy

\* runForTenant deletes rows of its tenant alone.
LEMMA RetentionSteps ==
    ASSUME NEW d, NEW n \in Nat, DbInv(d, n), NEW t, NEW cutoff
    PROVE  /\ DbStep(d, n, DeleteOldErrorGroups(d, t, cutoff), n, t)
           /\ DbStep(d, n, DeleteOldProfilerRecordings(d, t, cutoff), n, t)
           /\ DbStep(d, n, DeleteOldBudgetSamples(d, t, cutoff), n, t)
           /\ DbStep(d, n, DeleteOldORMStats(d, t, cutoff), n, t)
           /\ DbStep(d, n, DeleteOldAlerts(d, t, cutoff), n, t)
           /\ DbStep(d, n, DeleteOldSchemaSnapshots(d, t, cutoff), n, t)
           /\ DbStep(d, n, DeleteOldAuditLogs(d, t, cutoff), n, t)
           /\ DbStep(d, n, DeleteOldHeartbeats(d, t, cutoff), n, t)
<1>1. ASSUME NEW table \in EnvTables \ {"perf_budgets"} PROVE DbStep(d, n, DeleteOlder(d, table, t, cutoff), n, t)
  <2> DEFINE rows == {r \in d[table] : ~(r.env \in EnvsOf(d, t) /\ r.id < cutoff)}
  <2>1. table \in EnvTables /\ table \in Tables \ {"environments", "perf_budgets"}
    BY DEF Tables, EnvTables
  <2>2. rows \subseteq d[table] /\ \A r \in d[table] \ rows : OwnedBy(d, table, r, t)
    BY <2>1, OwnedOfTenant
  <2>3. DeleteOlder(d, table, t, cutoff) = [d EXCEPT ![table] = rows]
    BY DEF DeleteOlder
  <2> HIDE DEF rows
  <2>4. DbStep(d, n, [d EXCEPT ![table] = rows], n, t)
    BY <2>1, <2>2, DeleteRows
  <2> QED
    BY <2>3, <2>4
<1>2. /\ "profiler_recordings" \in EnvTables \ {"perf_budgets"} /\ "orm_stats" \in EnvTables \ {"perf_budgets"}
      /\ "alerts" \in EnvTables \ {"perf_budgets"} /\ "agent_heartbeats" \in EnvTables \ {"perf_budgets"}
  BY DEF EnvTables
<1>3. /\ DbStep(d, n, DeleteOldProfilerRecordings(d, t, cutoff), n, t)
      /\ DbStep(d, n, DeleteOldORMStats(d, t, cutoff), n, t)
      /\ DbStep(d, n, DeleteOldAlerts(d, t, cutoff), n, t)
      /\ DbStep(d, n, DeleteOldHeartbeats(d, t, cutoff), n, t)
  BY <1>1, <1>2 DEF DeleteOldProfilerRecordings, DeleteOldORMStats, DeleteOldAlerts, DeleteOldHeartbeats
<1>4. DbStep(d, n, DeleteOldErrorGroups(d, t, cutoff), n, t)
  <2> DEFINE rows == {g \in d["error_groups"] : ~(/\ g.env \in EnvsOf(d, t)
                                                  /\ g.id < cutoff /\ g.status # "open")}
  <2>1. "error_groups" \in EnvTables /\ "error_groups" \in Tables \ {"environments", "perf_budgets"}
    BY DEF Tables, EnvTables
  <2>2. rows \subseteq d["error_groups"] /\ \A r \in d["error_groups"] \ rows : OwnedBy(d, "error_groups", r, t)
    BY <2>1, OwnedOfTenant
  <2>3. DeleteOldErrorGroups(d, t, cutoff) = [d EXCEPT !["error_groups"] = rows]
    BY DEF DeleteOldErrorGroups
  <2> HIDE DEF rows
  <2>4. DbStep(d, n, [d EXCEPT !["error_groups"] = rows], n, t)
    BY <2>1, <2>2, DeleteRows
  <2> QED
    BY <2>3, <2>4
<1>5. DbStep(d, n, DeleteOldSchemaSnapshots(d, t, cutoff), n, t)
  <2> DEFINE rows == {s \in d["schema_snapshots"] :
                        s.env \in EnvsOf(d, t) =>
                          s \in Newest(OfEnv(d["schema_snapshots"], s.env), cutoff, 0)}
  <2>1. "schema_snapshots" \in EnvTables /\ "schema_snapshots" \in Tables \ {"environments", "perf_budgets"}
    BY DEF Tables, EnvTables
  <2>2. /\ rows \subseteq d["schema_snapshots"]
        /\ \A r \in d["schema_snapshots"] \ rows : OwnedBy(d, "schema_snapshots", r, t)
    BY <2>1, OwnedOfTenant
  <2>3. DeleteOldSchemaSnapshots(d, t, cutoff) = [d EXCEPT !["schema_snapshots"] = rows]
    BY DEF DeleteOldSchemaSnapshots
  <2> HIDE DEF rows
  <2>4. DbStep(d, n, [d EXCEPT !["schema_snapshots"] = rows], n, t)
    BY <2>1, <2>2, DeleteRows
  <2> QED
    BY <2>3, <2>4
<1>6. DbStep(d, n, DeleteOldAuditLogs(d, t, cutoff), n, t)
  <2> DEFINE rows == {a \in d["audit_logs"] : ~(a.tenant = t /\ a.id < cutoff)}
  <2>1. "audit_logs" \in Tables \ {"environments", "perf_budgets"}
    BY DEF Tables, TenantTables
  <2>2. rows \subseteq d["audit_logs"] /\ \A r \in d["audit_logs"] \ rows : OwnedBy(d, "audit_logs", r, t)
    BY DEF OwnedBy, EnvTables
  <2>3. DeleteOldAuditLogs(d, t, cutoff) = [d EXCEPT !["audit_logs"] = rows]
    BY DEF DeleteOldAuditLogs
  <2> HIDE DEF rows
  <2>4. DbStep(d, n, [d EXCEPT !["audit_logs"] = rows], n, t)
    BY <2>1, <2>2, DeleteRows
  <2> QED
    BY <2>3, <2>4
<1>7. DbStep(d, n, DeleteOldBudgetSamples(d, t, cutoff), n, t)
  <2> DEFINE mine == {b.id : b \in {r \in d.perf_budgets : r.env \in EnvsOf(d, t)}}
             rows == {s \in d["perf_budget_samples"] : ~(s.budget \in mine /\ s.id < cutoff)}
  <2>1. "perf_budget_samples" \in Tables \ {"environments", "perf_budgets"}
    BY DEF Tables
  <2>2. ASSUME NEW r \in d["perf_budget_samples"] \ rows PROVE OwnedBy(d, "perf_budget_samples", r, t)
    <3>1. PICK b \in d.perf_budgets : b.id = r.budget /\ b.env \in EnvsOf(d, t)
      BY <2>2
    <3>2. \E e \in d.environments : e.id = b.env /\ e.tenant = t
      BY <3>1 DEF EnvsOf, OfTenant
    <3> QED
      BY <3>1, <3>2 DEF OwnedBy, EnvTables, TenantTables
  <2>3. DeleteOldBudgetSamples(d, t, cutoff) = [d EXCEPT !["perf_budget_samples"] = rows]
    BY DEF DeleteOldBudgetSamples
  <2>4. rows \subseteq d["perf_budget_samples"]
    OBVIOUS
  <2> HIDE DEF rows
  <2>5. DbStep(d, n, [d EXCEPT !["perf_budget_samples"] = rows], n, t)
    BY <2>1, <2>2, <2>4, DeleteRows
  <2> QED
    BY <2>3, <2>5
<1> QED
  BY <1>3, <1>4, <1>5, <1>6, <1>7

\* A channel of the tenant is deleted.
LEMMA DeleteNotificationChannelStep ==
    ASSUME NEW d, NEW n \in Nat, DbInv(d, n), NEW t, NEW id
    PROVE  DbStep(d, n, DeleteNotificationChannel(d, id, t), n, t)
<1> DEFINE rows == d["notification_channels"] \ GetNotificationChannel(d, id, t)
<1>1. "notification_channels" \in Tables \ {"environments", "perf_budgets"}
  BY DEF Tables, TenantTables
<1>2. /\ rows \subseteq d["notification_channels"]
      /\ \A r \in d["notification_channels"] \ rows : OwnedBy(d, "notification_channels", r, t)
  BY DEF OwnedBy, EnvTables, GetNotificationChannel, WithId, OfTenant
<1>3. DeleteNotificationChannel(d, id, t) = [d EXCEPT !["notification_channels"] = rows]
  BY DEF DeleteNotificationChannel
<1> HIDE DEF rows
<1>4. DbStep(d, n, [d EXCEPT !["notification_channels"] = rows], n, t)
  BY <1>1, <1>2, DeleteRows
<1> QED
  BY <1>3, <1>4

\* A scan of an environment of tenant t.
LEMMA DeleteMigrationScanStep ==
    ASSUME NEW d, NEW n \in Nat, DbInv(d, n), NEW t, NEW env,
           \A e \in d.environments : e.id = env => e.tenant = t, NEW id
    PROVE  DbStep(d, n, DeleteMigrationScan(d, id, env), n, t)
<1> DEFINE rows == d["migration_scans"] \ GetMigrationScan(d, id, env)
<1>1. "migration_scans" \in EnvTables /\ "migration_scans" \in Tables \ {"environments", "perf_budgets"}
  BY DEF Tables, EnvTables
<1>2. ASSUME NEW r \in d["migration_scans"] \ rows PROVE OwnedBy(d, "migration_scans", r, t)
  <2>1. r.env = env
    BY <1>2 DEF GetMigrationScan, WithId, OfEnv
  <2> QED
    BY <1>1, <2>1, OwnRows
<1>3. DeleteMigrationScan(d, id, env) = [d EXCEPT !["migration_scans"] = rows]
  BY DEF DeleteMigrationScan
<1>4. rows \subseteq d["migration_scans"]
  OBVIOUS
<1> HIDE DEF rows
<1>5. DbStep(d, n, [d EXCEPT !["migration_scans"] = rows], n, t)
  BY <1>1, <1>2, <1>4, DeleteRows
<1> QED
  BY <1>3, <1>5

\* A budget of an environment of tenant t goes with its samples.
LEMMA DeletePerfBudgetStep ==
    ASSUME NEW d, NEW n \in Nat, DbInv(d, n), NEW t, NEW env,
           \A e \in d.environments : e.id = env => e.tenant = t, NEW id
    PROVE  DbStep(d, n, DeletePerfBudget(d, id, env), n, t)
<1> DEFINE gone == GetPerfBudget(d, id, env)
           d2 == DeletePerfBudget(d, id, env)
<1>1. DbReferences(d) /\ DbKeys(d) /\ d = [u \in Tables |-> d[u]]
  BY DEF DbInv, DbTyped
<1>2. \A b \in d.perf_budgets : b \in gone <=> b.id = id /\ b.env = env
  BY DEF GetPerfBudget, WithId, OfEnv
<1>3. /\ d2 = [u \in Tables |-> d2[u]]
      /\ \A u \in Tables :
           d2[u] = IF u = "perf_budgets" THEN d.perf_budgets \ gone
                   ELSE IF u = "perf_budget_samples"
                     THEN {s \in d.perf_budget_samples : s.budget \notin {b.id : b \in gone}}
                   ELSE d[u]
  BY <1>1 DEF DeletePerfBudget, Tables, EnvTables
<1> HIDE DEF d2, gone
<1>4. /\ d2.environments = d.environments
      /\ d2.perf_budgets = d.perf_budgets \ gone
      /\ d2.perf_budget_samples = {s \in d.perf_budget_samples : s.budget \notin {b.id : b \in gone}}
  BY <1>3 DEF Tables, EnvTables, TenantTables
<1>5. \A u \in Tables : d2[u] \subseteq d[u]
  BY <1>3
<1>6. DbReferences(d2)
  <2>1. \A u \in EnvTables : \A r \in d2[u] : \E e \in d2.environments : e.id = r.env
    BY <1>1, <1>4, <1>5 DEF DbReferences, Tables
  <2>2. ASSUME NEW s \in d2.perf_budget_samples PROVE \E b \in d2.perf_budgets : b.id = s.budget
    <3>1. PICK b \in d.perf_budgets : b.id = s.budget
      BY <1>1, <1>4, <2>2 DEF DbReferences
    <3>2. b \notin gone
      BY <1>4, <2>2, <3>1
    <3> QED
      BY <1>4, <3>1, <3>2
  <2> QED
    BY <2>1, <2>2 DEF DbReferences
<1>7. ASSUME NEW u \in Tables, NEW r \in d[u] \ d2[u] PROVE OwnedBy(d, u, r, t)
  <2>1. CASE u = "perf_budgets"
    <3>1. r \in d["perf_budgets"] /\ r.env = env /\ "perf_budgets" \in EnvTables
      BY <1>2, <1>3, <1>7, <2>1 DEF EnvTables
    <3> QED
      BY <2>1, <3>1, OwnRows
  <2>2. CASE u = "perf_budget_samples"
    <3>1. r.budget \in {b.id : b \in gone} /\ gone \subseteq d.perf_budgets
      BY <1>3, <1>7, <2>2 DEF gone, GetPerfBudget, WithId, OfEnv
    <3>2. PICK b \in gone : b.id = r.budget
      BY <3>1
    <3>3. b \in d.perf_budgets /\ b.env = env
      BY <1>2, <3>1, <3>2
    <3>4. \E e \in d.environments : e.id = b.env /\ e.tenant = t
      BY <1>1, <3>3 DEF DbReferences, EnvTables
    <3> QED
      BY <2>2, <3>2, <3>3, <3>4 DEF OwnedBy, EnvTables, TenantTables
  <2> QED
    BY <1>3, <1>7, <2>1, <2>2
<1>8. DbStep(d, n, d2, n, t)
  BY <1>3, <1>5, <1>6, <1>7, ShrinkStep
<1> QED
  BY <1>8 DEF d2

\* An environment goes with every row that refers to it.
LEMMA DeleteEnvironmentStep ==
    ASSUME NEW d, NEW n \in Nat, DbInv(d, n), NEW t, NEW id
    PROVE  DbStep(d, n, DeleteEnvironment(d, id, t), n, t)
<1> DEFINE gone == {e.id : e \in GetEnvironmentByID(d, id, t)}
           budgets == {b.id : b \in {r \in d.perf_budgets : r.env \in gone}}
           d2 == DeleteEnvironment(d, id, t)
<1>1. DbReferences(d) /\ DbKeys(d)
  BY DEF DbInv
<1>2. \A x \in gone : \E e \in d.environments : e.id = x /\ e.tenant = t
  BY DEF GetEnvironmentByID, WithId, OfTenant
<1>3. d2 = [u \in Tables |->
              CASE u = "environments" -> {e \in d[u] : e.id \notin gone}
                [] u \in EnvTables -> {r \in d[u] : r.env \notin gone}
                [] u = "perf_budget_samples" -> {s \in d[u] : s.budget \notin budgets}
                [] OTHER -> d[u]]
  BY DEF DeleteEnvironment
<1>4. \A b \in d.perf_budgets : b.env \in gone => b.id \in budgets
  OBVIOUS
<1>5. \A x \in budgets : \E b \in d.perf_budgets : b.id = x /\ b.env \in gone
  OBVIOUS
<1> HIDE DEF d2, gone, budgets
<1>6. d2 = [u \in Tables |-> d2[u]]
  BY <1>3
<1>7. /\ d2["environments"] = {e \in d["environments"] : e.id \notin gone}
      /\ d2["perf_budget_samples"] = {s \in d["perf_budget_samples"] : s.budget \notin budgets}
      /\ \A u \in EnvTables : d2[u] = {r \in d[u] : r.env \notin gone}
      /\ \A u \in {"notification_channels", "audit_logs"} : d2[u] = d[u]
  BY <1>3 DEF Tables, EnvTables, TenantTables
<1>8. \A u \in Tables : d2[u] \subseteq d[u]
  BY <1>7 DEF Tables, TenantTables
<1>9. d2["perf_budgets"] = {b \in d["perf_budgets"] : b.env \notin gone}
  BY <1>7 DEF EnvTables
<1>10. DbReferences(d2)
  <2>1. ASSUME NEW u \in EnvTables, NEW r \in d2[u] PROVE \E e \in d2.environments : e.id = r.env
    <3>1. r \in d[u] /\ r.env \notin gone
      BY <1>7, <2>1
    <3>2. PICK e \in d.environments : e.id = r.env
      BY <1>1, <3>1 DEF DbReferences
    <3> QED
      BY <1>7, <3>1, <3>2
  <2>2. ASSUME NEW s \in d2.perf_budget_samples PROVE \E b \in d2.perf_budgets : b.id = s.budget
    <3>1. PICK b \in d.perf_budgets : b.id = s.budget
      BY <1>1, <1>7, <2>2 DEF DbReferences
    <3>2. b.env \notin gone
      BY <1>4, <1>7, <2>2, <3>1
    <3> QED
      BY <1>9, <3>1, <3>2
  <2> QED
    BY <2>1, <2>2 DEF DbReferences
<1>11. ASSUME NEW u \in Tables, NEW r \in d[u] \ d2[u] PROVE OwnedBy(d, u, r, t)
  <2>1. CASE u = "environments"
    <3>1. r \in d.environments /\ r.id \in gone
      BY <1>7, <1>11, <2>1
    <3>2. r.tenant = t
      BY <1>1, <1>2, <3>1 DEF DbKeys
    <3> QED
      BY <2>1, <3>2 DEF OwnedBy, EnvTables
  <2>2. CASE u \in EnvTables
    <3>1. r.env \in gone
      BY <1>7, <1>11, <2>2
    <3>2. \E e \in d.environments : e.id = r.env /\ e.tenant = t
      BY <1>2, <3>1
    <3> QED
      BY <2>2, <3>2 DEF OwnedBy, EnvTables, TenantTables
  <2>3. CASE u = "perf_budget_samples"
    <3>1. r.budget \in budgets
      BY <1>7, <1>11, <2>3
    <3>2. PICK b \in d.perf_budgets : b.id = r.budget /\ b.env \in gone
      BY <1>5, <3>1
    <3>3. \E e \in d.environments : e.id = b.env /\ e.tenant = t
      BY <1>2, <3>2
    <3> QED
      BY <2>3, <3>2, <3>3 DEF OwnedBy, EnvTables, TenantTables
  <2> QED
    BY <1>7, <1>11, <2>1, <2>2, <2>3 DEF Tables, TenantTables
<1>12. DbStep(d, n, d2, n, t)
  BY <1>6, <1>8, <1>10, <1>11, ShrinkStep
<1> QED
  BY <1>12 DEF d2
(* The tenants' API: what a step does. *)

\* The owner of a row, as the statements see it, is the one Owner finds.
LEMMA OwnerIs ==
    ASSUME DbInv(db, nextId), NEW table \in Tables, NEW r, NEW t, OwnedBy(db, table, r, t)
    PROVE  Owner(table, r) = t
<1>1. ASSUME NEW env, \E e \in db.environments : e.id = env /\ e.tenant = t
      PROVE  TenantOf(env) = t
  <2>1. PICK e \in db.environments : e.id = env /\ e.tenant = t
    BY <1>1
  <2>2. \A f \in db.environments : f.id = env => f = e
    BY <2>1 DEF DbInv, DbKeys
  <2> DEFINE hit == CHOOSE f \in db.environments : f.id = env
  <2>3. hit \in db.environments /\ hit.id = env
    BY <2>1
  <2>4. hit = e
    BY <2>2, <2>3
  <2> QED
    BY <2>1, <2>4 DEF TenantOf
<1>2. CASE table \in TenantTables
  <2>1. table \notin EnvTables
    BY <1>2 DEF EnvTables, TenantTables
  <2> QED
    BY <1>2, <2>1 DEF Owner, OwnedBy
<1>3. CASE table \in EnvTables
  <2>1. table \notin TenantTables
    BY <1>3 DEF EnvTables, TenantTables
  <2>2. TenantOf(r.env) = t
    BY <1>1, <1>3 DEF OwnedBy
  <2> QED
    BY <1>3, <2>1, <2>2 DEF Owner
<1>4. CASE table = "perf_budget_samples"
  <2>1. table \notin TenantTables /\ table \notin EnvTables
    BY <1>4 DEF EnvTables, TenantTables
  <2>2. PICK b \in db.perf_budgets :
           b.id = r.budget /\ \E e \in db.environments : e.id = b.env /\ e.tenant = t
    BY <1>4 DEF OwnedBy
  <2>3. \A k \in db.perf_budgets : k.id = r.budget => k = b
    BY <2>2 DEF DbInv, DbKeys
  <2> DEFINE hit == CHOOSE k \in db.perf_budgets : k.id = r.budget
  <2>4. hit \in db.perf_budgets /\ hit.id = r.budget
    BY <2>2
  <2>5. hit = b
    BY <2>3, <2>4
  <2>6. TenantOf(hit.env) = t
    BY <1>1, <2>2, <2>5
  <2> QED
    BY <2>1, <2>6 DEF Owner
<1> QED
  BY <1>2, <1>3, <1>4 DEF Tables

\* What a statement of tenant t touches is the tenant's.
LEMMA ChangedIsOwn ==
    ASSUME DbInv(db, nextId), NEW t, NEW newDb, Touches(db, newDb, t), NEW y \in Changed(newDb)
    PROVE  Owner(y[1], y[2]) = t
<1>1. PICK u \in Tables : y \in {u} \X ((db[u] \ newDb[u]) \cup (newDb[u] \ db[u]))
  BY DEF Changed
<1>2. y[1] = u /\ y[2] \in (db[u] \ newDb[u]) \cup (newDb[u] \ db[u])
  BY <1>1
<1>3. OwnedBy(db, u, y[2], t)
  BY <1>2 DEF Touches
<1> QED
  BY <1>2, <1>3, OwnerIs

\* A step that reads and changes rows of its tenant alone leaks nothing.
LEMMA StepLeaksNothing ==
    ASSUME DbInv(db, nextId), NEW t, NEW table \in Tables, NEW rows, NEW newDb,
           \A r \in rows : OwnedBy(db, table, r, t), Touches(db, newDb, t),
           Step(t, table, rows, newDb)
    PROVE  db' = newDb /\ leaks' = leaks /\ area' = area
<1> DEFINE all == ({table} \X rows) \cup Changed(newDb)
           foreign == {y \in all : Owner(y[1], y[2]) # t}
<1>1. ASSUME NEW y \in all
      PROVE  Owner(y[1], y[2]) = t
  <2>1. CASE y \in {table} \X rows
    <3>1. y[1] = table /\ y[2] \in rows
      BY <2>1
    <3> QED
      BY <3>1, OwnerIs
  <2>2. CASE y \in Changed(newDb)
    BY <2>2, ChangedIsOwn
  <2> QED
    BY <1>1, <2>1, <2>2
<1>2. foreign = {}
  BY <1>1
<1>3. leaks' = leaks \cup {<<"api", x[1]>> : x \in foreign}
  BY DEF Step, Leaked
<1> QED
  BY <1>2, <1>3 DEF Step

\* A request that is interrupted by a step of another keeps what it relies on:
\* its environment is the tenant's as long as it exists, and the rest is void
\* once the database has changed.
LEMMA OthersKeep ==
    ASSUME NEW x, RequestInv(x), nextId \in Nat, nextId' \in Nat, nextId <= nextId',
           req'[x] = Noticing(req[x]), KeepsOwners(db, db', nextId), area' = area
    PROVE  RequestInv(x)'
<1> DEFINE r == req[x]
           s == req'[x]
<1>1. r \in {Idle} \cup RequestRow
  BY DEF RequestInv, RequestTyped, Typed
<1>2. CASE s = r /\ r = Idle
  <2>1. r.at = "idle" /\ s.at = "idle"
    BY <1>2 DEF Idle
  <2> QED
    BY <1>2, <2>1 DEF RequestInv, RequestTyped, Typed, RequestOwns, Owns, RequestCounted, Counts, RequestChecked, Checks,
       OnEnvironment
<1>3. CASE r # Idle
  <2>1. r \in RequestRow /\ r.env < nextId /\ r.row < nextId
    BY <1>1, <1>3 DEF RequestInv, RequestTyped, Typed
  <2>2. /\ s \in RequestRow /\ s.at = r.at /\ s.tenant = r.tenant /\ s.env = r.env
        /\ s.row = r.row /\ s.size = r.size /\ s.name = r.name
        /\ s = r \/ s.raced
    BY <2>1 DEF Noticing, RequestRow
  <2>3. db' # db => s.at = "authorized" \/ s.raced
    BY <2>1 DEF Noticing, RequestRow, OnEnvironment, OnTenant
  <2>4. RequestTyped(x)'
    BY <2>1, <2>2 DEF RequestTyped, Typed, RequestRow
  <2>5. RequestOwns(x)'
    <3>1. ASSUME s.at \in OnEnvironment, NEW f \in db'.environments, f.id = s.env
          PROVE  f.tenant = s.tenant
      <4>1. f.id # nextId
        BY <2>1, <2>2, <3>1 DEF RequestRow
      <4>2. PICK e \in db.environments : e.id = f.id /\ e.tenant = f.tenant
        BY <4>1 DEF KeepsOwners
      <4> QED
        BY <2>2, <3>1, <4>2 DEF RequestInv, RequestOwns, Owns
    <3>2. ASSUME s.at \in {"budget", "trend"}, NEW k \in db'.perf_budgets, k.id = s.row
          PROVE  k.env = s.env
      <4>1. k.id # nextId
        BY <2>1, <2>2, <3>2 DEF RequestRow
      <4>2. PICK b \in db.perf_budgets : b.id = k.id /\ b.env = k.env
        BY <4>1 DEF KeepsOwners
      <4> QED
        BY <2>2, <3>2, <4>2 DEF RequestInv, RequestOwns, Owns
    <3> QED
      BY <3>1, <3>2 DEF RequestOwns, Owns
  <2>6. CASE s.raced
    BY <2>4, <2>5, <2>6 DEF RequestInv, RequestCounted, Counts, RequestChecked, Checks
  <2>7. CASE db' # db /\ s.at = "authorized"
    BY <2>4, <2>5, <2>7 DEF RequestInv, RequestCounted, Counts, RequestChecked, Checks
  <2>8. CASE db' = db /\ s = r
    <3>1. RequestCounted(x)'
      BY <2>8 DEF RequestInv, RequestCounted, Counts, EnvironmentTotal
    <3>2. RequestChecked(x)'
      BY <2>8 DEF RequestInv, RequestChecked, Checks
    <3> QED
      BY <2>4, <2>5, <3>1, <3>2 DEF RequestInv
  <2> QED
    BY <2>2, <2>3, <2>6, <2>7, <2>8
<1>4. r = Idle => s = r
  BY DEF Noticing, Idle
<1> QED
  BY <1>2, <1>3, <1>4

\* A step that gives no environment a name keeps the names.
LEMMA NamesKept ==
    ASSUME NamesUniqueUnlessRaced, DbInv(db, nextId), NEW n, DbInv(db', n),
           racedNames \subseteq racedNames',
           \A f \in db'.environments :
              \E e \in db.environments : e.id = f.id /\ e.tenant = f.tenant /\ e.name = f.name
    PROVE  NamesUniqueUnlessRaced'
<1> SUFFICES ASSUME NEW e \in db'.environments, NEW f \in db'.environments,
                    e # f, e.tenant = f.tenant, e.name = f.name
             PROVE  {e.id, f.id} \cap racedNames' # {}
  BY DEF NamesUniqueUnlessRaced
<1>1. PICK e0 \in db.environments : e0.id = e.id /\ e0.tenant = e.tenant /\ e0.name = e.name
  OBVIOUS
<1>2. PICK f0 \in db.environments : f0.id = f.id /\ f0.tenant = f.tenant /\ f0.name = f.name
  OBVIOUS
<1>3. e.id # f.id
  BY DEF DbInv, DbKeys
<1>4. {e.id, f.id} \cap racedNames # {}
  BY <1>1, <1>2, <1>3 DEF NamesUniqueUnlessRaced
<1> QED
  BY <1>4

\* The step of one request, or of no request: the invariant is kept if the
\* request's own part is, and the names are.
LEMMA StepKeepsInv ==
    ASSUME ApiInv, NEW t, NEW n \in Nat, nextId <= n, nextId' = n,
           DbChange(db, nextId, db', n, t), area' = area, overfull' = overfull,
           leaks' \subseteq leaks \cup ({"batch"} \X BatchTables),
           req' = [x \in Client |-> req'[x]],
           \A x \in Client : req'[x] = Noticing(req[x]) \/ RequestInv(x)',
           NamesUniqueUnlessRaced'
    PROVE  ApiInv'
<1>1. nextId \in Nat /\ nextId' \in Nat \ {0} /\ nextId <= nextId'
  BY DEF ApiInv
<1>2. KeepsOwners(db, db', nextId) /\ DbInv(db', nextId')
  BY DEF DbChange
<1>3. ASSUME NEW x \in Client
      PROVE  RequestInv(x)'
  <2>1. RequestInv(x)
    BY DEF ApiInv
  <2>2. CASE req'[x] = Noticing(req[x])
    BY <1>1, <1>2, <2>1, <2>2, OthersKeep
  <2> QED
    BY <2>2
<1>4. leaks' \subseteq {"batch"} \X BatchTables /\ overfull' = {}
  BY DEF ApiInv
<1>5. DbInv(db, nextId)'
  BY <1>2
<1> QED
  BY <1>1, <1>3, <1>4, <1>5 DEF ApiInv

\* A request that is over relies on nothing.
LEMMA IdleInv ==
    ASSUME NEW c, req'[c] = Idle
    PROVE  RequestInv(c)'
<1>1. req'[c].at = "idle"
  BY DEF Idle
<1> QED
  BY <1>1 DEF RequestInv, RequestTyped, RequestOwns, RequestCounted, RequestChecked,
     Typed, Owns, Counts, Checks, OnEnvironment

\* What a request goes on with, after a statement that changed nothing.
LEMMA NextInv ==
    ASSUME NEW c, NEW next, req'[c] = next, Relies(next), UNCHANGED <<db, area, nextId>>
    PROVE  RequestInv(c)'
<1>1. RequestTyped(c)'
  BY DEF Relies, RequestTyped, Typed
<1>2. RequestOwns(c)'
  BY DEF Relies, RequestOwns, Owns
<1>3. RequestCounted(c)'
  BY DEF Relies, RequestCounted, Counts, EnvironmentTotal
<1>4. RequestChecked(c)'
  BY DEF Relies, RequestChecked, Checks
<1> QED
  BY <1>1, <1>2, <1>3, <1>4 DEF RequestInv

\* The last statement of a request, that leaves newDb.
LEMMA ReplyKeeps ==
    ASSUME ApiInv, NEW c \in Client, NEW t, NEW table \in Tables, NEW rows,
           \A r \in rows : OwnedBy(db, table, r, t), NEW newDb, NEW m \in Nat, nextId <= m,
           DbStep(db, nextId, newDb, m, t), nextId' = m,
           Step(t, table, rows, newDb), Proceed(c, Idle), UNCHANGED <<overfull, racedNames>>
    PROVE  ApiInv'
<1>1. DbInv(db, nextId) /\ NamesUniqueUnlessRaced
  BY DEF ApiInv
<1>2. Touches(db, newDb, t)
  BY DEF DbStep, DbChange
<1>3. db' = newDb /\ leaks' = leaks /\ area' = area
  BY <1>1, <1>2, StepLeaksNothing
<1>4. DbChange(db, nextId, db', m, t) /\ DbInv(db', m)
  BY <1>3 DEF DbStep, DbChange
<1>5. NamesUniqueUnlessRaced'
  BY <1>1, <1>3, <1>4, NamesKept DEF DbStep
<1>6. req' = [x \in Client |-> req'[x]] /\ req'[c] = Idle
      /\ \A x \in Client : x # c => req'[x] = Noticing(req[x])
  BY DEF Proceed
<1>7. \A x \in Client : req'[x] = Noticing(req[x]) \/ RequestInv(x)'
  BY <1>6, IdleInv
<1> QED
  BY <1>3, <1>4, <1>5, <1>6, <1>7, StepKeepsInv

\* A statement that reads rows of the tenant; the request goes on, or is over.
LEMMA ReadKeeps ==
    ASSUME ApiInv, NEW c \in Client, NEW t, NEW table \in Tables, NEW rows,
           \A r \in rows : OwnedBy(db, table, r, t), NEW next, next = Idle \/ Relies(next),
           Step(t, table, rows, db), Proceed(c, next), UNCHANGED <<nextId, overfull, racedNames>>
    PROVE  ApiInv'
<1>1. DbInv(db, nextId) /\ NamesUniqueUnlessRaced /\ nextId \in Nat
  BY DEF ApiInv
<1>2. Touches(db, db, t)
  BY DEF Touches
<1>3. db' = db /\ leaks' = leaks /\ area' = area
  BY <1>1, <1>2, StepLeaksNothing
<1>4. nextId <= nextId
  BY <1>1
<1>5. DbStep(db, nextId, db, nextId, t)
  BY <1>1, <1>4, NoDbStep
<1>6. DbChange(db, nextId, db', nextId, t)
  BY <1>3, <1>5 DEF DbStep
<1>7. NamesUniqueUnlessRaced'
  BY <1>1, <1>3 DEF NamesUniqueUnlessRaced
<1>8. req' = [x \in Client |-> req'[x]] /\ req'[c] = next
      /\ \A x \in Client : x # c => req'[x] = Noticing(req[x])
  BY DEF Proceed
<1>9. RequestInv(c)'
  BY <1>3, <1>8, IdleInv, NextInv
<1>10. \A x \in Client : req'[x] = Noticing(req[x]) \/ RequestInv(x)'
  BY <1>8, <1>9
<1> QED
  BY <1>1, <1>3, <1>4, <1>6, <1>7, <1>8, <1>10, StepKeepsInv

\* A worker or an agent changes the database, and touches rows of another
\* tenant by way of a batch alone.
LEMMA ActKeeps ==
    ASSUME ApiInv, NEW path, NEW tenant, NEW newDb, NEW m \in Nat, nextId <= m, nextId' = m,
           NEW t, DbStep(db, nextId, newDb, m, t), ActFor(path, tenant, newDb),
           Leaked(path, tenant, Changed(newDb)) \subseteq {"batch"} \X BatchTables
    PROVE  ApiInv'
<1>1. DbInv(db, nextId) /\ NamesUniqueUnlessRaced
  BY DEF ApiInv
<1>2. DbChange(db, nextId, db', m, t) /\ DbInv(db', m)
  BY DEF DbStep, DbChange, ActFor
<1>3. NamesUniqueUnlessRaced'
  BY <1>1, <1>2, NamesKept DEF DbStep, ActFor
<1>4. \A x \in Client : req'[x] = Noticing(req[x])
  BY DEF ActFor
<1>5. req' = [x \in Client |-> req'[x]]
  BY DEF ActFor
<1>6. leaks' \subseteq leaks \cup ({"batch"} \X BatchTables)
  BY DEF ActFor
<1> QED
  BY <1>2, <1>3, <1>4, <1>5, <1>6, StepKeepsInv DEF ActFor

\* It acts for the tenant whose rows it touches.
LEMMA OwnActKeeps ==
    ASSUME ApiInv, NEW path, NEW t, NEW newDb, NEW m \in Nat, nextId <= m, nextId' = m,
           DbStep(db, nextId, newDb, m, t), ActFor(path, t, newDb)
    PROVE  ApiInv'
<1>1. DbInv(db, nextId) /\ Touches(db, newDb, t)
  BY DEF ApiInv, DbStep, DbChange
<1>2. \A y \in Changed(newDb) : Owner(y[1], y[2]) = t
  BY <1>1, ChangedIsOwn
<1>3. {y \in Changed(newDb) : Owner(y[1], y[2]) # t} = {}
  BY <1>2
<1>4. Leaked(path, t, Changed(newDb)) = {}
  BY <1>3 DEF Leaked
<1> QED
  BY <1>4, ActKeeps

\* A list with a limit and an offset is a part of what it lists.
LEMMA NewestPart == \A rows, limit, offset : Newest(rows, limit, offset) \subseteq rows
BY DEF Newest

\* A part is not larger than the whole.
LEMMA PartCount ==
    ASSUME NEW S, IsFiniteSet(S), NEW P, P \subseteq S
    PROVE  Cardinality(P) \in Nat /\ Cardinality(S) \in Nat /\ Cardinality(P) <= Cardinality(S)
<1>1. IsFiniteSet(P)
  BY FS_Subset
<1> QED
  BY <1>1, FS_Subset, FS_CardinalityType

\* What is known of a request under way.
LEMMA RequestFacts ==
    ASSUME ApiInv, NEW c \in Client, req[c].at \in OnEnvironment \cup OnTenant
    PROVE  req[c] \in RequestRow /\ req[c].env < nextId /\ req[c].row < nextId /\ req[c] # Idle
<1>1. req[c] # Idle
  BY DEF Idle, OnEnvironment, OnTenant
<1> QED
  BY <1>1 DEF ApiInv, RequestInv, RequestTyped, Typed

\* Rows of the environment a request was checked for are the tenant's.
LEMMA EnvRowsOwned ==
    ASSUME ApiInv, NEW c \in Client, req[c].at \in OnEnvironment, NEW table \in EnvTables,
           NEW rows, rows \subseteq OfEnv(db[table], req[c].env)
    PROVE  \A r \in rows : OwnedBy(db, table, r, req[c].tenant)
<1>1. \A e \in db.environments : e.id = req[c].env => e.tenant = req[c].tenant
  BY DEF ApiInv, RequestInv, RequestOwns, Owns
<1>2. ASSUME NEW r \in rows
      PROVE  OwnedBy(db, table, r, req[c].tenant)
  <2>1. r \in db[table] /\ r.env = req[c].env
    BY DEF OfEnv
  <2>2. DbInv(db, nextId)
    BY DEF ApiInv
  <2> QED
    BY <1>1, <2>1, <2>2, OwnRows
<1> QED
  BY <1>2

\* The request answers with rows of its environment.
LEMMA ReadOfEnv ==
    ASSUME ApiInv, NEW c \in Client, req[c].at \in OnEnvironment, NEW table \in EnvTables,
           NEW rows, rows \subseteq OfEnv(db[table], req[c].env), Read(c, table, rows)
    PROVE  ApiInv'
<1>1. \A r \in rows : OwnedBy(db, table, r, req[c].tenant)
  BY EnvRowsOwned
<1>2. table \in Tables
  BY DEF Tables
<1> QED
  BY <1>1, <1>2, ReadKeeps DEF Read, Reply

\* It reads rows of its environment and goes on.
LEMMA ContinueOfEnv ==
    ASSUME ApiInv, NEW c \in Client, req[c].at \in OnEnvironment, NEW table \in EnvTables,
           NEW rows, rows \subseteq OfEnv(db[table], req[c].env), NEW next, Relies(next),
           Continue(c, next, table, rows)
    PROVE  ApiInv'
<1>1. \A r \in rows : OwnedBy(db, table, r, req[c].tenant)
  BY EnvRowsOwned
<1>2. table \in Tables
  BY DEF Tables
<1> QED
  BY <1>1, <1>2, ReadKeeps DEF Continue

\* It compares a part with a whole, not larger unless the request was raced.
LEMMA CompareKeeps ==
    ASSUME ApiInv, NEW c \in Client, NEW table \in Tables,
           NEW rows, \A r \in rows : OwnedBy(db, table, r, req[c].tenant),
           NEW next, next = Idle \/ Relies(next), NEW part \in Nat, NEW whole \in Nat,
           part <= whole \/ req[c].raced, Compare(c, next, table, rows, part, whole)
    PROVE  ApiInv'
<1>1. overfull' = overfull
  BY DEF Compare
<1> QED
  BY <1>1, ReadKeeps DEF Compare

\* The same of rows of the environment it was checked for.
LEMMA CompareOfEnv ==
    ASSUME ApiInv, NEW c \in Client, req[c].at \in OnEnvironment, NEW table \in EnvTables,
           NEW rows, rows \subseteq OfEnv(db[table], req[c].env),
           NEW next, next = Idle \/ Relies(next), NEW part \in Nat, NEW whole \in Nat,
           part <= whole \/ req[c].raced, Compare(c, next, table, rows, part, whole)
    PROVE  ApiInv'
<1>1. \A r \in rows : OwnedBy(db, table, r, req[c].tenant)
  BY EnvRowsOwned
<1>2. table \in Tables
  BY DEF Tables
<1> QED
  BY <1>1, <1>2, CompareKeeps

\* The request's last statement is a write, or an insert.
LEMMA WriteKeeps ==
    ASSUME ApiInv, NEW c \in Client, NEW newDb, Write(c, newDb),
           DbStep(db, nextId, newDb, nextId, req[c].tenant)
    PROVE  ApiInv'
<1>1. "alerts" \in Tables /\ nextId \in Nat /\ nextId <= nextId
  BY DEF Tables, EnvTables, ApiInv
<1>2. \A r \in {} : OwnedBy(db, "alerts", r, req[c].tenant)
  OBVIOUS
<1> QED
  BY <1>1, <1>2, ReplyKeeps DEF Write, Reply

\* It inserts a row, if only to be refused.
LEMMA InsertKeeps ==
    ASSUME ApiInv, NEW c \in Client, NEW t, NEW newDb, Insert(c, t, newDb),
           DbStep(db, nextId, newDb, nextId + 1, t)
    PROVE  ApiInv'
<1>1. "alerts" \in Tables /\ nextId + 1 \in Nat /\ nextId <= nextId + 1
  BY DEF Tables, EnvTables, ApiInv
<1>2. \A r \in {} : OwnedBy(db, "alerts", r, t)
  OBVIOUS
<1> QED
  BY <1>1, <1>2, ReplyKeeps DEF Insert

\* An agent or a middleware inserts a row of its own tenant.
LEMMA OwnInsertKeeps ==
    ASSUME ApiInv, NEW path, NEW t, NEW areas, NEW newDb, InsertFor(path, t, areas, newDb),
           DbStep(db, nextId, newDb, nextId + 1, t)
    PROVE  ApiInv'
<1>1. nextId + 1 \in Nat /\ nextId <= nextId + 1
  BY DEF ApiInv
<1> QED
  BY <1>1, OwnActKeeps DEF InsertFor

\* A worker stores a row of a batch, whoever's it is, in one of its tables.
LEMMA BatchKeeps ==
    ASSUME ApiInv, NEW tenant, NEW areas, NEW newDb, BatchStored(tenant, areas, newDb),
           NEW t, DbStep(db, nextId, newDb, nextId + 1, t),
           \A u \in Tables \ BatchTables : newDb[u] = db[u]
    PROVE  ApiInv'
<1>1. nextId + 1 \in Nat /\ nextId <= nextId + 1
  BY DEF ApiInv
<1>2. ASSUME NEW y \in Changed(newDb)
      PROVE  y[1] \in BatchTables
  <2>1. PICK u \in Tables : y \in {u} \X ((db[u] \ newDb[u]) \cup (newDb[u] \ db[u]))
    BY DEF Changed
  <2>2. y[1] = u /\ y[2] \in (db[u] \ newDb[u]) \cup (newDb[u] \ db[u])
    BY <2>1
  <2>3. newDb[u] # db[u]
    BY <2>2
  <2> QED
    BY <2>2, <2>3
<1>3. Leaked("batch", tenant, Changed(newDb)) \subseteq {"batch"} \X BatchTables
  BY <1>2 DEF Leaked
<1> QED
  BY <1>1, <1>3, ActKeeps DEF BatchStored, InsertFor

\* An environment is of one tenant, if it exists, and so is a budget.
LEMMA SomeOwner ==
    ASSUME DbInv(db, nextId), NEW env
    PROVE  \E t : \A e \in db.environments : e.id = env => e.tenant = t
<1>1. CASE \E e \in db.environments : e.id = env
  <2>1. PICK e \in db.environments : e.id = env
    BY <1>1
  <2>2. \A f \in db.environments : f.id = env => f.tenant = e.tenant
    BY <2>1 DEF DbInv, DbKeys
  <2> QED
    BY <2>2
<1>2. CASE ~\E e \in db.environments : e.id = env
  BY <1>2
<1> QED
  BY <1>1, <1>2
LEMMA SomeBudgetOwner ==
    ASSUME DbInv(db, nextId), NEW budget
    PROVE  \E t : BudgetOf(db, budget, t)
<1>1. CASE \E b \in db.perf_budgets : b.id = budget
  <2>1. PICK b \in db.perf_budgets : b.id = budget
    BY <1>1
  <2>2. \A c \in db.perf_budgets : c.id = budget => c = b
    BY <2>1 DEF DbInv, DbKeys
  <2>3. PICK t : \A e \in db.environments : e.id = b.env => e.tenant = t
    BY SomeOwner
  <2>4. BudgetOf(db, budget, t)
    BY <2>2, <2>3 DEF BudgetOf
  <2> QED
    BY <2>4
<1>2. CASE ~\E b \in db.perf_budgets : b.id = budget
  BY <1>2 DEF BudgetOf
<1> QED
  BY <1>1, <1>2

\* A request goes on with its environment and what it has counted.
LEMMA ThenRelies ==
    ASSUME ApiInv, NEW c \in Client, req[c].at \in OnEnvironment,
           NEW at \in OnEnvironment \ {"budget", "trend"}, NEW size \in Nat,
           NEW next, next = Then(c, at, size), Counts(next)
    PROVE  Relies(next)
<1>1. req[c] \in RequestRow /\ req[c].env < nextId /\ req[c].row < nextId
  BY RequestFacts
<1>2. /\ next \in RequestRow /\ next.at = at /\ next.env = req[c].env
      /\ next.row = req[c].row /\ next.tenant = req[c].tenant
  BY <1>1 DEF Then, RequestRow
<1>3. Typed(next)
  BY <1>1, <1>2 DEF Typed
<1>4. Owns(next)
  BY <1>2 DEF Owns, ApiInv, RequestInv, RequestOwns
<1>5. Checks(next)
  BY <1>2 DEF Checks, OnEnvironment
<1> QED
  BY <1>3, <1>4, <1>5 DEF Relies

\* Steps of which nothing is counted.
LEMMA ThenCounts ==
    ASSUME ApiInv, NEW c \in Client, req[c].at \in OnEnvironment,
           NEW at \in OnEnvironment \ {"budget", "trend", "listed", "counted", "total_errors",
                                       "total_recordings"},
           NEW size \in Nat
    PROVE  Relies(Then(c, at, size))
<1>1. req[c] \in RequestRow
  BY RequestFacts
<1> DEFINE next == Then(c, at, size)
<1>2. next.at = at
  BY <1>1 DEF Then, RequestRow
<1>3. Counts(next)
  BY <1>2 DEF Counts
<1> HIDE DEF next
<1>4. next = Then(c, at, size)
  BY DEF next
<1>5. Relies(next)
  BY <1>3, <1>4, ThenRelies
<1> QED
  BY <1>4, <1>5

(* The tenants' API: every action keeps the invariant. *)

\* Requests that are authorized work with an environment.
LEMMA AuthorizedAt ==
    ASSUME NEW c, NEW a, Authorized(c, a)
    PROVE  req[c].at \in OnEnvironment /\ area = a
BY DEF Authorized, OnEnvironment

\* The tables are finite.
LEMMA FiniteTables ==
    ASSUME ApiInv
    PROVE  /\ \A u \in Tables : IsFiniteSet(db[u])
           /\ \A u \in Tables : \A env : IsFiniteSet(OfEnv(db[u], env))
           /\ \A u \in Tables : \A t : IsFiniteSet(OfTenant(db[u], t))
<1>1. \A u \in Tables : IsFiniteSet(db[u])
  BY DEF ApiInv, DbInv, DbTyped
<1>2. ASSUME NEW u \in Tables, NEW x
      PROVE  IsFiniteSet(OfEnv(db[u], x)) /\ IsFiniteSet(OfTenant(db[u], x))
  <2>1. OfEnv(db[u], x) \subseteq db[u] /\ OfTenant(db[u], x) \subseteq db[u]
    BY DEF OfEnv, OfTenant
  <2> QED
    BY <1>1, <2>1, FS_Subset
<1> QED
  BY <1>1, <1>2

\* A request begins: a check has passed, nothing else has happened.
LEMMA RequestBegins ==
    ASSUME ApiInv, NEW c \in Client, NEW next, Relies(next), req' = [req EXCEPT ![c] = next],
           UNCHANGED <<area, db, nextId, leaks, overfull, racedNames>>
    PROVE  ApiInv'
<1>1. DbInv(db, nextId) /\ NamesUniqueUnlessRaced /\ nextId \in Nat /\ nextId <= nextId
      /\ req = [x \in Client |-> req[x]]
  BY DEF ApiInv
<1>2. NamesUniqueUnlessRaced'
  BY <1>1 DEF NamesUniqueUnlessRaced
<1>3. DbChange(db, nextId, db', nextId, "null")
  BY <1>1, NoDbStep DEF DbStep
<1>4. req' = [x \in Client |-> req'[x]] /\ req'[c] = next /\ \A x \in Client : x # c => req'[x] = req[x]
  BY <1>1
<1>5. \A x \in Client : x # c => req'[x] = Noticing(req[x])
  BY <1>4 DEF Noticing
<1>6. RequestInv(c)'
  BY <1>4, NextInv
<1>7. \A x \in Client : req'[x] = Noticing(req[x]) \/ RequestInv(x)'
  BY <1>5, <1>6
<1> QED
  BY <1>1, <1>2, <1>3, <1>4, <1>7, StepKeepsInv

\* The check of the environment in the URL.
LEMMA MustTenantAndEnvIDKeeps ==
    ASSUME ApiInv, NEW c \in Client, MustTenantAndEnvID(c)
    PROVE  ApiInv'
<1>1. PICK t \in Tenant, env \in Ids :
         /\ GetEnvironmentByID(db, env, t) # {}
         /\ req' = [req EXCEPT ![c] = Request("authorized", t, env, 0, "null")]
  BY DEF MustTenantAndEnvID
<1>2. nextId \in Nat /\ env \in Nat /\ env < nextId /\ 0 < nextId
  BY DEF Ids, ApiInv
<1> DEFINE next == Request("authorized", t, env, 0, "null")
<1>3. /\ next \in RequestRow /\ next.at = "authorized" /\ next.tenant = t /\ next.env = env
      /\ next.row = 0
  BY <1>2 DEF Request, RequestRow, OnEnvironment
<1> HIDE DEF next
<1>4. Typed(next)
  BY <1>2, <1>3 DEF Typed
<1>5. PICK e \in db.environments : e.id = env /\ e.tenant = t
  BY <1>1 DEF GetEnvironmentByID, WithId, OfTenant
<1>6. \A f \in db.environments : f.id = env => f.tenant = t
  BY <1>5 DEF ApiInv, DbInv, DbKeys
<1>7. Owns(next)
  BY <1>3, <1>6 DEF Owns
<1>8. Counts(next) /\ Checks(next)
  BY <1>3 DEF Counts, Checks
<1>9. Relies(next)
  BY <1>4, <1>7, <1>8 DEF Relies
<1> QED
  BY <1>1, <1>9, RequestBegins DEF MustTenantAndEnvID, next

\* A statement fails.
LEMMA HandleErrKeeps ==
    ASSUME ApiInv, NEW c \in Client, HandleErr(c)
    PROVE  ApiInv'
<1>1. nextId \in Nat /\ nextId <= nextId /\ DbInv(db, nextId)
  BY DEF ApiInv
<1>2. DbStep(db, nextId, db, nextId, req[c].tenant)
  BY <1>1, NoDbStep
<1> QED
  BY <1>2, WriteKeeps DEF HandleErr

\* Heartbeats.
LEMMA HeartbeatsKeep ==
    ASSUME ApiInv, NEW c \in Client, HandleGetLatestHeartbeat(c) \/ HandleListHeartbeats(c)
    PROVE  ApiInv'
<1>1. ASSUME NEW limit, NEW rows, rows = Newest(OfEnv(db.agent_heartbeats, Env(c)), limit, 0),
             Authorized(c, "heartbeats"), Read(c, "agent_heartbeats", rows)
      PROVE  ApiInv'
  <2>1. rows \subseteq OfEnv(db["agent_heartbeats"], req[c].env)
    BY <1>1, NewestPart DEF Env
  <2>2. "agent_heartbeats" \in EnvTables /\ req[c].at \in OnEnvironment
    BY <1>1, AuthorizedAt DEF EnvTables
  <2> QED
    BY <1>1, <2>1, <2>2, ReadOfEnv
<1> QED
  BY <1>1 DEF HandleGetLatestHeartbeat, HandleListHeartbeats, EnvironmentLatestHeartbeat,
     EnvironmentHeartbeats, GetLatestHeartbeat, ListHeartbeats

\* API keys are issued, listed, looked up and revoked.
LEMMA KeysKeep ==
    ASSUME ApiInv, NEW c \in Client,
           HandleCreateAPIKey(c) \/ HandleListAPIKeys(c) \/ HandleRevokeAPIKey(c) \/ APIKeyRevoke(c)
    PROVE  ApiInv'
<1>0. DbInv(db, nextId) /\ nextId \in Nat \ {0} /\ "api_keys" \in EnvTables /\ "api_keys" \in Tables
  BY DEF ApiInv, Tables, EnvTables
<1>1. CASE APIKeyCreate(c)
  <2>1. req[c].at \in OnEnvironment
    BY <1>1, AuthorizedAt DEF APIKeyCreate
  <2>2. req[c].tenant \in Tenant /\ req[c].env \in Nat
    BY <2>1, RequestFacts DEF RequestRow
  <2>3. \A e \in db.environments : e.id = req[c].env => e.tenant = req[c].tenant
    BY <2>1 DEF ApiInv, RequestInv, RequestOwns, Owns
  <2>4. DbStep(db, nextId, CreateAPIKey(db, AnAPIKey(req[c].tenant, Env(c))), nextId + 1, req[c].tenant)
    BY <1>0, <2>2, <2>3, CreateAPIKeyStep DEF AnAPIKey, Env
  <2> QED
    BY <1>1, <2>4, InsertKeeps DEF APIKeyCreate
<1>2. CASE APIKeyList(c)
  <2>1. req[c].at \in OnEnvironment
    BY <1>2, AuthorizedAt DEF APIKeyList
  <2>2. ListAPIKeysByEnvironment(db, req[c].tenant, Env(c)) \subseteq OfEnv(db["api_keys"], req[c].env)
    BY DEF ListAPIKeysByEnvironment, OfEnv, OfTenant, Env
  <2> QED
    BY <1>0, <1>2, <2>1, <2>2, ReadOfEnv DEF APIKeyList
<1>3. CASE HandleRevokeAPIKey(c)
  <2>1. PICK t \in Tenant, key \in Ids : APIKeyLookup(c, t, key)
    BY <1>3 DEF HandleRevokeAPIKey
  <2> DEFINE hit == GetAPIKeyByID(db, key, t)
             next == Request("revoking", t, 0, key, "null")
  <2>2. \A k \in hit : OwnedBy(db, "api_keys", k, t)
    <3> SUFFICES ASSUME NEW k \in hit
                 PROVE  OwnedBy(db, "api_keys", k, t)
      OBVIOUS
    <3>1. k \in db["api_keys"] /\ k.tenant = t
      BY DEF GetAPIKeyByID, WithId, OfTenant
    <3>2. \A e \in db.environments : e.id = k.env => e.tenant = t
      BY <1>0, <3>1 DEF DbInv, DbSigned
    <3> QED
      BY <1>0, <3>1, <3>2, OwnRows
  <2>3. /\ next \in RequestRow /\ next.at = "revoking" /\ next.env = 0 /\ next.row = key
    BY <1>0 DEF Request, RequestRow, OnTenant, Ids
  <2>4. key < nextId /\ 0 < nextId
    BY <1>0 DEF Ids
  <2>5. Step(t, "api_keys", hit, db) /\ Proceed(c, next) /\ UNCHANGED <<nextId, overfull, racedNames>>
    BY <2>1 DEF APIKeyLookup
  <2> HIDE DEF next, hit
  <2>6. Relies(next)
    BY <2>3, <2>4 DEF Relies, Typed, Owns, Counts, Checks, OnEnvironment
  <2> QED
    BY <1>0, <2>2, <2>5, <2>6, ReadKeeps
<1>4. CASE APIKeyRevoke(c)
  <2>1. DbStep(db, nextId, RevokeAPIKey(db, req[c].row, req[c].tenant), nextId, req[c].tenant)
    BY <1>0, RevokeAPIKeyStep
  <2> QED
    BY <1>4, <2>1, WriteKeeps DEF APIKeyRevoke
<1> QED
  BY <1>1, <1>2, <1>3, <1>4 DEF HandleCreateAPIKey, HandleListAPIKeys

\* Error groups are listed, looked up, given a status and stored.
LEMMA ErrorsKeep ==
    ASSUME ApiInv, NEW c \in Client,
           \/ HandleListErrors(c) \/ ErrorTotal(c) \/ HandleGetErrorGroup(c)
           \/ HandleUpdateErrorGroup(c) \/ HandleIngestErrors(c)
    PROVE  ApiInv'
<1>0. /\ DbInv(db, nextId) /\ nextId \in Nat \ {0} /\ "error_groups" \in EnvTables
      /\ IsFiniteSet(OfEnv(db.error_groups, req[c].env))
  BY FiniteTables DEF ApiInv, Tables, EnvTables
<1>1. ASSUME NEW filter, NEW value, NEW p, ErrorList(c, filter, value, p)
      PROVE  ApiInv'
  <2> DEFINE rows == ErrorPage(Env(c), filter, value, p)
             next == Then(c, "listed", Cardinality(rows))
  <2>1. rows \subseteq OfEnv(db.error_groups, req[c].env)
    <3>1. /\ SearchErrorGroups(db, Env(c), value, p) \subseteq OfEnv(db.error_groups, req[c].env)
          /\ ListErrorGroupsByType(db, Env(c), value, p) \subseteq OfEnv(db.error_groups, req[c].env)
      BY NewestPart DEF SearchErrorGroups, ListErrorGroupsByType, GetErrorGroupBySignature, Env
    <3>2. ListErrorGroupsByStatus(db, Env(c), value, p) \subseteq OfEnv(db.error_groups, req[c].env)
      BY NewestPart DEF ListErrorGroupsByStatus, ByStatus, Env
    <3>3. ListErrorGroups(db, Env(c), p) \subseteq OfEnv(db.error_groups, req[c].env)
      BY NewestPart DEF ListErrorGroups, Env
    <3> QED
      BY <3>1, <3>2, <3>3 DEF ErrorPage
  <2>2. req[c].at \in OnEnvironment /\ area = "errors"
    BY <1>1, AuthorizedAt DEF ErrorList
  <2>3. /\ Continue(c, next, "error_groups", rows)
        /\ next = Then(c, "listed", Cardinality(rows))
    BY <1>1 DEF ErrorList
  <2> HIDE DEF rows
  <2>4. Cardinality(rows) \in Nat /\ Cardinality(rows) <= CountErrorGroupsByEnv(db, req[c].env)
    BY <1>0, <2>1, PartCount DEF CountErrorGroupsByEnv
  <2>5. next.at = "listed" /\ next.size = Cardinality(rows) /\ next.env = req[c].env
    BY <2>2, <2>4, RequestFacts DEF Then, RequestRow
  <2> HIDE DEF next
  <2>6. Counts(next)
    BY <2>2, <2>4, <2>5 DEF Counts
  <2>7. "listed" \in OnEnvironment \ {"budget", "trend"}
    BY DEF OnEnvironment
  <2>8. Relies(next)
    BY <2>2, <2>3, <2>4, <2>6, <2>7, ThenRelies
  <2> QED
    BY <1>0, <2>1, <2>2, <2>3, <2>8, ContinueOfEnv
<1>2. CASE ErrorTotal(c)
  <2>1. req[c].at = "listed" /\ area = "errors"
    BY <1>2 DEF ErrorTotal, At
  <2>2. req[c].at \in OnEnvironment
    BY <2>1 DEF OnEnvironment
  <2>3. req[c] \in RequestRow /\ req[c] # Idle /\ req[c].size \in Nat
    BY <2>2, RequestFacts DEF RequestRow
  <2>4. req[c].size <= CountErrorGroupsByEnv(db, Env(c)) \/ req[c].raced
    BY <2>1, <2>3 DEF ApiInv, RequestInv, RequestCounted, Counts, Env
  <2>5. CountErrorGroupsByEnv(db, Env(c)) \in Nat
    BY <1>0, PartCount DEF CountErrorGroupsByEnv, Env
  <2>6. {} \subseteq OfEnv(db["error_groups"], req[c].env)
    OBVIOUS
  <2> QED
    BY <1>0, <1>2, <2>2, <2>3, <2>4, <2>5, <2>6, CompareOfEnv DEF ErrorTotal
<1>3. ASSUME NEW rows, rows \subseteq OfEnv(db.error_groups, Env(c)), Authorized(c, "errors"),
             Read(c, "error_groups", rows)
      PROVE  ApiInv'
  <2>1. req[c].at \in OnEnvironment
    BY <1>3, AuthorizedAt
  <2> QED
    BY <1>0, <1>3, <2>1, ReadOfEnv DEF Env
<1>4. CASE HandleGetErrorGroup(c)
  <2>1. CASE \E id \in Ids : ErrorGet(c, id)
    BY <1>3, <2>1 DEF ErrorGet, GetErrorGroupByID, WithId
  <2>2. CASE \E sig \in Signatures : ErrorGetBySignature(c, sig)
    BY <1>3, <2>2 DEF ErrorGetBySignature, GetErrorGroupBySignature
  <2> QED
    BY <1>4, <2>1, <2>2 DEF HandleGetErrorGroup
<1>5. CASE HandleUpdateErrorGroup(c)
  <2>1. PICK id \in Ids, status \in ErrorStatuses : ErrorUpdateStatus(c, id, status)
    BY <1>5 DEF HandleUpdateErrorGroup
  <2>2. req[c].at \in OnEnvironment
    BY <2>1, AuthorizedAt DEF ErrorUpdateStatus
  <2>3. req[c].tenant \in Tenant
    BY <2>2, RequestFacts DEF RequestRow
  <2>4. \A e \in db.environments : e.id = Env(c) => e.tenant = req[c].tenant
    BY <2>2 DEF ApiInv, RequestInv, RequestOwns, Owns, Env
  <2>5. /\ DbStep(db, nextId, AcknowledgeErrorGroup(db, id, Env(c)), nextId, req[c].tenant)
        /\ DbStep(db, nextId, ResolveErrorGroup(db, id, req[c].tenant, Env(c)), nextId, req[c].tenant)
        /\ DbStep(db, nextId, ReopenErrorGroup(db, id, Env(c)), nextId, req[c].tenant)
    BY <1>0, <2>3, <2>4, GroupSteps
  <2> QED
    BY <2>1, <2>5, WriteKeeps DEF ErrorUpdateStatus
<1>6. CASE HandleIngestErrors(c)
  <2>1. PICK sig \in Signatures : ErrorIngestBatch(c, sig)
    BY <1>6 DEF HandleIngestErrors
  <2>2. req[c].at \in OnEnvironment
    BY <2>1, AuthorizedAt DEF ErrorIngestBatch
  <2>3. Env(c) \in Nat
    BY <2>2, RequestFacts DEF RequestRow, Env
  <2>4. \A e \in db.environments : e.id = Env(c) => e.tenant = req[c].tenant
    BY <2>2 DEF ApiInv, RequestInv, RequestOwns, Owns, Env
  <2>5. DbStep(db, nextId, UpsertErrorGroup(db, AnErrorGroup(Env(c), sig)), nextId + 1, req[c].tenant)
    BY <1>0, <2>3, <2>4, UpsertErrorGroupStep DEF AnErrorGroup
  <2> QED
    BY <2>1, <2>5, InsertKeeps DEF ErrorIngestBatch
<1> QED
  BY <1>1, <1>2, <1>4, <1>5, <1>6 DEF HandleListErrors

\* Alerts are counted, listed, looked up and acknowledged.
LEMMA AlertsKeep ==
    ASSUME ApiInv, NEW c \in Client,
           \/ AlertCounted(c) \/ HandleListAlerts(c) \/ HandleGetAlert(c) \/ HandleAcknowledge(c)
           \/ HandleAcknowledgeAll(c) \/ HandleCount(c)
    PROVE  ApiInv'
<1>0. /\ DbInv(db, nextId) /\ nextId \in Nat /\ "alerts" \in EnvTables
      /\ IsFiniteSet(OfEnv(db.alerts, req[c].env))
      /\ Unacknowledged(db, req[c].env) \subseteq OfEnv(db.alerts, req[c].env)
      /\ {} \subseteq OfEnv(db["alerts"], req[c].env)
  BY FiniteTables DEF ApiInv, Tables, EnvTables, Unacknowledged
<1>1. CASE AlertCounted(c)
  <2> DEFINE size == CountUnacknowledgedAlerts(db, Env(c))
             next == Then(c, "counted", size)
  <2>1. req[c].at \in OnEnvironment /\ area = "alerts"
    BY <1>1, AuthorizedAt DEF AlertCounted
  <2>2. size \in Nat /\ size = CountUnacknowledgedAlerts(db, req[c].env)
    BY <1>0, PartCount DEF CountUnacknowledgedAlerts, Env
  <2>3. next = Then(c, "counted", size) /\ Continue(c, next, "alerts", {})
    BY <1>1 DEF AlertCounted
  <2> HIDE DEF size
  <2>4. next.at = "counted" /\ next.size = size /\ next.env = req[c].env
    BY <2>1, <2>2, RequestFacts DEF Then, RequestRow
  <2> HIDE DEF next
  <2>5. Counts(next)
    BY <2>1, <2>2, <2>4 DEF Counts
  <2>6. "counted" \in OnEnvironment \ {"budget", "trend"}
    BY DEF OnEnvironment
  <2>7. Relies(next)
    BY <2>1, <2>2, <2>3, <2>5, <2>6, ThenRelies
  <2> QED
    BY <1>0, <2>1, <2>3, <2>7, ContinueOfEnv
<1>2. CASE HandleListAlerts(c)
  <2>1. PICK u \in BOOLEAN, p \in Pages : AlertList(c, u, p)
    BY <1>2 DEF HandleListAlerts
  <2>2. req[c].at = "counted" /\ area = "alerts"
    BY <2>1 DEF AlertList, At
  <2>3. req[c].at \in OnEnvironment
    BY <2>2 DEF OnEnvironment
  <2>4. CASE u
    <3> DEFINE rows == ListUnacknowledgedAlerts(db, Env(c), p.limit)
    <3>1. rows \subseteq Unacknowledged(db, req[c].env)
      BY NewestPart DEF ListUnacknowledgedAlerts, Env
    <3>2. Compare(c, Idle, "alerts", rows, Cardinality(rows), req[c].size)
      BY <2>1, <2>4 DEF AlertList
    <3> HIDE DEF rows
    <3>3. IsFiniteSet(Unacknowledged(db, req[c].env))
      BY <1>0, FS_Subset
    <3>4. /\ Cardinality(rows) \in Nat
          /\ Cardinality(rows) <= CountUnacknowledgedAlerts(db, req[c].env)
      BY <3>1, <3>3, PartCount DEF CountUnacknowledgedAlerts
    <3>5. req[c] \in RequestRow /\ req[c] # Idle /\ req[c].size \in Nat
      BY <2>3, RequestFacts DEF RequestRow
    <3>6. Cardinality(rows) <= req[c].size \/ req[c].raced
      BY <2>2, <3>4, <3>5 DEF ApiInv, RequestInv, RequestCounted, Counts
    <3>7. rows \subseteq OfEnv(db["alerts"], req[c].env)
      BY <1>0, <3>1
    <3> QED
      BY <1>0, <2>3, <3>2, <3>4, <3>5, <3>6, <3>7, CompareOfEnv
  <2>5. CASE ~u
    <3>1. ListAlerts(db, Env(c), p) \subseteq OfEnv(db["alerts"], req[c].env)
      BY NewestPart DEF ListAlerts, Env
    <3>2. Read(c, "alerts", ListAlerts(db, Env(c), p))
      BY <2>1, <2>5 DEF AlertList
    <3> QED
      BY <1>0, <2>3, <3>1, <3>2, ReadOfEnv
  <2> QED
    BY <2>4, <2>5
<1>3. ASSUME NEW rows, rows \subseteq OfEnv(db.alerts, Env(c)), Authorized(c, "alerts"),
             Read(c, "alerts", rows)
      PROVE  ApiInv'
  <2>1. req[c].at \in OnEnvironment
    BY <1>3, AuthorizedAt
  <2> QED
    BY <1>0, <1>3, <2>1, ReadOfEnv DEF Env
<1>4. CASE HandleGetAlert(c)
  BY <1>3, <1>4 DEF HandleGetAlert, AlertGetByID, GetAlertByID, WithId
<1>5. CASE HandleCount(c)
  BY <1>3, <1>5 DEF HandleCount, AlertCountUnacknowledged, Unacknowledged
<1>6. ASSUME Authorized(c, "alerts"), NEW id
      PROVE  /\ DbStep(db, nextId, AcknowledgeAlert(db, id, req[c].tenant, Env(c)), nextId, req[c].tenant)
             /\ DbStep(db, nextId, AcknowledgeAllAlerts(db, Env(c), req[c].tenant), nextId, req[c].tenant)
  <2>1. req[c].at \in OnEnvironment
    BY <1>6, AuthorizedAt
  <2>2. req[c].tenant \in Tenant
    BY <2>1, RequestFacts DEF RequestRow
  <2>3. \A e \in db.environments : e.id = Env(c) => e.tenant = req[c].tenant
    BY <2>1 DEF ApiInv, RequestInv, RequestOwns, Owns, Env
  <2> QED
    BY <1>0, <2>2, <2>3, AcknowledgeSteps
<1>7. CASE HandleAcknowledge(c)
  BY <1>6, <1>7, WriteKeeps DEF HandleAcknowledge, AlertAcknowledge
<1>8. CASE HandleAcknowledgeAll(c)
  BY <1>6, <1>8, WriteKeeps DEF HandleAcknowledgeAll, AlertAcknowledgeAll
<1> QED
  BY <1>1, <1>2, <1>4, <1>5, <1>7, <1>8

\* Rows of a tenant's table that are looked up by tenant are the tenant's.
LEMMA TenantRowsOwned ==
    ASSUME NEW t, NEW table \in TenantTables, NEW rows, rows \subseteq OfTenant(db[table], t)
    PROVE  table \in Tables /\ \A r \in rows : OwnedBy(db, table, r, t)
<1>1. table \notin EnvTables /\ table # "perf_budget_samples" /\ table \in Tables
  BY DEF TenantTables, EnvTables, Tables
<1> QED
  BY <1>1 DEF OwnedBy, OfTenant

\* A request shows a tenant's rows, or replaces the database in its name.
LEMMA ShowKeeps ==
    ASSUME ApiInv, NEW c \in Client, NEW t, NEW table \in TenantTables, NEW rows,
           rows \subseteq OfTenant(db[table], t), Show(c, t, table, rows)
    PROVE  ApiInv'
BY TenantRowsOwned, ReadKeeps DEF Show, Reply

\* A write of a request that names no environment.
LEMMA TenantWriteKeeps ==
    ASSUME ApiInv, NEW c \in Client, NEW t, NEW table \in Tables, NEW newDb,
           Reply(c, t, table, {}, newDb), DbStep(db, nextId, newDb, nextId, t)
    PROVE  ApiInv'
<1>1. nextId \in Nat /\ nextId <= nextId
  BY DEF ApiInv
<1>2. \A r \in {} : OwnedBy(db, table, r, t)
  OBVIOUS
<1> QED
  BY <1>1, <1>2, ReplyKeeps DEF Reply

\* Notification channels.
LEMMA ChannelsKeep ==
    ASSUME ApiInv, NEW c \in Client, RegisterNotificationChannelRoutes(c)
    PROVE  ApiInv'
<1>0. /\ DbInv(db, nextId) /\ nextId \in Nat \ {0} /\ "alerts" \in Tables
      /\ "notification_channels" \in TenantTables
  BY DEF ApiInv, Tables, EnvTables, TenantTables
<1>1. CASE HandleCreateChannel(c)
  <2>1. PICK t \in Tenant : ChannelCreate(c, t)
    BY <1>1 DEF HandleCreateChannel
  <2> QED
    BY <1>0, <2>1, InsertTenantSteps, InsertKeeps DEF ChannelCreate
<1>2. CASE HandleListChannels(c)
  <2>1. PICK t \in Tenant : ChannelList(c, t)
    BY <1>2 DEF HandleListChannels
  <2>2. ListNotificationChannels(db, t) \subseteq OfTenant(db["notification_channels"], t)
    BY DEF ListNotificationChannels
  <2> QED
    BY <1>0, <2>1, <2>2, ShowKeeps DEF ChannelList
<1>3. CASE HandleGetChannel(c)
  <2>1. PICK t \in Tenant, id \in Ids : ChannelGet(c, t, id)
    BY <1>3 DEF HandleGetChannel
  <2>2. GetNotificationChannel(db, id, t) \subseteq OfTenant(db["notification_channels"], t)
    BY DEF GetNotificationChannel, WithId
  <2> QED
    BY <1>0, <2>1, <2>2, ShowKeeps DEF ChannelGet
<1>4. CASE HandleUpdateChannel(c)
  <2>1. PICK t \in Tenant, id \in Ids, active \in BOOLEAN : ChannelUpdate(c, t, id, active)
    BY <1>4 DEF HandleUpdateChannel
  <2>2. DbStep(db, nextId, UpdateNotificationChannel(db, id, t, active), nextId, t)
    BY <1>0, UpdateNotificationChannelStep
  <2> QED
    BY <1>0, <2>1, <2>2, TenantWriteKeeps DEF ChannelUpdate
<1>5. CASE HandleDeleteChannel(c)
  <2>1. PICK t \in Tenant, id \in Ids : ChannelDelete(c, t, id)
    BY <1>5 DEF HandleDeleteChannel
  <2>2. DbStep(db, nextId, DeleteNotificationChannel(db, id, t), nextId, t)
    BY <1>0, DeleteNotificationChannelStep
  <2> QED
    BY <1>0, <2>1, <2>2, TenantWriteKeeps DEF ChannelDelete
<1> QED
  BY <1>1, <1>2, <1>3, <1>4, <1>5 DEF RegisterNotificationChannelRoutes

\* The audit log.
LEMMA AuditKeeps ==
    ASSUME ApiInv, NEW c \in Client, RegisterAuditRoutes(c)
    PROVE  ApiInv'
<1>0. /\ DbInv(db, nextId) /\ nextId \in Nat \ {0} /\ "audit_logs" \in Tables
      /\ "audit_logs" \in TenantTables
      /\ \A t : IsFiniteSet(OfTenant(db.audit_logs, t))
  BY FiniteTables DEF ApiInv, Tables, TenantTables
<1>1. CASE HandleListAudit(c)
  <2>1. PICK t \in Tenant, p \in Pages : AuditList(c, t, p)
    BY <1>1 DEF HandleListAudit
  <2>2. area = "audit"
    BY <1>1 DEF HandleListAudit, MustTenantID
  <2> DEFINE rows == ListAuditLogs(db, t, p)
             next == [Request("listed", t, 0, 0, "null") EXCEPT !.size = Cardinality(rows)]
  <2>3. rows \subseteq OfTenant(db["audit_logs"], t)
    BY NewestPart DEF ListAuditLogs
  <2>4. /\ Step(t, "audit_logs", rows, db) /\ Proceed(c, next)
        /\ UNCHANGED <<nextId, overfull, racedNames>>
    BY <2>1 DEF AuditList
  <2> HIDE DEF rows
  <2>5. Cardinality(rows) \in Nat /\ Cardinality(rows) <= CountAuditLogs(db, t)
    BY <1>0, <2>3, PartCount DEF CountAuditLogs
  <2>6. /\ next \in RequestRow /\ next.at = "listed" /\ next.env = 0 /\ next.row = 0
        /\ next.tenant = t /\ next.size = Cardinality(rows)
    BY <2>5 DEF Request, RequestRow, OnEnvironment
  <2> HIDE DEF next
  <2>7. Typed(next)
    BY <1>0, <2>6 DEF Typed
  <2>8. Owns(next)
    <3>1. \A e \in db.environments : e.id # 0
      BY <1>0 DEF DbInv, DbTyped
    <3> QED
      BY <2>6, <3>1 DEF Owns
  <2>9. Counts(next) /\ Checks(next)
    BY <2>2, <2>5, <2>6 DEF Counts, Checks
  <2>10. Relies(next)
    BY <2>7, <2>8, <2>9 DEF Relies
  <2>11. \A r \in rows : OwnedBy(db, "audit_logs", r, t)
    BY <1>0, <2>3, TenantRowsOwned
  <2> QED
    BY <1>0, <2>4, <2>10, <2>11, ReadKeeps
<1>2. CASE AuditTotal(c)
  <2>1. req[c].at = "listed" /\ area = "audit"
    BY <1>2 DEF AuditTotal, At
  <2>2. req[c].at \in OnEnvironment
    BY <2>1 DEF OnEnvironment
  <2>3. req[c] \in RequestRow /\ req[c] # Idle /\ req[c].size \in Nat
    BY <2>2, RequestFacts DEF RequestRow
  <2>4. req[c].size <= CountAuditLogs(db, req[c].tenant) \/ req[c].raced
    BY <2>1, <2>3 DEF ApiInv, RequestInv, RequestCounted, Counts
  <2>5. CountAuditLogs(db, req[c].tenant) \in Nat
    BY <1>0, PartCount DEF CountAuditLogs
  <2>6. \A r \in {} : OwnedBy(db, "audit_logs", r, req[c].tenant)
    OBVIOUS
  <2> QED
    BY <1>0, <1>2, <2>3, <2>4, <2>5, <2>6, CompareKeeps DEF AuditTotal
<1>3. ASSUME NEW t, NEW part, part \subseteq OfTenant(db.audit_logs, t), NEW limit, NEW offset,
             Show(c, t, "audit_logs", Newest(part, limit, offset))
      PROVE  ApiInv'
  <2>1. Newest(part, limit, offset) \subseteq OfTenant(db["audit_logs"], t)
    BY <1>3, NewestPart
  <2> QED
    BY <1>0, <1>3, <2>1, ShowKeeps
<1>4. CASE HandleListByAction(c)
  <2>1. PICK t \in Tenant, p \in Pages, a \in AuditActions : AuditListByAction(c, t, a, p)
    BY <1>4 DEF HandleListByAction
  <2>2. {x \in OfTenant(db.audit_logs, t) : x.action = a} \subseteq OfTenant(db.audit_logs, t)
    OBVIOUS
  <2> QED
    BY <1>3, <2>1, <2>2 DEF AuditListByAction, ListAuditLogsByAction
<1>5. CASE HandleListByUser(c)
  <2>1. PICK t \in Tenant, user \in Tenant, p \in Pages : AuditListByUser(c, t, user, p)
    BY <1>5 DEF HandleListByUser
  <2>2. {x \in OfTenant(db.audit_logs, t) : x.user = user} \subseteq OfTenant(db.audit_logs, t)
    OBVIOUS
  <2> QED
    BY <1>3, <2>1, <2>2 DEF AuditListByUser, ListAuditLogsByUser
<1>6. CASE HandleListByResource(c)
  <2>1. PICK t \in Tenant, p \in Pages : AuditListByResource(c, t, p.limit)
    BY <1>6 DEF HandleListByResource
  <2>2. {x \in OfTenant(db.audit_logs, t) : x.resource = "environment"}
           \subseteq OfTenant(db.audit_logs, t)
    OBVIOUS
  <2> QED
    BY <1>3, <2>1, <2>2 DEF AuditListByResource, ListAuditLogsByResource
<1>7. CASE HandleListBetween(c)
  <2>1. PICK t \in Tenant, from \in Ids, to \in Ids, p \in Pages : AuditListBetween(c, t, from, to, p)
    BY <1>7 DEF HandleListBetween
  <2>2. {x \in OfTenant(db.audit_logs, t) : from <= x.id /\ x.id <= to}
           \subseteq OfTenant(db.audit_logs, t)
    OBVIOUS
  <2> QED
    BY <1>3, <2>1, <2>2 DEF AuditListBetween, ListAuditLogsBetween
<1> QED
  BY <1>1, <1>2, <1>4, <1>5, <1>6, <1>7 DEF RegisterAuditRoutes

\* A request goes on with a row it has named: a budget of its environment, or
\* the beginning of a period.
LEMMA WithRowRelies ==
    ASSUME ApiInv, NEW c \in Client, req[c].at \in OnEnvironment, NEW at \in {"patterns", "budget"},
           NEW row \in Ids,
           at = "budget" => \A b \in db.perf_budgets : b.id = row => b.env = req[c].env,
           NEW next, next = [Then(c, at, 0) EXCEPT !.row = row]
    PROVE  Relies(next)
<1>1. req[c] \in RequestRow /\ req[c].env < nextId
  BY RequestFacts
<1>2. row \in Nat /\ row < nextId
  BY DEF Ids, ApiInv
<1>3. /\ next \in RequestRow /\ next.at = at /\ next.env = req[c].env
      /\ next.row = row /\ next.tenant = req[c].tenant
  BY <1>1, <1>2 DEF Then, RequestRow, OnEnvironment
<1>4. Typed(next)
  BY <1>1, <1>2, <1>3 DEF Typed
<1>5. Owns(next)
  BY <1>3 DEF Owns, ApiInv, RequestInv, RequestOwns
<1>6. Counts(next) /\ Checks(next)
  BY <1>3 DEF Counts, Checks
<1> QED
  BY <1>4, <1>5, <1>6 DEF Relies

\* Recordings and N+1 patterns.
LEMMA ProfilerKeeps ==
    ASSUME ApiInv, NEW c \in Client,
           \/ HandleGetRecording(c) \/ HandleListRecordings(c) \/ ProfilerTotal(c)
           \/ HandleListSlowRecordings(c) \/ HandleListChainRecordings(c) \/ HandleGetChain(c)
           \/ HandleDetect(c) \/ N1RecordingPatterns(c) \/ HandleTimeline(c)
    PROVE  ApiInv'
<1>0. /\ DbInv(db, nextId) /\ nextId \in Nat
      /\ "profiler_recordings" \in EnvTables /\ "orm_stats" \in EnvTables
      /\ IsFiniteSet(OfEnv(db.profiler_recordings, req[c].env))
  BY FiniteTables DEF ApiInv, Tables, EnvTables
<1>1. ASSUME NEW rows, rows \subseteq OfEnv(db.profiler_recordings, Env(c)),
             Authorized(c, "profiler"), Read(c, "profiler_recordings", rows)
      PROVE  ApiInv'
  <2>1. req[c].at \in OnEnvironment
    BY <1>1, AuthorizedAt
  <2> QED
    BY <1>0, <1>1, <2>1, ReadOfEnv DEF Env
<1>2. CASE HandleGetRecording(c)
  BY <1>1, <1>2 DEF HandleGetRecording, ProfilerGetRecording, GetProfilerRecording, WithId
<1>3. CASE HandleListRecordings(c)
  <2>1. PICK p \in Pages : ProfilerListRecordings(c, p)
    BY <1>3 DEF HandleListRecordings
  <2> DEFINE rows == ListProfilerRecordings(db, Env(c), p)
             next == Then(c, "listed", Cardinality(rows))
  <2>2. rows \subseteq OfEnv(db.profiler_recordings, req[c].env)
    BY NewestPart DEF ListProfilerRecordings, Env
  <2>3. req[c].at \in OnEnvironment /\ area = "profiler"
    BY <2>1, AuthorizedAt DEF ProfilerListRecordings
  <2>4. /\ Continue(c, next, "profiler_recordings", rows)
        /\ next = Then(c, "listed", Cardinality(rows))
    BY <2>1 DEF ProfilerListRecordings
  <2> HIDE DEF rows
  <2>5. Cardinality(rows) \in Nat /\ Cardinality(rows) <= CountRecordingsByEnv(db, req[c].env)
    BY <1>0, <2>2, PartCount DEF CountRecordingsByEnv
  <2>6. next.at = "listed" /\ next.size = Cardinality(rows) /\ next.env = req[c].env
    BY <2>3, <2>5, RequestFacts DEF Then, RequestRow
  <2> HIDE DEF next
  <2>7. Counts(next)
    BY <2>3, <2>5, <2>6 DEF Counts
  <2>8. "listed" \in OnEnvironment \ {"budget", "trend"}
    BY DEF OnEnvironment
  <2>9. Relies(next)
    BY <2>3, <2>4, <2>5, <2>7, <2>8, ThenRelies
  <2> QED
    BY <1>0, <2>2, <2>3, <2>4, <2>9, ContinueOfEnv
<1>4. CASE ProfilerTotal(c)
  <2>1. req[c].at = "listed" /\ area = "profiler"
    BY <1>4 DEF ProfilerTotal, At
  <2>2. req[c].at \in OnEnvironment
    BY <2>1 DEF OnEnvironment
  <2>3. req[c] \in RequestRow /\ req[c] # Idle /\ req[c].size \in Nat
    BY <2>2, RequestFacts DEF RequestRow
  <2>4. req[c].size <= CountRecordingsByEnv(db, Env(c)) \/ req[c].raced
    BY <2>1, <2>3 DEF ApiInv, RequestInv, RequestCounted, Counts, Env
  <2>5. CountRecordingsByEnv(db, Env(c)) \in Nat
    BY <1>0, PartCount DEF CountRecordingsByEnv, Env
  <2>6. {} \subseteq OfEnv(db["profiler_recordings"], req[c].env)
    OBVIOUS
  <2> QED
    BY <1>0, <1>4, <2>2, <2>3, <2>4, <2>5, <2>6, CompareOfEnv DEF ProfilerTotal
<1>5. CASE HandleListSlowRecordings(c)
  <2>1. PICK p \in Pages : ProfilerListSlow(c, p.limit)
    BY <1>5 DEF HandleListSlowRecordings
  <2>2. ListSlowRecordings(db, Env(c), p.limit) \subseteq OfEnv(db.profiler_recordings, Env(c))
    BY NewestPart DEF ListSlowRecordings
  <2> QED
    BY <1>1, <2>1, <2>2 DEF ProfilerListSlow
<1>6. CASE HandleListChainRecordings(c)
  <2>1. PICK p \in Pages : ProfilerListChain(c, p)
    BY <1>6 DEF HandleListChainRecordings
  <2>2. ListRecordingsWithChain(db, Env(c), p) \subseteq OfEnv(db.profiler_recordings, Env(c))
    BY NewestPart DEF ListRecordingsWithChain
  <2> QED
    BY <1>1, <2>1, <2>2 DEF ProfilerListChain
<1>7. CASE HandleGetChain(c)
  <2>1. PICK id \in Ids : ProfilerGetChain(c, id)
    BY <1>7 DEF HandleGetChain
  <2>2. {r \in GetProfilerRecording(db, id, Env(c)) : r.has_chain}
           \subseteq OfEnv(db.profiler_recordings, Env(c))
    BY DEF GetProfilerRecording, WithId
  <2> QED
    BY <1>1, <2>1, <2>2 DEF ProfilerGetChain
<1>8. CASE HandleDetect(c)
  <2>1. PICK since \in Ids, p \in Pages : N1Detect(c, since, p.limit)
    BY <1>8 DEF HandleDetect
  <2>2. req[c].at \in OnEnvironment
    BY <2>1, AuthorizedAt DEF N1Detect
  <2> DEFINE next == [Then(c, "patterns", 0) EXCEPT !.row = since]
  <2>3. Continue(c, next, "orm_stats", GetN1PatternsSummary(db, Env(c), since, p.limit))
    BY <2>1 DEF N1Detect
  <2>4. Relies(next)
    BY <2>2, WithRowRelies
  <2>5. GetN1PatternsSummary(db, Env(c), since, p.limit) \subseteq OfEnv(db["orm_stats"], req[c].env)
    BY NewestPart DEF GetN1PatternsSummary, N1Stats, Env
  <2> HIDE DEF next
  <2> QED
    BY <1>0, <2>2, <2>3, <2>4, <2>5, ContinueOfEnv
<1>9. CASE N1RecordingPatterns(c)
  <2>1. req[c].at \in OnEnvironment
    BY <1>9 DEF N1RecordingPatterns, At, OnEnvironment
  <2>2. ListN1RecordingPatterns(db, Env(c), req[c].row)
           \subseteq OfEnv(db["profiler_recordings"], req[c].env)
    BY DEF ListN1RecordingPatterns, Env
  <2> QED
    BY <1>0, <1>9, <2>1, <2>2, ReadOfEnv DEF N1RecordingPatterns
<1>10. CASE HandleTimeline(c)
  <2>1. PICK since \in Ids, p \in Pages : N1GetTimeline(c, since, p.limit)
    BY <1>10 DEF HandleTimeline
  <2>2. req[c].at \in OnEnvironment
    BY <2>1, AuthorizedAt DEF N1GetTimeline
  <2>3. GetN1Timeline(db, Env(c), since, p.limit) \subseteq OfEnv(db["orm_stats"], req[c].env)
    BY NewestPart DEF GetN1Timeline, N1Stats, Env
  <2> QED
    BY <1>0, <2>1, <2>2, <2>3, ReadOfEnv DEF N1GetTimeline
<1> QED
  BY <1>2, <1>3, <1>4, <1>5, <1>6, <1>7, <1>8, <1>9, <1>10

\* Schema snapshots and migration scans.
LEMMA SchemasKeep ==
    ASSUME ApiInv, NEW c \in Client,
           \/ HandleStore(c) \/ HandleGetLatestSchema(c) \/ HandleSearchModels(c)
           \/ HandleGetSnapshot(c) \/ SchemaCounted(c) \/ HandleListSnapshots(c)
           \/ HandleRunScan(c) \/ MigrationRunScan(c) \/ HandleGetScan(c) \/ HandleGetLatestScan(c)
           \/ HandleListScans(c) \/ HandleDeleteScan(c)
    PROVE  ApiInv'
<1>0. /\ DbInv(db, nextId) /\ nextId \in Nat \ {0}
      /\ "schema_snapshots" \in EnvTables /\ "migration_scans" \in EnvTables
      /\ IsFiniteSet(OfEnv(db.schema_snapshots, req[c].env))
  BY FiniteTables DEF ApiInv, Tables, EnvTables
<1>1. CASE HandleStore(c)
  <2>1. req[c].at \in OnEnvironment
    BY <1>1, AuthorizedAt DEF HandleStore, SchemaStore
  <2>2. \A e \in db.environments : e.id = Env(c) => e.tenant = req[c].tenant
    BY <2>1 DEF ApiInv, RequestInv, RequestOwns, Owns, Env
  <2>3. DbStep(db, nextId, CreateSchemaSnapshot(db, [id |-> nextId, env |-> Env(c)]), nextId + 1,
               req[c].tenant)
    BY <1>0, <2>2, CreateSchemaSnapshotStep
  <2> QED
    BY <1>1, <2>3, InsertKeeps DEF HandleStore, SchemaStore
<1>2. ASSUME NEW table \in {"schema_snapshots", "migration_scans"}, NEW rows,
             rows \subseteq OfEnv(db[table], Env(c)), Authorized(c, "schema"), Read(c, table, rows)
      PROVE  ApiInv'
  <2>1. req[c].at \in OnEnvironment
    BY <1>2, AuthorizedAt
  <2> QED
    BY <1>0, <1>2, <2>1, ReadOfEnv DEF Env
<1>3. CASE SchemaGetLatest(c)
  <2>1. GetLatestSchema(db, Env(c)) \subseteq OfEnv(db["schema_snapshots"], Env(c))
    BY NewestPart DEF GetLatestSchema
  <2> QED
    BY <1>2, <1>3, <2>1 DEF SchemaGetLatest
<1>4. CASE HandleGetSnapshot(c)
  <2>1. PICK id \in Ids : SchemaGetSnapshot(c, id)
    BY <1>4 DEF HandleGetSnapshot
  <2>2. GetSchemaByID(db, id, Env(c)) \subseteq OfEnv(db["schema_snapshots"], Env(c))
    BY DEF GetSchemaByID, WithId
  <2> QED
    BY <1>2, <2>1, <2>2 DEF SchemaGetSnapshot
<1>5. CASE SchemaCounted(c)
  <2> DEFINE size == CountSchemasByEnv(db, Env(c))
             next == Then(c, "counted", size)
  <2>1. req[c].at \in OnEnvironment /\ area = "schema"
    BY <1>5, AuthorizedAt DEF SchemaCounted
  <2>2. size \in Nat /\ size = CountSchemasByEnv(db, req[c].env)
    BY <1>0, PartCount DEF CountSchemasByEnv, Env
  <2>3. next = Then(c, "counted", size) /\ Continue(c, next, "schema_snapshots", {})
    BY <1>5 DEF SchemaCounted
  <2> HIDE DEF size
  <2>4. next.at = "counted" /\ next.size = size /\ next.env = req[c].env
    BY <2>1, <2>2, RequestFacts DEF Then, RequestRow
  <2> HIDE DEF next
  <2>5. Counts(next)
    BY <2>1, <2>2, <2>4 DEF Counts
  <2>6. "counted" \in OnEnvironment \ {"budget", "trend"}
    BY DEF OnEnvironment
  <2>7. Relies(next)
    BY <2>1, <2>2, <2>3, <2>5, <2>6, ThenRelies
  <2>8. {} \subseteq OfEnv(db["schema_snapshots"], req[c].env)
    OBVIOUS
  <2> QED
    BY <1>0, <2>1, <2>3, <2>7, <2>8, ContinueOfEnv
<1>6. CASE HandleListSnapshots(c)
  <2>1. PICK p \in Pages : SchemaListSnapshots(c, p.limit)
    BY <1>6 DEF HandleListSnapshots
  <2>2. req[c].at = "counted" /\ area = "schema"
    BY <2>1 DEF SchemaListSnapshots, At
  <2>3. req[c].at \in OnEnvironment
    BY <2>2 DEF OnEnvironment
  <2> DEFINE rows == ListSchemaSnapshots(db, Env(c), p.limit)
  <2>4. rows \subseteq OfEnv(db["schema_snapshots"], req[c].env)
    BY NewestPart DEF ListSchemaSnapshots, Env
  <2>5. Compare(c, Idle, "schema_snapshots", rows, Cardinality(rows), req[c].size)
    BY <2>1 DEF SchemaListSnapshots
  <2> HIDE DEF rows
  <2>6. Cardinality(rows) \in Nat /\ Cardinality(rows) <= CountSchemasByEnv(db, req[c].env)
    BY <1>0, <2>4, PartCount DEF CountSchemasByEnv
  <2>7. req[c] \in RequestRow /\ req[c] # Idle /\ req[c].size \in Nat
    BY <2>3, RequestFacts DEF RequestRow
  <2>8. Cardinality(rows) <= req[c].size \/ req[c].raced
    BY <2>2, <2>6, <2>7 DEF ApiInv, RequestInv, RequestCounted, Counts
  <2> QED
    BY <1>0, <2>3, <2>4, <2>5, <2>6, <2>7, <2>8, CompareOfEnv
<1>7. ASSUME NEW rows, rows \subseteq OfEnv(db["schema_snapshots"], Env(c)),
             MigrationLoadSnapshot(c, rows)
      PROVE  ApiInv'
  <2>1. req[c].at \in OnEnvironment
    BY <1>7, AuthorizedAt DEF MigrationLoadSnapshot
  <2>2. Relies(Then(c, "scanning", 0))
    BY <2>1, ThenCounts DEF OnEnvironment
  <2> QED
    BY <1>0, <1>7, <2>1, <2>2, ContinueOfEnv DEF MigrationLoadSnapshot, Env
<1>8. CASE HandleRunScan(c)
  <2>1. GetLatestSchema(db, Env(c)) \subseteq OfEnv(db["schema_snapshots"], Env(c))
    BY NewestPart DEF GetLatestSchema
  <2>2. \A id : GetSchemaByID(db, id, Env(c)) \subseteq OfEnv(db["schema_snapshots"], Env(c))
    BY DEF GetSchemaByID, WithId
  <2> QED
    BY <1>7, <1>8, <2>1, <2>2 DEF HandleRunScan
<1>9. CASE MigrationRunScan(c)
  <2>1. req[c].at \in OnEnvironment
    BY <1>9 DEF MigrationRunScan, At, OnEnvironment
  <2>2. \A e \in db.environments : e.id = Env(c) => e.tenant = req[c].tenant
    BY <2>1 DEF ApiInv, RequestInv, RequestOwns, Owns, Env
  <2>3. DbStep(db, nextId, CreateMigrationScan(db, [id |-> nextId, env |-> Env(c)]), nextId + 1,
               req[c].tenant)
    BY <1>0, <2>2, InsertPlainStep
  <2> QED
    BY <1>9, <2>3, InsertKeeps DEF MigrationRunScan
<1>10. CASE HandleGetScan(c) \/ HandleGetLatestScan(c) \/ HandleListScans(c)
  <2>1. CASE HandleGetScan(c)
    <3>1. \A id : GetMigrationScan(db, id, Env(c)) \subseteq OfEnv(db["migration_scans"], Env(c))
      BY DEF GetMigrationScan, WithId
    <3> QED
      BY <1>2, <2>1, <3>1 DEF HandleGetScan, MigrationGetScan
  <2>2. CASE HandleGetLatestScan(c)
    <3>1. GetLatestMigrationScan(db, Env(c)) \subseteq OfEnv(db["migration_scans"], Env(c))
      BY NewestPart DEF GetLatestMigrationScan
    <3> QED
      BY <1>2, <2>2, <3>1 DEF HandleGetLatestScan, MigrationGetLatest
  <2>3. CASE HandleListScans(c)
    <3>1. \A p : ListMigrationScans(db, Env(c), p) \subseteq OfEnv(db["migration_scans"], Env(c))
      BY NewestPart DEF ListMigrationScans
    <3> QED
      BY <1>2, <2>3, <3>1 DEF HandleListScans, MigrationListScans
  <2> QED
    BY <1>10, <2>1, <2>2, <2>3
<1>11. CASE HandleDeleteScan(c)
  <2>1. PICK id \in Ids : MigrationDeleteScan(c, id)
    BY <1>11 DEF HandleDeleteScan
  <2>2. req[c].at \in OnEnvironment
    BY <2>1, AuthorizedAt DEF MigrationDeleteScan
  <2>3. \A e \in db.environments : e.id = Env(c) => e.tenant = req[c].tenant
    BY <2>2 DEF ApiInv, RequestInv, RequestOwns, Owns, Env
  <2>4. DbStep(db, nextId, DeleteMigrationScan(db, id, Env(c)), nextId, req[c].tenant)
    BY <1>0, <2>3, DeleteMigrationScanStep
  <2> QED
    BY <2>1, <2>4, WriteKeeps DEF MigrationDeleteScan
<1> QED
  BY <1>1, <1>3, <1>4, <1>5, <1>6, <1>8, <1>9, <1>10, <1>11
     DEF HandleGetLatestSchema, HandleSearchModels

\* Samples of a budget of the request's environment are the tenant's.
LEMMA SamplesOwned ==
    ASSUME ApiInv, NEW c \in Client, req[c].at \in {"budget", "trend"},
           NEW rows, rows \subseteq OfBudget(db, req[c].row)
    PROVE  /\ "perf_budget_samples" \in Tables
           /\ \A s \in rows : OwnedBy(db, "perf_budget_samples", s, req[c].tenant)
<1>1. /\ \A e \in db.environments : e.id = req[c].env => e.tenant = req[c].tenant
      /\ \A b \in db.perf_budgets : b.id = req[c].row => b.env = req[c].env
  BY DEF ApiInv, RequestInv, RequestOwns, Owns, OnEnvironment
<1>2. ASSUME NEW s \in rows
      PROVE  OwnedBy(db, "perf_budget_samples", s, req[c].tenant)
  <2>1. s \in db.perf_budget_samples /\ s.budget = req[c].row
    BY DEF OfBudget
  <2>2. PICK b \in db.perf_budgets : b.id = s.budget
    BY <2>1 DEF ApiInv, DbInv, DbReferences
  <2>3. PICK e \in db.environments : e.id = b.env
    BY DEF ApiInv, DbInv, DbReferences, EnvTables
  <2> QED
    BY <1>1, <2>1, <2>2, <2>3 DEF OwnedBy, TenantTables, EnvTables
<1> QED
  BY <1>2 DEF Tables

\* Performance budgets and their samples.
LEMMA BudgetsKeep ==
    ASSUME ApiInv, NEW c \in Client,
           \/ HandleCreateBudget(c) \/ HandleListBudgets(c) \/ HandleUpdateBudget(c)
           \/ HandleDeleteBudget(c) \/ HandleGetBudget(c) \/ HandleGetTrend(c)
           \/ HandleListSamples(c) \/ HandleGetBreakdown(c)
    PROVE  ApiInv'
<1>0. DbInv(db, nextId) /\ nextId \in Nat \ {0} /\ "perf_budgets" \in EnvTables
  BY DEF ApiInv, EnvTables
<1>1. ASSUME Authorized(c, "budgets")
      PROVE  /\ req[c].at \in OnEnvironment /\ req[c].env \in Nat
             /\ \A e \in db.environments : e.id = Env(c) => e.tenant = req[c].tenant
  <2>1. req[c].at \in OnEnvironment
    BY <1>1, AuthorizedAt
  <2> QED
    BY <2>1, RequestFacts DEF RequestRow, ApiInv, RequestInv, RequestOwns, Owns, Env
<1>2. CASE HandleCreateBudget(c)
  <2>1. PICK module \in Names : BudgetCreate(c, module)
    BY <1>2 DEF HandleCreateBudget
  <2> DEFINE row == [id |-> nextId, env |-> Env(c), module |-> module, is_active |-> TRUE]
  <2>2. Env(c) \in Nat
    BY <1>1, <2>1 DEF BudgetCreate, Env
  <2>3. /\ row \in BudgetRow /\ row.id = nextId
        /\ \A e \in db.environments : e.id = row.env => e.tenant = req[c].tenant
    BY <1>0, <1>1, <2>1, <2>2 DEF BudgetRow, BudgetCreate
  <2>4. Insert(c, req[c].tenant, CreatePerfBudget(db, row))
    BY <2>1 DEF BudgetCreate
  <2> HIDE DEF row
  <2>5. DbStep(db, nextId, CreatePerfBudget(db, row), nextId + 1, req[c].tenant)
    BY <1>0, <2>3, CreatePerfBudgetStep
  <2> QED
    BY <2>4, <2>5, InsertKeeps
<1>3. CASE HandleListBudgets(c)
  <2>1. PICK inactive \in BOOLEAN : BudgetList(c, inactive)
    BY <1>3 DEF HandleListBudgets
  <2> DEFINE rows == IF inactive THEN ListAllPerfBudgetsByEnv(db, Env(c)) ELSE ListPerfBudgets(db, Env(c))
  <2>2. Read(c, "perf_budgets", rows) /\ Authorized(c, "budgets")
    BY <2>1 DEF BudgetList
  <2>3. rows \subseteq OfEnv(db["perf_budgets"], req[c].env)
    BY DEF ListAllPerfBudgetsByEnv, ListPerfBudgets, Env
  <2> HIDE DEF rows
  <2> QED
    BY <1>0, <1>1, <2>2, <2>3, ReadOfEnv
<1>4. CASE HandleUpdateBudget(c)
  <2>1. PICK id \in Ids, active \in BOOLEAN : BudgetUpdate(c, id, active)
    BY <1>4 DEF HandleUpdateBudget
  <2>2. DbStep(db, nextId, UpdatePerfBudget(db, id, Env(c), active), nextId, req[c].tenant)
    BY <1>0, <1>1, <2>1, UpdatePerfBudgetStep DEF BudgetUpdate
  <2> QED
    BY <2>1, <2>2, WriteKeeps DEF BudgetUpdate
<1>5. CASE HandleDeleteBudget(c)
  <2>1. PICK id \in Ids : BudgetDelete(c, id)
    BY <1>5 DEF HandleDeleteBudget
  <2>2. DbStep(db, nextId, DeletePerfBudget(db, id, Env(c)), nextId, req[c].tenant)
    BY <1>0, <1>1, <2>1, DeletePerfBudgetStep DEF BudgetDelete
  <2> QED
    BY <2>1, <2>2, WriteKeeps DEF BudgetDelete
<1>6. ASSUME NEW id \in Ids, BudgetVerified(c, id)
      PROVE  ApiInv'
  <2> DEFINE next == [Then(c, "budget", 0) EXCEPT !.row = id]
             rows == GetPerfBudget(db, id, Env(c))
  <2>1. /\ Authorized(c, "budgets") /\ rows # {} /\ Continue(c, next, "perf_budgets", rows)
    BY <1>6 DEF BudgetVerified
  <2>2. rows \subseteq OfEnv(db["perf_budgets"], req[c].env)
    BY DEF GetPerfBudget, WithId, Env
  <2>3. PICK b \in db.perf_budgets : b.id = id /\ b.env = req[c].env
    BY <2>1 DEF GetPerfBudget, WithId, OfEnv, Env
  <2>4. \A k \in db.perf_budgets : k.id = id => k.env = req[c].env
    BY <1>0, <2>3 DEF DbInv, DbKeys
  <2>5. Relies(next)
    BY <1>1, <2>1, <2>4, WithRowRelies
  <2> HIDE DEF next, rows
  <2> QED
    BY <1>0, <1>1, <2>1, <2>2, <2>5, ContinueOfEnv
<1>7. CASE BudgetGetByID(c)
  <2> DEFINE next == [req[c] EXCEPT !.at = "trend"]
             rows == GetLatestBudgetSample(db, req[c].row)
  <2>1. req[c].at = "budget" /\ Continue(c, next, "perf_budget_samples", rows)
    BY <1>7 DEF BudgetGetByID, At
  <2>2. rows \subseteq OfBudget(db, req[c].row)
    BY NewestPart DEF GetLatestBudgetSample
  <2>3. req[c] \in RequestRow /\ req[c].env < nextId /\ req[c].row < nextId
    BY <2>1, RequestFacts DEF OnEnvironment
  <2>4. /\ next \in RequestRow /\ next.at = "trend" /\ next.env = req[c].env
        /\ next.row = req[c].row /\ next.tenant = req[c].tenant
    BY <2>3 DEF RequestRow, OnEnvironment
  <2> HIDE DEF next, rows
  <2>5. Typed(next)
    BY <2>3, <2>4 DEF Typed
  <2>6. Owns(next)
    BY <2>1, <2>4 DEF Owns, ApiInv, RequestInv, RequestOwns, OnEnvironment
  <2>7. Counts(next) /\ Checks(next)
    BY <2>4 DEF Counts, Checks
  <2>8. Relies(next)
    BY <2>5, <2>6, <2>7 DEF Relies
  <2>9. /\ "perf_budget_samples" \in Tables
        /\ \A s \in rows : OwnedBy(db, "perf_budget_samples", s, req[c].tenant)
    BY <2>1, <2>2, SamplesOwned
  <2> QED
    BY <2>1, <2>8, <2>9, ReadKeeps DEF Continue
<1>8. ASSUME req[c].at \in {"budget", "trend"}, NEW rows, rows \subseteq OfBudget(db, req[c].row),
             Read(c, "perf_budget_samples", rows)
      PROVE  ApiInv'
  <2>1. /\ "perf_budget_samples" \in Tables
        /\ \A s \in rows : OwnedBy(db, "perf_budget_samples", s, req[c].tenant)
    BY <1>8, SamplesOwned
  <2> QED
    BY <1>8, <2>1, ReadKeeps DEF Read, Reply
<1>9. CASE HandleGetTrend(c)
  <2>1. \A since : GetBudgetAverage7d(db, req[c].row, since) \subseteq OfBudget(db, req[c].row)
    BY DEF GetBudgetAverage7d
  <2> QED
    BY <1>8, <1>9, <2>1 DEF HandleGetTrend, BudgetGetTrend
<1>10. CASE HandleListSamples(c)
  <2>1. \A limit : ListBudgetSamples(db, req[c].row, limit) \subseteq OfBudget(db, req[c].row)
    BY NewestPart DEF ListBudgetSamples
  <2> QED
    BY <1>8, <1>10, <2>1 DEF HandleListSamples, BudgetListSamples, At
<1>11. CASE HandleGetBreakdown(c)
  <2>1. \A sample : GetBudgetSampleByID(db, sample, req[c].row) \subseteq OfBudget(db, req[c].row)
    BY DEF GetBudgetSampleByID, WithId
  <2> QED
    BY <1>8, <1>11, <2>1 DEF HandleGetBreakdown, BudgetGetBreakdown, At
<1> QED
  BY <1>2, <1>3, <1>4, <1>5, <1>6, <1>7, <1>9, <1>10, <1>11 DEF HandleGetBudget

\* The overview, statement by statement.
LEMMA OverviewKeeps ==
    ASSUME ApiInv, NEW c \in Client, GetOverview(c)
    PROVE  ApiInv'
<1>0. /\ "agent_heartbeats" \in EnvTables /\ "error_groups" \in EnvTables
      /\ "profiler_recordings" \in EnvTables /\ "orm_stats" \in EnvTables
      /\ "alerts" \in EnvTables /\ "perf_budgets" \in EnvTables
      /\ IsFiniteSet(OfEnv(db.error_groups, req[c].env))
      /\ IsFiniteSet(OfEnv(db.profiler_recordings, req[c].env))
  BY FiniteTables DEF Tables, EnvTables
<1>1. req[c].at \in OnEnvironment
  BY AuthorizedAt DEF GetOverview, PopulateAgent, PopulateErrorsTotal, PopulateErrors,
     PopulateProfilerTotal, PopulateProfiler, PopulateN1, PopulateAlerts, PopulateBudgets, At,
     OnEnvironment
<1>2. req[c] \in RequestRow /\ req[c] # Idle /\ req[c].size \in Nat
  BY <1>1, RequestFacts DEF RequestRow
<1>3. ASSUME NEW at \in {"agent", "errors", "profiler", "n1", "alerts"}
      PROVE  Relies(Then(c, at, 0))
  BY <1>1, <1>3, ThenCounts DEF OnEnvironment
<1>4. CASE PopulateAgent(c)
  <2>1. GetLatestHeartbeat(db, Env(c)) \subseteq OfEnv(db["agent_heartbeats"], req[c].env)
    BY NewestPart DEF GetLatestHeartbeat, Env
  <2> QED
    BY <1>0, <1>1, <1>3, <1>4, <2>1, ContinueOfEnv DEF PopulateAgent
<1>5. ASSUME NEW at, NEW size, NEW table,
             \/ /\ at = "total_errors" /\ table = "error_groups"
                /\ size = CountErrorGroupsByEnv(db, Env(c))
             \/ /\ at = "total_recordings" /\ table = "profiler_recordings"
                /\ size = CountRecordingsByEnv(db, Env(c)),
             Continue(c, Then(c, at, size), table, {})
      PROVE  ApiInv'
  <2> DEFINE next == Then(c, at, size)
  <2>1. /\ size \in Nat
        /\ at = "total_errors" => size = CountErrorGroupsByEnv(db, req[c].env)
        /\ at = "total_recordings" => size = CountRecordingsByEnv(db, req[c].env)
    BY <1>0, <1>5, PartCount DEF CountErrorGroupsByEnv, CountRecordingsByEnv, Env
  <2>2. next.at = at /\ next.size = size /\ next.env = req[c].env
    BY <1>2, <2>1 DEF Then, RequestRow
  <2>3. next = Then(c, at, size)
    OBVIOUS
  <2> HIDE DEF next
  <2>4. Counts(next)
    BY <1>5, <2>1, <2>2 DEF Counts
  <2>5. at \in OnEnvironment \ {"budget", "trend"}
    BY <1>5 DEF OnEnvironment
  <2>6. Relies(next)
    BY <1>1, <2>1, <2>3, <2>4, <2>5, ThenRelies
  <2>7. {} \subseteq OfEnv(db[table], req[c].env)
    OBVIOUS
  <2> QED
    BY <1>0, <1>1, <1>5, <2>3, <2>6, <2>7, ContinueOfEnv
<1>6. CASE PopulateErrorsTotal(c) \/ PopulateProfilerTotal(c)
  BY <1>5, <1>6 DEF PopulateErrorsTotal, PopulateProfilerTotal
<1>7. CASE PopulateErrors(c)
  <2> DEFINE part == CountErrorGroupsByStatus(db, Env(c), "open")
  <2>1. /\ req[c].at = "total_errors"
        /\ Compare(c, Then(c, "errors", 0), "error_groups", {}, part, req[c].size)
    BY <1>7 DEF PopulateErrors, At
  <2>2. ByStatus(OfEnv(db.error_groups, req[c].env), "open") \subseteq OfEnv(db.error_groups, req[c].env)
    BY DEF ByStatus
  <2>3. part \in Nat /\ part <= CountErrorGroupsByEnv(db, req[c].env)
    BY <1>0, <2>2, PartCount DEF CountErrorGroupsByStatus, CountErrorGroupsByEnv, Env
  <2> HIDE DEF part
  <2>4. part <= req[c].size \/ req[c].raced
    BY <1>2, <2>1, <2>3 DEF ApiInv, RequestInv, RequestCounted, Counts
  <2>5. {} \subseteq OfEnv(db["error_groups"], req[c].env)
    OBVIOUS
  <2> QED
    BY <1>0, <1>1, <1>2, <1>3, <2>1, <2>3, <2>4, <2>5, CompareOfEnv
<1>8. CASE PopulateProfiler(c)
  <2> DEFINE rows == ListRecordingsWithChain(db, Env(c), [limit |-> MaxRows, offset |-> 0])
  <2>1. /\ req[c].at = "total_recordings"
        /\ Compare(c, Then(c, "profiler", 0), "profiler_recordings", rows, Cardinality(rows),
                   req[c].size)
    BY <1>8 DEF PopulateProfiler, At
  <2>2. rows \subseteq OfEnv(db["profiler_recordings"], req[c].env)
    BY NewestPart DEF ListRecordingsWithChain, Env
  <2> HIDE DEF rows
  <2>3. Cardinality(rows) \in Nat /\ Cardinality(rows) <= CountRecordingsByEnv(db, req[c].env)
    BY <1>0, <2>2, PartCount DEF CountRecordingsByEnv
  <2>4. Cardinality(rows) <= req[c].size \/ req[c].raced
    BY <1>2, <2>1, <2>3 DEF ApiInv, RequestInv, RequestCounted, Counts
  <2> QED
    BY <1>0, <1>1, <1>2, <1>3, <2>1, <2>2, <2>3, <2>4, CompareOfEnv
<1>9. CASE PopulateN1(c)
  <2>1. PICK since \in Ids : Continue(c, Then(c, "n1", 0), "orm_stats",
                                      GetN1PatternsSummary(db, Env(c), since, MaxRows))
    BY <1>9 DEF PopulateN1
  <2>2. GetN1PatternsSummary(db, Env(c), since, MaxRows) \subseteq OfEnv(db["orm_stats"], req[c].env)
    BY NewestPart DEF GetN1PatternsSummary, N1Stats, Env
  <2> QED
    BY <1>0, <1>1, <1>3, <2>1, <2>2, ContinueOfEnv
<1>10. CASE PopulateAlerts(c)
  <2>1. Unacknowledged(db, Env(c)) \subseteq OfEnv(db["alerts"], req[c].env)
    BY DEF Unacknowledged, Env
  <2> QED
    BY <1>0, <1>1, <1>3, <1>10, <2>1, ContinueOfEnv DEF PopulateAlerts
<1>11. CASE PopulateBudgets(c)
  <2>1. ListAllPerfBudgetsByEnv(db, Env(c)) \subseteq OfEnv(db["perf_budgets"], req[c].env)
    BY DEF ListAllPerfBudgetsByEnv, Env
  <2> QED
    BY <1>0, <1>1, <1>11, <2>1, ReadOfEnv DEF PopulateBudgets
<1> QED
  BY <1>4, <1>6, <1>7, <1>8, <1>9, <1>10, <1>11 DEF GetOverview

\* The statements of the workers write the workers' tables alone.
LEMMA BatchWrites ==
    ASSUME DbInv(db, nextId), NEW row, NEW u \in Tables \ BatchTables
    PROVE  /\ CreateAlert(db, row)[u] = db[u]
           /\ CreateProfilerRecording(db, row)[u] = db[u]
           /\ InsertORMStat(db, row)[u] = db[u]
           /\ UpsertErrorGroup(db, row)[u] = db[u]
           /\ InsertBudgetSample(db, row)[u] = db[u]
<1>1. db = [x \in Tables |-> db[x]]
  BY DEF DbInv, DbTyped
<1>2. ASSUME NEW table \in BatchTables
      PROVE  InsertOfEnv(db, table, row)[u] = db[u]
  <2>1. u # table
    OBVIOUS
  <2> QED
    BY <1>1, <2>1 DEF InsertOfEnv
<1>3. /\ "alerts" \in BatchTables /\ "profiler_recordings" \in BatchTables
      /\ "orm_stats" \in BatchTables /\ "error_groups" \in BatchTables
      /\ "perf_budget_samples" \in BatchTables
  BY DEF BatchTables
<1>4. UpsertErrorGroup(db, row)[u] = db[u]
  <2>1. u # "error_groups"
    BY <1>3
  <2>2. InsertOfEnv(db, "error_groups", row)[u] = db[u]
    BY <1>2, <1>3
  <2> QED
    BY <1>1, <2>1, <2>2 DEF UpsertErrorGroup
<1>5. InsertBudgetSample(db, row)[u] = db[u]
  <2>1. u # "perf_budget_samples"
    BY <1>3
  <2> QED
    BY <1>1, <2>1 DEF InsertBudgetSample
<1> QED
  BY <1>2, <1>3, <1>4, <1>5 DEF CreateAlert, CreateProfilerRecording, InsertORMStat

\* The workers store what agents and requests leave.
LEMMA StoredKeeps ==
    ASSUME ApiInv, Stored
    PROVE  ApiInv'
<1>0. DbInv(db, nextId) /\ nextId \in Nat \ {0} /\ Ids \subseteq Nat
  BY DEF ApiInv, Ids
<1>1. ASSUME NEW t \in Tenant, NEW env \in Ids, HandleHeartbeat(t, env)
      PROVE  ApiInv'
  <2>1. \A e \in db.environments : e.id = env => e.tenant = t
    BY <1>1 DEF HandleHeartbeat, WithId
  <2>2. DbStep(db, nextId, InsertHeartbeat(db, [id |-> nextId, env |-> env]), nextId + 1, t)
    BY <1>0, <2>1, InsertPlainStep
  <2> QED
    BY <1>1, <2>2, OwnInsertKeeps DEF HandleHeartbeat
<1>2. ASSUME NEW tenant \in Tenant, NEW env \in Ids,
             RecordingStored(tenant, env) \/ ORMStatStored(tenant, env)
      PROVE  ApiInv'
  <2>1. PICK t : \A e \in db.environments : e.id = env => e.tenant = t
    BY <1>0, SomeOwner
  <2>2. CASE RecordingStored(tenant, env)
    <3>1. PICK kind \in Recordings :
             BatchStored(tenant, {"profiler", "overview"},
                CreateProfilerRecording(db, [id |-> nextId, env |-> env,
                                             has_chain |-> kind.has_chain, slow |-> kind.slow,
                                             has_n1 |-> kind.has_n1]))
      BY <2>2 DEF RecordingStored
    <3> DEFINE row == [id |-> nextId, env |-> env, has_chain |-> kind.has_chain,
                       slow |-> kind.slow, has_n1 |-> kind.has_n1]
    <3>2. row.env = env
      OBVIOUS
    <3> HIDE DEF row
    <3>3. DbStep(db, nextId, CreateProfilerRecording(db, row), nextId + 1, t)
      BY <1>0, <2>1, <3>2, InsertPlainStep
    <3>4. BatchStored(tenant, {"profiler", "overview"}, CreateProfilerRecording(db, row))
      BY <3>1 DEF row
    <3> QED
      BY <1>0, <3>3, <3>4, BatchWrites, BatchKeeps
  <2>3. CASE ORMStatStored(tenant, env)
    <3>1. PICK n1 \in BOOLEAN :
             BatchStored(tenant, {"profiler", "overview"},
                InsertORMStat(db, [id |-> nextId, env |-> env, n1_detected |-> n1]))
      BY <2>3 DEF ORMStatStored
    <3> DEFINE row == [id |-> nextId, env |-> env, n1_detected |-> n1]
    <3>2. row.env = env
      OBVIOUS
    <3> HIDE DEF row
    <3>3. DbStep(db, nextId, InsertORMStat(db, row), nextId + 1, t)
      BY <1>0, <2>1, <3>2, InsertPlainStep
    <3>4. BatchStored(tenant, {"profiler", "overview"}, InsertORMStat(db, row))
      BY <3>1 DEF row
    <3> QED
      BY <1>0, <3>3, <3>4, BatchWrites, BatchKeeps
  <2> QED
    BY <1>2, <2>2, <2>3
<1>3. ASSUME NEW tenant \in Tenant, NEW env \in Ids, AlertStored(tenant, env)
      PROVE  ApiInv'
  <2> DEFINE row == [id |-> nextId, env |-> env, acknowledged |-> FALSE,
                     acknowledged_by |-> "null"]
  <2>1. PICK t : \A e \in db.environments : e.id = env => e.tenant = t
    BY <1>0, SomeOwner
  <2>2. DbStep(db, nextId, CreateAlert(db, row), nextId + 1, t)
    BY <1>0, <2>1, CreateAlertStep
  <2>3. BatchStored(tenant, {"alerts", "overview"}, CreateAlert(db, row))
    BY <1>3 DEF AlertStored
  <2> HIDE DEF row
  <2> QED
    BY <1>0, <2>2, <2>3, BatchWrites, BatchKeeps
<1>4. ASSUME NEW tenant \in Tenant, NEW env \in Ids, NEW sig \in Signatures,
             ErrorEventStored(tenant, env, sig)
      PROVE  ApiInv'
  <2> DEFINE row == AnErrorGroup(env, sig)
  <2>1. PICK t : \A e \in db.environments : e.id = env => e.tenant = t
    BY <1>0, SomeOwner
  <2>2. DbStep(db, nextId, UpsertErrorGroup(db, row), nextId + 1, t)
    BY <1>0, <2>1, UpsertErrorGroupStep DEF AnErrorGroup
  <2>3. BatchStored(tenant, {"errors", "overview"}, UpsertErrorGroup(db, row))
    BY <1>4 DEF ErrorEventStored
  <2> HIDE DEF row
  <2> QED
    BY <1>0, <2>2, <2>3, BatchWrites, BatchKeeps
<1>5. ASSUME NEW tenant \in Tenant, NEW budget \in Ids, BudgetSampled(tenant, budget)
      PROVE  ApiInv'
  <2> DEFINE row == [id |-> nextId, budget |-> budget]
  <2>1. PICK t : BudgetOf(db, budget, t)
    BY <1>0, SomeBudgetOwner
  <2>2. row.budget = budget /\ BatchStored(tenant, {"budgets"}, InsertBudgetSample(db, row))
    BY <1>5 DEF BudgetSampled
  <2> HIDE DEF row
  <2>3. DbStep(db, nextId, InsertBudgetSample(db, row), nextId + 1, t)
    BY <1>0, <2>1, <2>2, InsertTenantSteps
  <2> QED
    BY <1>0, <2>2, <2>3, BatchWrites, BatchKeeps
<1>6. ASSUME NEW t \in Tenant, AuditLog(t)
      PROVE  ApiInv'
  <2>1. PICK action \in AuditActions :
           InsertFor("audit", t, {"audit"},
              CreateAuditLog(db, [id |-> nextId, tenant |-> t, user |-> t, action |-> action,
                                  resource |-> "null"]))
    BY <1>6 DEF AuditLog
  <2> DEFINE row == [id |-> nextId, tenant |-> t, user |-> t, action |-> action,
                     resource |-> "null"]
  <2>2. row.tenant = t /\ InsertFor("audit", t, {"audit"}, CreateAuditLog(db, row))
    BY <2>1
  <2> HIDE DEF row
  <2>3. DbStep(db, nextId, CreateAuditLog(db, row), nextId + 1, t)
    BY <1>0, <2>2, InsertTenantSteps
  <2> QED
    BY <2>2, <2>3, OwnInsertKeeps
<1> QED
  BY <1>1, <1>2, <1>3, <1>4, <1>5, <1>6 DEF Stored

\* A tenant's retention.
LEMMA RetentionKeeps ==
    ASSUME ApiInv, NEW t, RunForTenant(t)
    PROVE  ApiInv'
<1>0. DbInv(db, nextId) /\ nextId \in Nat /\ nextId <= nextId
  BY DEF ApiInv
<1>1. ASSUME NEW a, NEW newDb, DbStep(db, nextId, newDb, nextId, t), Retain(t, a, newDb)
      PROVE  ApiInv'
  BY <1>0, <1>1, OwnActKeeps DEF Retain
<1>2. PICK cutoff \in Ids :
         \/ Retain(t, "errors", DeleteOldErrorGroups(db, t, cutoff))
         \/ Retain(t, "profiler", DeleteOldProfilerRecordings(db, t, cutoff))
         \/ Retain(t, "budgets", DeleteOldBudgetSamples(db, t, cutoff))
         \/ Retain(t, "profiler", DeleteOldORMStats(db, t, cutoff))
         \/ Retain(t, "alerts", DeleteOldAlerts(db, t, cutoff))
         \/ Retain(t, "schema", DeleteOldSchemaSnapshots(db, t, cutoff))
         \/ Retain(t, "audit", DeleteOldAuditLogs(db, t, cutoff))
         \/ Retain(t, "heartbeats", DeleteOldHeartbeats(db, t, cutoff))
  BY DEF RunForTenant
<1> QED
  BY <1>0, <1>1, <1>2, RetentionSteps

\* The statement after the check of a name: the invariant is kept if two
\* environments share a name only where a check was raced.
LEMMA CheckedNameKeeps ==
    ASSUME ApiInv, NEW c \in Client, NEW env, NEW newDb, NEW m \in Nat, nextId <= m, nextId' = m,
           DbChange(db, nextId, newDb, m, req[c].tenant), CheckedName(c, env, newDb),
           \A e, f \in newDb.environments :
              e # f /\ e.tenant = f.tenant /\ e.name = f.name =>
                 \/ {e.id, f.id} \cap racedNames # {}
                 \/ req[c].raced /\ env \in {e.id, f.id}
    PROVE  ApiInv'
<1>1. DbInv(db, nextId) /\ "alerts" \in Tables
  BY DEF ApiInv, Tables, EnvTables
<1>2. Touches(db, newDb, req[c].tenant)
  BY DEF DbChange
<1>3. \A r \in {} : OwnedBy(db, "alerts", r, req[c].tenant)
  OBVIOUS
<1>4. db' = newDb /\ leaks' = leaks /\ area' = area
  BY <1>1, <1>2, <1>3, StepLeaksNothing DEF CheckedName
<1>5. NamesUniqueUnlessRaced'
  BY <1>4 DEF NamesUniqueUnlessRaced, CheckedName
<1>6. /\ req' = [x \in Client |-> req'[x]] /\ req'[c] = Idle
      /\ \A x \in Client : x # c => req'[x] = Noticing(req[x])
  BY DEF Proceed, CheckedName
<1>7. \A x \in Client : req'[x] = Noticing(req[x]) \/ RequestInv(x)'
  BY <1>6, IdleInv
<1> QED
  BY <1>4, <1>5, <1>6, <1>7, StepKeepsInv DEF CheckedName

\* An environment is created under the name that was checked.
LEMMA EnvironmentCreateKeeps ==
    ASSUME ApiInv, NEW c \in Client, EnvironmentCreate(c)
    PROVE  ApiInv'
<1>0. DbInv(db, nextId) /\ nextId \in Nat \ {0} /\ NamesUniqueUnlessRaced
  BY DEF ApiInv
<1>1. PICK type \in Types :
         CheckedName(c, nextId,
             CreateEnvironment(db, AnEnvironment(nextId, req[c].tenant, req[c].name, type)))
  BY DEF EnvironmentCreate
<1>2. req[c].at = "creating" /\ nextId' = nextId + 1
  BY DEF EnvironmentCreate, At
<1>3. req[c] \in RequestRow /\ req[c] # Idle
  BY <1>2, RequestFacts DEF OnTenant
<1> DEFINE row == AnEnvironment(nextId, req[c].tenant, req[c].name, type)
           newDb == CreateEnvironment(db, row)
<1>4. /\ row \in EnvironmentRow /\ row.id = nextId /\ row.tenant = req[c].tenant
      /\ row.name = req[c].name
  BY <1>0, <1>3 DEF AnEnvironment, EnvironmentRow, RequestRow
<1> HIDE DEF row
<1>5. DbChange(db, nextId, newDb, nextId + 1, req[c].tenant)
  BY <1>0, <1>4, CreateEnvironmentStep
<1>6. newDb.environments = db.environments \cup {row}
  BY <1>0 DEF CreateEnvironment, DbInv, DbTyped, Tables, TenantTables
<1>7. \A e \in db.environments : e.id # 0 /\ e.id # nextId
  BY <1>0 DEF DbInv, DbTyped
<1>8. ASSUME ~req[c].raced, NEW e \in db.environments
      PROVE  ~(e.tenant = row.tenant /\ e.name = row.name)
  <2>1. ~CheckEnvironmentNameExists(db, req[c].tenant, req[c].name, 0)
    BY <1>2, <1>3, <1>8 DEF ApiInv, RequestInv, RequestChecked, Checks
  <2> QED
    BY <1>4, <1>7, <2>1 DEF CheckEnvironmentNameExists, OfTenant
<1>9. ASSUME NEW e \in newDb.environments, NEW f \in newDb.environments,
             e # f, e.tenant = f.tenant, e.name = f.name
      PROVE  {e.id, f.id} \cap racedNames # {} \/ (req[c].raced /\ nextId \in {e.id, f.id})
  <2>1. CASE e \in db.environments /\ f \in db.environments
    BY <1>0, <1>9, <2>1 DEF NamesUniqueUnlessRaced
  <2>2. CASE e = row \/ f = row
    BY <1>4, <1>6, <1>8, <1>9, <2>2
  <2> QED
    BY <1>6, <2>1, <2>2
<1>10. CheckedName(c, nextId, newDb)
  BY <1>1 DEF row
<1> HIDE DEF newDb
<1>11. nextId + 1 \in Nat /\ nextId <= nextId + 1
  BY <1>0
<1> QED
  BY <1>2, <1>5, <1>9, <1>10, <1>11, CheckedNameKeeps

\* An environment is renamed to the name that was checked.
LEMMA EnvironmentRenameKeeps ==
    ASSUME ApiInv, NEW c \in Client, EnvironmentRename(c)
    PROVE  ApiInv'
<1>0. DbInv(db, nextId) /\ nextId \in Nat /\ nextId <= nextId /\ NamesUniqueUnlessRaced
  BY DEF ApiInv
<1> DEFINE t == req[c].tenant
           env == req[c].env
           name == req[c].name
           newDb == UpdateEnvironment(db, env, t, name, "null")
<1>1. req[c].at = "renaming" /\ nextId' = nextId /\ CheckedName(c, env, newDb)
  BY DEF EnvironmentRename, At, Env
<1>2. req[c] \in RequestRow /\ req[c] # Idle
  BY <1>1, RequestFacts DEF OnTenant
<1>3. name \in Names \cup {"null"} /\ "null" \in Statuses \cup {"null"}
  BY <1>2 DEF RequestRow
<1>4. /\ DbChange(db, nextId, newDb, nextId, t)
      /\ \A f \in newDb.environments :
            \E e \in db.environments :
               /\ f.id = e.id /\ f.tenant = e.tenant
               /\ f.name = e.name \/ (e.id = env /\ e.tenant = t /\ f.name = name)
  BY <1>0, <1>3, UpdateEnvironmentStep
<1>5. \A e, f \in newDb.environments : e.id = f.id => e = f
  BY <1>4 DEF DbChange, DbInv, DbKeys
<1> HIDE DEF newDb
<1>6. ASSUME ~req[c].raced, NEW e \in db.environments, e.tenant = t, e.name = name
      PROVE  e.id = env
  <2>1. ~CheckEnvironmentNameExists(db, t, name, env)
    BY <1>1, <1>2, <1>6 DEF ApiInv, RequestInv, RequestChecked, Checks
  <2> QED
    BY <1>6, <2>1 DEF CheckEnvironmentNameExists, OfTenant
<1>7. ASSUME NEW e \in newDb.environments, NEW f \in newDb.environments,
             e # f, e.tenant = f.tenant, e.name = f.name
      PROVE  {e.id, f.id} \cap racedNames # {} \/ (req[c].raced /\ env \in {e.id, f.id})
  <2>1. PICK e0 \in db.environments :
           /\ e.id = e0.id /\ e.tenant = e0.tenant
           /\ e.name = e0.name \/ (e0.id = env /\ e0.tenant = t /\ e.name = name)
    BY <1>4
  <2>2. PICK f0 \in db.environments :
           /\ f.id = f0.id /\ f.tenant = f0.tenant
           /\ f.name = f0.name \/ (f0.id = env /\ f0.tenant = t /\ f.name = name)
    BY <1>4
  <2>3. e0.id # f0.id
    BY <1>5, <1>7, <2>1, <2>2
  <2>4. CASE e.name = e0.name /\ f.name = f0.name
    <3>1. e0 # f0 /\ e0.tenant = f0.tenant /\ e0.name = f0.name
      BY <1>7, <2>1, <2>2, <2>3, <2>4
    <3>2. {e0.id, f0.id} \cap racedNames # {}
      BY <1>0, <3>1 DEF NamesUniqueUnlessRaced
    <3> QED
      BY <2>1, <2>2, <3>2
  <2>5. CASE e.name # e0.name
    <3>1. e0.id = env /\ f.name = f0.name /\ f0.tenant = t /\ f0.name = name
      BY <1>7, <2>1, <2>2, <2>3, <2>5
    <3>2. req[c].raced
      BY <1>6, <2>3, <3>1
    <3> QED
      BY <2>1, <3>1, <3>2
  <2>6. CASE f.name # f0.name
    <3>1. f0.id = env /\ e.name = e0.name /\ e0.tenant = t /\ e0.name = name
      BY <1>7, <2>1, <2>2, <2>3, <2>6
    <3>2. req[c].raced
      BY <1>6, <2>3, <3>1
    <3> QED
      BY <2>2, <3>1, <3>2
  <2> QED
    BY <2>4, <2>5, <2>6
<1> QED
  BY <1>0, <1>1, <1>4, <1>7, CheckedNameKeeps

\* A name is checked, for a new environment or another one.
LEMMA NameChecksKeep ==
    ASSUME ApiInv, NEW c \in Client, NEW t \in Tenant, NEW env \in Nat, env < nextId,
           NEW name \in Names, NEW at,
           \/ at = "creating" /\ env = 0
           \/ at = "renaming",
           ~CheckEnvironmentNameExists(db, t, name, env),
           req' = [req EXCEPT ![c] = Request(at, t, env, 0, name)],
           UNCHANGED <<area, db, nextId, leaks, overfull, racedNames>>
    PROVE  ApiInv'
<1> DEFINE next == Request(at, t, env, 0, name)
<1>0. nextId \in Nat /\ 0 < nextId
  BY DEF ApiInv
<1>1. /\ next \in RequestRow /\ next.at = at /\ next.tenant = t /\ next.env = env
      /\ next.row = 0 /\ next.name = name
  BY DEF Request, RequestRow, OnTenant
<1>2. req' = [req EXCEPT ![c] = next]
  OBVIOUS
<1> HIDE DEF next
<1>3. Typed(next)
  BY <1>0, <1>1 DEF Typed
<1>4. Owns(next) /\ Counts(next)
  BY <1>1 DEF Owns, Counts, OnEnvironment
<1>5. Checks(next)
  BY <1>1 DEF Checks
<1>6. Relies(next)
  BY <1>3, <1>4, <1>5 DEF Relies
<1> QED
  BY <1>2, <1>6, RequestBegins

\* A page of environments, and the total beside it.
LEMMA EnvironmentPageFacts ==
    ASSUME ApiInv, NEW t, NEW type, NEW status, NEW p
    PROVE  /\ EnvironmentPage(t, type, status, p) \subseteq OfTenant(db.environments, t)
           /\ EnvironmentTotal(t, type, status) \in Nat
           /\ Cardinality(EnvironmentPage(t, type, status, p)) \in Nat
           /\ Cardinality(EnvironmentPage(t, type, status, p)) <= EnvironmentTotal(t, type, status)
<1> DEFINE all == OfTenant(db.environments, t)
<1>0. IsFiniteSet(all)
  BY FiniteTables DEF Tables, TenantTables
<1>1. ASSUME NEW part, part \subseteq all
      PROVE  /\ Newest(part, p.limit, p.offset) \subseteq all
             /\ Cardinality(part) \in Nat
             /\ Cardinality(Newest(part, p.limit, p.offset)) \in Nat
             /\ Cardinality(Newest(part, p.limit, p.offset)) <= Cardinality(part)
  <2>1. IsFiniteSet(part) /\ Newest(part, p.limit, p.offset) \subseteq part
    BY <1>0, <1>1, NewestPart, FS_Subset
  <2> QED
    BY <1>1, <2>1, PartCount
<1>2. /\ ByType(all, type) \subseteq all /\ ByStatus(all, status) \subseteq all
      /\ ByType(ByStatus(all, status), type) \subseteq all
  BY DEF ByType, ByStatus
<1>3. CASE type # "null" /\ status # "null"
  <2>1. /\ EnvironmentPage(t, type, status, p) = Newest(ByType(ByStatus(all, status), type), p.limit, p.offset)
        /\ EnvironmentTotal(t, type, status) = Cardinality(ByType(ByStatus(all, status), type))
    BY <1>3 DEF EnvironmentPage, EnvironmentTotal, ListEnvironmentsByTenantTypeAndStatus,
       CountEnvironmentsByTenantTypeAndStatus
  <2> QED
    BY <1>1, <1>2, <2>1
<1>4. CASE type # "null" /\ status = "null"
  <2>1. /\ EnvironmentPage(t, type, status, p) = Newest(ByType(all, type), p.limit, p.offset)
        /\ EnvironmentTotal(t, type, status) = Cardinality(ByType(all, type))
    BY <1>4 DEF EnvironmentPage, EnvironmentTotal, ListEnvironmentsByTenantAndType,
       CountEnvironmentsByTenantAndType
  <2> QED
    BY <1>1, <1>2, <2>1
<1>5. CASE type = "null" /\ status # "null"
  <2>1. /\ EnvironmentPage(t, type, status, p) = Newest(ByStatus(all, status), p.limit, p.offset)
        /\ EnvironmentTotal(t, type, status) = Cardinality(ByStatus(all, status))
    BY <1>5 DEF EnvironmentPage, EnvironmentTotal, ListEnvironmentsByTenantAndStatus,
       CountEnvironmentsByTenantAndStatus
  <2> QED
    BY <1>1, <1>2, <2>1
<1>6. CASE type = "null" /\ status = "null"
  <2>1. /\ EnvironmentPage(t, type, status, p) = all
        /\ EnvironmentTotal(t, type, status) = Cardinality(all)
    BY <1>6 DEF EnvironmentPage, EnvironmentTotal, ListEnvironmentsByTenant,
       CountEnvironmentsByTenant
  <2>2. Cardinality(all) \in Nat
    BY <1>0, FS_CardinalityType
  <2> QED
    BY <2>1, <2>2
<1> QED
  BY <1>3, <1>4, <1>5, <1>6

\* Environments and heartbeats.
LEMMA EnvironmentsKeep ==
    ASSUME ApiInv, NEW c \in Client, RegisterEnvironmentRoutes(c)
    PROVE  ApiInv'
<1>0. /\ DbInv(db, nextId) /\ nextId \in Nat \ {0} /\ nextId <= nextId
      /\ "environments" \in Tables /\ "environments" \in TenantTables
  BY DEF ApiInv, Tables, TenantTables
<1>1. CASE HandleCreateEnvironment(c)
  <2>1. PICK t \in Tenant, name \in Names : CreateEnvironmentRequest(c, t, name)
    BY <1>1 DEF HandleCreateEnvironment
  <2>2. 0 \in Nat /\ 0 < nextId
    BY <1>0
  <2> QED
    BY <2>1, <2>2, NameChecksKeep DEF CreateEnvironmentRequest
<1>2. CASE HandleUpdateEnvironment(c)
  <2>1. PICK t \in Tenant, env \in Ids :
           \/ \E status \in Statuses \cup {"null"} : EnvironmentUpdate(c, t, env, status)
           \/ \E name \in Names : RenameEnvironmentRequest(c, t, env, name)
    BY <1>2 DEF HandleUpdateEnvironment
  <2>2. ASSUME NEW status \in Statuses \cup {"null"}, EnvironmentUpdate(c, t, env, status)
        PROVE  ApiInv'
    <3> DEFINE newDb == UpdateEnvironment(db, env, t, "null", status)
    <3>1. Reply(c, t, "environments", {}, newDb)
      BY <2>2 DEF EnvironmentUpdate
    <3>2. PICK name : name = "null"
      OBVIOUS
    <3>3. DbStep(db, nextId, UpdateEnvironment(db, env, t, name, status), nextId, t)
      BY <1>0, <3>2, UpdateStatusStep
    <3>4. DbStep(db, nextId, newDb, nextId, t)
      BY <3>2, <3>3
    <3> HIDE DEF newDb
    <3> QED
      BY <1>0, <3>1, <3>4, TenantWriteKeeps
  <2>3. ASSUME NEW name \in Names, RenameEnvironmentRequest(c, t, env, name)
        PROVE  ApiInv'
    <3>1. env \in Nat /\ env < nextId
      BY <1>0 DEF Ids
    <3> QED
      BY <2>3, <3>1, NameChecksKeep DEF RenameEnvironmentRequest
  <2> QED
    BY <2>1, <2>2, <2>3
<1>3. CASE HandleGetEnvironment(c)
  <2>1. PICK t \in Tenant, env \in Ids : EnvironmentGetByID(c, t, env)
    BY <1>3 DEF HandleGetEnvironment
  <2>2. GetEnvironmentByID(db, env, t) \subseteq OfTenant(db["environments"], t)
    BY DEF GetEnvironmentByID, WithId
  <2> QED
    BY <1>0, <2>1, <2>2, ShowKeeps DEF EnvironmentGetByID
<1>4. CASE HandleDeleteEnvironment(c)
  <2>1. PICK t \in Tenant, env \in Ids : EnvironmentDelete(c, t, env)
    BY <1>4 DEF HandleDeleteEnvironment
  <2>2. DbStep(db, nextId, DeleteEnvironment(db, env, t), nextId, t)
    BY <1>0, DeleteEnvironmentStep
  <2> QED
    BY <1>0, <2>1, <2>2, TenantWriteKeeps DEF EnvironmentDelete
<1>5. CASE HandleListEnvironments(c)
  <2>1. PICK t \in Tenant, type \in Types \cup {"null"}, status \in Statuses \cup {"null"},
             p \in Pages : EnvironmentList(c, t, type, status, p)
    BY <1>5 DEF HandleListEnvironments
  <2>2. area = "environments"
    BY <1>5 DEF HandleListEnvironments, MustTenantID
  <2> DEFINE rows == EnvironmentPage(t, type, status, p)
             next == [Request("listed", t, 0, 0, "null") EXCEPT
                         !.type = type, !.status = status, !.size = Cardinality(rows)]
  <2>3. /\ Step(t, "environments", rows, db) /\ Proceed(c, next)
        /\ UNCHANGED <<nextId, overfull, racedNames>>
    BY <2>1 DEF EnvironmentList
  <2>4. /\ rows \subseteq OfTenant(db["environments"], t)
        /\ Cardinality(rows) \in Nat /\ Cardinality(rows) <= EnvironmentTotal(t, type, status)
    BY EnvironmentPageFacts
  <2> HIDE DEF rows
  <2>5. /\ next \in RequestRow /\ next.at = "listed" /\ next.env = 0 /\ next.row = 0
        /\ next.tenant = t /\ next.type = type /\ next.status = status
        /\ next.size = Cardinality(rows)
    BY <2>4 DEF Request, RequestRow, OnEnvironment
  <2> HIDE DEF next
  <2>6. Typed(next)
    BY <1>0, <2>5 DEF Typed
  <2>7. Owns(next)
    <3>1. \A e \in db.environments : e.id # 0
      BY <1>0 DEF DbInv, DbTyped
    <3> QED
      BY <2>5, <3>1 DEF Owns
  <2>8. Counts(next) /\ Checks(next)
    BY <2>2, <2>4, <2>5 DEF Counts, Checks
  <2>9. Relies(next)
    BY <2>6, <2>7, <2>8 DEF Relies
  <2>10. \A r \in rows : OwnedBy(db, "environments", r, t)
    BY <1>0, <2>4, TenantRowsOwned
  <2> QED
    BY <1>0, <2>3, <2>9, <2>10, ReadKeeps
<1>6. CASE EnvironmentCount(c)
  <2> DEFINE total == EnvironmentTotal(req[c].tenant, req[c].type, req[c].status)
  <2>1. /\ req[c].at = "listed" /\ area = "environments"
        /\ Compare(c, Idle, "environments", {}, req[c].size, total)
    BY <1>6 DEF EnvironmentCount, At
  <2>2. req[c].at \in OnEnvironment
    BY <2>1 DEF OnEnvironment
  <2>3. req[c] \in RequestRow /\ req[c] # Idle /\ req[c].size \in Nat
    BY <2>2, RequestFacts DEF RequestRow
  <2>4. req[c].size <= total \/ req[c].raced
    BY <2>1, <2>3 DEF ApiInv, RequestInv, RequestCounted, Counts
  <2>5. total \in Nat
    BY EnvironmentPageFacts
  <2>6. \A r \in {} : OwnedBy(db, "environments", r, req[c].tenant)
    OBVIOUS
  <2> HIDE DEF total
  <2> QED
    BY <1>0, <2>1, <2>3, <2>4, <2>5, <2>6, CompareKeeps
<1> QED
  BY <1>1, <1>2, <1>3, <1>4, <1>5, <1>6, EnvironmentCreateKeeps, EnvironmentRenameKeeps,
     HeartbeatsKeep DEF RegisterEnvironmentRoutes

\* The first environments, one of each tenant.
LEMMA ApiInit ==
    ASSUME Init
    PROVE  ApiInv
<1>1. PICK order \in [Tenant -> 1..Cardinality(Tenant)], name \in Names, type \in Types :
         /\ \A t, u \in Tenant : t # u => order[t] # order[u]
         /\ db = [EmptyDb EXCEPT !.environments =
                    {AnEnvironment(order[t], t, name, type) : t \in Tenant}]
  BY DEF Init
<1>2. IsFiniteSet(Tenant) /\ Cardinality(Tenant) \in Nat
  BY TenantApiAssumption, FS_CardinalityType
<1>3. nextId = Cardinality(Tenant) + 1 /\ nextId \in Nat \ {0}
  BY <1>2 DEF Init
<1> DEFINE f == [t \in Tenant |-> AnEnvironment(order[t], t, name, type)]
           first == Updated(f, Tenant)
<1>4. first = {AnEnvironment(order[t], t, name, type) : t \in Tenant}
  BY DEF Updated
<1>5. \A t \in Tenant :
         /\ f[t] \in EnvironmentRow /\ f[t].id = order[t] /\ f[t].tenant = t
         /\ f[t].id \in 1..(nextId - 1)
  BY <1>2, <1>3 DEF AnEnvironment, EnvironmentRow
<1>6. \A e \in first : \E t \in Tenant : e = f[t]
  BY DEF Updated
<1>7. IsFiniteSet(first)
  BY <1>2, UpdatedFinite DEF Updated
<1> HIDE DEF f, first
<1>8. /\ db = [u \in Tables |-> db[u]] /\ db.environments = first
      /\ \A u \in Tables \ {"environments"} : db[u] = {}
  BY <1>1, <1>4 DEF EmptyDb, Tables, TenantTables
<1>9. /\ db.api_keys = {} /\ db.alerts = {} /\ db.notification_channels = {}
      /\ db.error_groups = {} /\ db.perf_budgets = {} /\ db.schema_snapshots = {}
      /\ db.perf_budget_samples = {}
      /\ \A u \in EnvTables : db[u] = {}
  BY <1>8 DEF Tables, EnvTables, TenantTables
<1>10. DbTyped(db, nextId)
  <2>1. \A u \in Tables : IsFiniteSet(db[u])
    BY <1>7, <1>8, FS_EmptySet
  <2>2. \A e \in first : e \in EnvironmentRow /\ e.id \in 1..(nextId - 1)
    BY <1>5, <1>6
  <2>3. \A u \in {"environments", "perf_budgets", "schema_snapshots"} :
           \A r \in db[u] : r.id \in 1..(nextId - 1)
    BY <1>8, <1>9, <2>2
  <2>4. db.environments \subseteq EnvironmentRow
    BY <1>8, <2>2
  <2> QED
    BY <1>8, <1>9, <2>1, <2>3, <2>4, SMTT(30) DEF DbTyped
<1>11. DbKeys(db)
  <2>1. ASSUME NEW e \in first, NEW g \in first, e.id = g.id
        PROVE  e = g
    <3>1. PICK t \in Tenant, u \in Tenant : e = f[t] /\ g = f[u]
      BY <1>6
    <3>2. order[t] = order[u]
      BY <1>5, <2>1, <3>1
    <3>3. t = u
      BY <1>1, <3>2
    <3> QED
      BY <3>1, <3>3
  <2> QED
    BY <1>8, <1>9, <2>1 DEF DbKeys
<1>12. DbReferences(db) /\ DbSigned(db)
  BY <1>9 DEF DbReferences, DbSigned
<1>13. NamesUniqueUnlessRaced
  BY <1>5, <1>6, <1>8 DEF NamesUniqueUnlessRaced
<1>14. req = [c \in Client |-> req[c]] /\ \A c \in Client : RequestInv(c)
  <2>1. \A c \in Client : req[c] = Idle
    BY DEF Init
  <2>2. Idle.at = "idle"
    BY DEF Idle
  <2>3. \A c \in Client : RequestInv(c)
    BY <2>1, <2>2 DEF RequestInv, RequestTyped, RequestOwns, RequestCounted, RequestChecked,
       Typed, Owns, Counts, Checks, OnEnvironment
  <2> QED
    BY <2>3 DEF Init
<1> QED
  BY <1>3, <1>10, <1>11, <1>12, <1>13, <1>14 DEF ApiInv, DbInv, Init

\* Every step keeps the invariant, whoever takes it.
LEMMA ApiStep ==
    ASSUME ApiInv, [Next]_vars
    PROVE  ApiInv'
<1>1. CASE UNCHANGED vars
  <2>1. \A c \in Client : RequestInv(c) => RequestInv(c)'
    BY <1>1 DEF RequestInv, RequestTyped, RequestOwns, RequestCounted, RequestChecked,
       Typed, Owns, Counts, Checks, vars, EnvironmentTotal
  <2>2. DbInv(db, nextId)' /\ NamesUniqueUnlessRaced'
    BY <1>1 DEF vars, ApiInv, NamesUniqueUnlessRaced
  <2> QED
    BY <1>1, <2>1, <2>2 DEF ApiInv, vars
<1>2. ASSUME NEW c \in Client, RegisterEnvSubRoutes(c)
      PROVE  ApiInv'
  BY <1>2, KeysKeep, ErrorsKeep, AlertsKeep, ProfilerKeeps, SchemasKeep, BudgetsKeep,
     OverviewKeeps DEF RegisterEnvSubRoutes
<1>3. ASSUME NEW c \in Client,
             \/ MustTenantAndEnvID(c) \/ HandleErr(c)
             \/ RegisterEnvironmentRoutes(c) \/ RegisterNotificationChannelRoutes(c)
             \/ RegisterAuditRoutes(c) \/ RegisterEnvSubRoutes(c)
      PROVE  ApiInv'
  BY <1>2, <1>3, MustTenantAndEnvIDKeeps, HandleErrKeeps, EnvironmentsKeep, ChannelsKeep,
     AuditKeeps
<1> QED
  BY <1>1, <1>3, StoredKeeps, RetentionKeeps DEF Next

\* The invariant of the tenants' API holds throughout.
THEOREM ApiInvariant == Spec => []ApiInv
<1>1. Init => ApiInv
  BY ApiInit
<1>2. ApiInv /\ [Next]_vars => ApiInv'
  BY ApiStep
<1> QED
  BY <1>1, <1>2, PTL DEF Spec

\* No row of a tenant is ever shown to, added, changed or signed by another, for
\* any number of tenants and requests, whatever the workers store and delete
\* between the statements of a request; an agent's batch alone reaches rows of
\* another tenant, in the tables of the workers.
THEOREM ApiTenantIsolation == Spec => []TenantIsolation
<1>1. ASSUME ApiInv
      PROVE  TenantIsolation
  <2>1. ASSUME NEW table \in EnvTables, NEW r \in db[table], NEW e \in db.environments, e.id = r.env
        PROVE  TenantOf(r.env) = e.tenant
    <3>1. table \in Tables /\ table \notin TenantTables /\ table # "perf_budget_samples"
      BY DEF Tables, EnvTables, TenantTables
    <3>2. OwnedBy(db, table, r, e.tenant)
      BY <2>1, <3>1 DEF OwnedBy
    <3>3. Owner(table, r) = e.tenant
      BY <1>1, <3>1, <3>2, OwnerIs DEF ApiInv
    <3> QED
      BY <2>1, <3>1, <3>3 DEF Owner
  <2>2. ASSUME NEW table \in EnvTables, NEW r \in db[table]
        PROVE  \E e \in db.environments : e.id = r.env /\ TenantOf(r.env) = e.tenant
    BY <1>1, <2>1 DEF ApiInv, DbInv, DbReferences
  <2>3. "alerts" \in EnvTables /\ "error_groups" \in EnvTables /\ "api_keys" \in EnvTables
    BY DEF EnvTables
  <2>4. \A a \in db.alerts : a.acknowledged => a.acknowledged_by = TenantOf(a.env)
    <3> SUFFICES ASSUME NEW a \in db.alerts, a.acknowledged
                 PROVE  a.acknowledged_by = TenantOf(a.env)
      OBVIOUS
    <3>1. PICK e \in db.environments : e.id = a.env /\ TenantOf(a.env) = e.tenant
      BY <2>2, <2>3
    <3> QED
      BY <1>1, <3>1 DEF ApiInv, DbInv, DbSigned
  <2>5. \A g \in db.error_groups : g.resolved_by \in {"null", TenantOf(g.env)}
    <3> SUFFICES ASSUME NEW g \in db.error_groups
                 PROVE  g.resolved_by \in {"null", TenantOf(g.env)}
      OBVIOUS
    <3>1. PICK e \in db.environments : e.id = g.env /\ TenantOf(g.env) = e.tenant
      BY <2>2, <2>3
    <3> QED
      BY <1>1, <3>1 DEF ApiInv, DbInv, DbSigned
  <2>6. \A k \in db.api_keys : k.tenant = TenantOf(k.env)
    <3> SUFFICES ASSUME NEW k \in db.api_keys
                 PROVE  k.tenant = TenantOf(k.env)
      OBVIOUS
    <3>1. PICK e \in db.environments : e.id = k.env /\ TenantOf(k.env) = e.tenant
      BY <2>2, <2>3
    <3> QED
      BY <1>1, <3>1 DEF ApiInv, DbInv, DbSigned
  <2> QED
    BY <1>1, <2>4, <2>5, <2>6 DEF TenantIsolation, ApiInv
<1> QED
  BY <1>1, ApiInvariant, PTL

\* A list is never longer than its total, nor a part larger than its whole, as
\* long as nothing changed the database between the two statements.
THEOREM ApiPageWithinTotal == Spec => []PageWithinTotal
<1>1. ApiInv => PageWithinTotal
  BY DEF ApiInv, PageWithinTotal
<1> QED
  BY <1>1, ApiInvariant, PTL

\* Two environments of a tenant have one name only if the check of a name was
\* overtaken by another change.
THEOREM ApiNamesUnique == Spec => []NamesUniqueUnlessRaced
<1>1. ApiInv => NamesUniqueUnlessRaced
  BY DEF ApiInv
<1> QED
  BY <1>1, ApiInvariant, PTL
-----------------------------------------------------------------------------
(* The tenants' API: what retention takes. *)

\* Among finitely many numbered rows one has the largest number.
LEMMA NewestExists ==
    ASSUME NEW n \in Nat, NEW S, S # {}, \A s \in S : s.id \in 1..(n - 1)
    PROVE  \E m \in S : \A s \in S : s.id <= m.id
<1> DEFINE ages == {a \in Nat : \E s \in S : a = n - s.id}
<1>1. ages \in SUBSET Nat /\ ages # {}
  <2>1. PICK s \in S : TRUE
    OBVIOUS
  <2>2. s.id \in 1..(n - 1)
    OBVIOUS
  <2>3. n - s.id \in Nat
    BY <2>2
  <2> QED
    BY <2>3
<1>2. PICK a \in ages : \A b \in ages : ~(<<b, a>> \in OpToRel(<, Nat))
  BY <1>1, NatLessThanWellFounded, WFMin, Zenon
<1>3. \A b \in ages : ~(b < a)
  BY <1>1, <1>2 DEF OpToRel
<1>4. PICK m \in S : a = n - m.id
  OBVIOUS
<1>5. ASSUME NEW s \in S
      PROVE  s.id <= m.id
  <2>1. s.id \in 1..(n - 1) /\ m.id \in 1..(n - 1)
    OBVIOUS
  <2>2. n - s.id \in Nat
    BY <2>1
  <2>3. n - s.id \in ages
    BY <2>2
  <2>4. ~(n - s.id < a)
    BY <1>3, <2>3
  <2> QED
    BY <1>4, <2>1, <2>4
<1> QED
  BY <1>5

\* The newest row of a finite set is one with none newer, and is among the
\* newest of any number but none.
LEMMA NewestFacts ==
    ASSUME NEW S, IsFiniteSet(S), NEW keep \in Nat \ {0}
    PROVE  \A r \in S :
              /\ r \in Newest(S, 1, 0) <=> \A s \in S : ~(s.id > r.id)
              /\ (\A s \in S : ~(s.id > r.id)) => r \in Newest(S, keep, 0)
<1> SUFFICES ASSUME NEW r \in S
             PROVE  /\ r \in Newest(S, 1, 0) <=> \A s \in S : ~(s.id > r.id)
                    /\ (\A s \in S : ~(s.id > r.id)) => r \in Newest(S, keep, 0)
  OBVIOUS
<1> DEFINE newer == {s \in S : s.id > r.id}
<1>1. IsFiniteSet(newer) /\ Cardinality(newer) \in Nat
  <2>1. newer \subseteq S
    OBVIOUS
  <2> QED
    BY <2>1, FS_Subset, FS_CardinalityType
<1>2. Cardinality(newer) = 0 <=> newer = {}
  BY <1>1, FS_EmptySet
<1>3. newer = {} <=> \A s \in S : ~(s.id > r.id)
  OBVIOUS
<1>4. \A k : r \in Newest(S, k, 0) <=> (0 <= Cardinality(newer) /\ Cardinality(newer) < 0 + k)
  BY DEF Newest
<1> HIDE DEF newer
<1>5. r \in Newest(S, 1, 0) <=> Cardinality(newer) = 0
  BY <1>1, <1>4
<1>6. Cardinality(newer) = 0 => r \in Newest(S, keep, 0)
  BY <1>1, <1>4
<1> QED
  BY <1>2, <1>3, <1>5, <1>6

\* Of the newest rows that were kept, the newest is the one it was.
LEMMA NewestOfNewest ==
    ASSUME NEW n \in Nat, NEW S, IsFiniteSet(S), \A s \in S : s.id \in 1..(n - 1),
           NEW keep \in Nat \ {0}
    PROVE  Newest(Newest(S, keep, 0), 1, 0) = Newest(S, 1, 0)
<1> DEFINE kept == Newest(S, keep, 0)
<1>1. kept \subseteq S /\ IsFiniteSet(kept)
  BY NewestPart, FS_Subset
<1>2. \A r \in S : /\ r \in Newest(S, 1, 0) <=> \A s \in S : ~(s.id > r.id)
                   /\ (\A s \in S : ~(s.id > r.id)) => r \in kept
  BY NewestFacts
<1> HIDE DEF kept
<1>3. \A r \in kept : r \in Newest(kept, 1, 0) <=> \A s \in kept : ~(s.id > r.id)
  BY <1>1, NewestFacts
<1>4. Newest(kept, 1, 0) \subseteq kept /\ Newest(S, 1, 0) \subseteq S
  BY NewestPart
<1>5. ASSUME NEW r \in Newest(S, 1, 0)
      PROVE  r \in Newest(kept, 1, 0)
  BY <1>1, <1>2, <1>3, <1>4
<1>6. ASSUME NEW r \in Newest(kept, 1, 0)
      PROVE  r \in Newest(S, 1, 0)
  <2>1. r \in S /\ r \in kept
    BY <1>1, <1>4
  <2>2. PICK m \in S : \A s \in S : s.id <= m.id
    BY <2>1, NewestExists
  <2>3. \A s \in S : s.id \in Int
    OBVIOUS
  <2>4. m \in kept
    BY <1>2, <2>2, <2>3
  <2>5. ~(m.id > r.id)
    BY <1>3, <2>1, <2>4
  <2>6. \A s \in S : ~(s.id > r.id)
    BY <2>1, <2>2, <2>3, <2>5
  <2> QED
    BY <1>2, <2>1, <2>6
<1> QED
  BY <1>5, <1>6 DEF kept

\* A tenant's retention takes rows of the tenant alone, and leaves the newest
\* snapshot of every environment.
LEMMA RetentionTakes ==
    ASSUME ApiInv, NEW t, RunForTenant(t)
    PROVE  /\ \A e \in db.environments : GetLatestSchema(db', e.id) = GetLatestSchema(db, e.id)
           /\ Cardinality({Owner(x[1], x[2]) : x \in Changed(db')}) <= 1
<1>0. /\ DbInv(db, nextId) /\ nextId \in Nat /\ db = [u \in Tables |-> db[u]]
      /\ IsFiniteSet(db.schema_snapshots)
      /\ \A s \in db.schema_snapshots : s.id \in 1..(nextId - 1)
      /\ "schema_snapshots" \in Tables
  BY DEF ApiInv, DbInv, DbTyped, Tables, EnvTables
<1>1. PICK cutoff \in Ids :
         \/ db' = DeleteOldErrorGroups(db, t, cutoff)
         \/ db' = DeleteOldProfilerRecordings(db, t, cutoff)
         \/ db' = DeleteOldBudgetSamples(db, t, cutoff)
         \/ db' = DeleteOldORMStats(db, t, cutoff)
         \/ db' = DeleteOldAlerts(db, t, cutoff)
         \/ db' = DeleteOldSchemaSnapshots(db, t, cutoff)
         \/ db' = DeleteOldAuditLogs(db, t, cutoff)
         \/ db' = DeleteOldHeartbeats(db, t, cutoff)
  BY DEF RunForTenant, Retain, ActFor
<1>2. DbStep(db, nextId, db', nextId, t)
  BY <1>0, <1>1, RetentionSteps
<1>3. Cardinality({Owner(x[1], x[2]) : x \in Changed(db')}) <= 1
  <2> DEFINE owners == {Owner(x[1], x[2]) : x \in Changed(db')}
  <2>1. ASSUME NEW x \in Changed(db')
        PROVE  Owner(x[1], x[2]) = t
    <3>1. Touches(db, db', t)
      BY <1>2 DEF DbStep, DbChange
    <3> QED
      BY <1>0, <2>1, <3>1, ChangedIsOwn
  <2>2. owners \subseteq {t}
    BY <2>1
  <2> HIDE DEF owners
  <2>3. IsFiniteSet({t}) /\ Cardinality({t}) = 1
    BY FS_Singleton
  <2>4. Cardinality(owners) <= Cardinality({t})
    BY <2>2, <2>3, FS_Subset
  <2>5. Cardinality(owners) <= 1
    BY <2>3, <2>4
  <2> QED
    BY <2>5 DEF owners
<1>4. ASSUME NEW id
      PROVE  GetLatestSchema(db', id) = GetLatestSchema(db, id)
  <2>1. CASE db' = DeleteOldSchemaSnapshots(db, t, cutoff)
    <3> DEFINE S == OfEnv(db.schema_snapshots, id)
    <3>1. db'.schema_snapshots =
             {s \in db.schema_snapshots :
                s.env \in EnvsOf(db, t) => s \in Newest(OfEnv(db.schema_snapshots, s.env), cutoff, 0)}
      BY <1>0, <2>1 DEF DeleteOldSchemaSnapshots
    <3>2. CASE id \in EnvsOf(db, t)
      <4>1. OfEnv(db'.schema_snapshots, id) = Newest(S, cutoff, 0)
        <5>1. Newest(S, cutoff, 0) \subseteq S
          BY NewestPart
        <5>2. \A s : s \in S <=> (s \in db.schema_snapshots /\ s.env = id)
          BY DEF OfEnv
        <5>3. \A s : s \in OfEnv(db'.schema_snapshots, id) <=>
                       (s \in db'.schema_snapshots /\ s.env = id)
          BY DEF OfEnv
        <5>4. ASSUME NEW s \in S
              PROVE  s \in db'.schema_snapshots <=> s \in Newest(S, cutoff, 0)
          BY <3>1, <3>2, <5>2
        <5>5. db'.schema_snapshots \subseteq db.schema_snapshots
          BY <3>1
        <5> HIDE DEF S
        <5> QED
          BY <5>1, <5>2, <5>3, <5>4, <5>5
      <4>2. IsFiniteSet(S) /\ \A s \in S : s.id \in 1..(nextId - 1)
        <5>1. S \subseteq db.schema_snapshots
          BY DEF OfEnv
        <5> QED
          BY <1>0, <5>1, FS_Subset
      <4>3. cutoff \in Nat \ {0}
        BY <1>0 DEF Ids
      <4> HIDE DEF S
      <4>4. Newest(Newest(S, cutoff, 0), 1, 0) = Newest(S, 1, 0)
        BY <1>0, <4>2, <4>3, NewestOfNewest
      <4> QED
        BY <4>1, <4>4 DEF GetLatestSchema, S
    <3>3. CASE id \notin EnvsOf(db, t)
      <4>1. OfEnv(db'.schema_snapshots, id) = OfEnv(db.schema_snapshots, id)
        BY <3>1, <3>3 DEF OfEnv
      <4> QED
        BY <4>1 DEF GetLatestSchema
    <3> QED
      BY <3>2, <3>3
  <2>2. CASE db' # DeleteOldSchemaSnapshots(db, t, cutoff)
    <3>1. db'.schema_snapshots = db.schema_snapshots
      BY <1>0, <1>1, <2>2 DEF DeleteOldErrorGroups, DeleteOldProfilerRecordings,
         DeleteOldBudgetSamples, DeleteOldORMStats, DeleteOldAlerts, DeleteOldAuditLogs,
         DeleteOldHeartbeats, DeleteOlder
    <3> QED
      BY <3>1 DEF GetLatestSchema
  <2> QED
    BY <2>1, <2>2
<1> QED
  BY <1>3, <1>4

\* Retention never takes the newest snapshot of an environment, and no row of
\* any tenant but the one it runs for.
THEOREM ApiRetention == Spec => RetentionKeepsTheNewest
<1>1. ApiInv /\ [Next]_vars =>
        [(\E t \in Tenant : RunForTenant(t)) =>
           /\ \A e \in db.environments : GetLatestSchema(db', e.id) = GetLatestSchema(db, e.id)
           /\ Cardinality({Owner(x[1], x[2]) : x \in Changed(db')}) <= 1]_vars
  BY RetentionTakes
<1> QED
  BY <1>1, ApiInvariant, PTL DEF Spec, RetentionKeepsTheNewest
-----------------------------------------------------------------------------
(* Operators of a domain, and induction. *)

LEMMA Operators ==
    /\ Op("&") # Op("|") /\ Op("&") # Op("!") /\ Op("|") # Op("!")
    /\ LogicOp = {Op("&"), Op("|"), Op("!")} /\ Binary = {Op("&"), Op("|")}
<1>1. Op("&").k = "&" /\ Op("|").k = "|" /\ Op("!").k = "!"
  BY DEF Op
<1>2. Op("&") # Op("|") /\ Op("&") # Op("!") /\ Op("|") # Op("!")
  BY <1>1
<1> QED
  BY <1>2 DEF LogicOp, Binary

\* Induction over the natural numbers, by the least number outside S.
LEMMA SetInduction ==
    ASSUME NEW S, 0 \in S, \A n \in Nat : n \in S => n + 1 \in S
    PROVE  Nat \subseteq S
<1> DEFINE missing == {n \in Nat : n \notin S}
<1>1. SUFFICES ASSUME missing # {} PROVE FALSE
  OBVIOUS
<1>2. missing \in SUBSET Nat
  OBVIOUS
<1>3. PICK m \in missing : \A n \in missing : ~(<<n, m>> \in OpToRel(<, Nat))
  BY <1>1, <1>2, NatLessThanWellFounded, WFMin, Zenon
<1>4. \A n \in missing : ~(n < m)
  BY <1>2, <1>3 DEF OpToRel
<1>5. m \in Nat /\ m \notin S /\ m # 0
  OBVIOUS
<1>6. m - 1 \in Nat /\ m - 1 < m /\ (m - 1) + 1 = m
  BY <1>5
<1>7. m - 1 \in S
  BY <1>4, <1>6
<1> QED
  BY <1>5, <1>6, <1>7

\* An index is in S if all later ones are.
Downward(L, S) == \A i \in 1..L : (\A j \in 1..L : j > i => j \in S) => i \in S

\* Induction from the end of a sequence.
LEMMA FromTheEnd ==
    ASSUME NEW L \in Nat, NEW S, Downward(L, S)
    PROVE  1..L \subseteq S
<1> DEFINE R == {n \in Nat : \A i \in 1..L : i + n > L => i \in S}
<1>1. 0 \in R
  OBVIOUS
<1>2. ASSUME NEW n \in Nat, n \in R
      PROVE  n + 1 \in R
  <2>1. SUFFICES ASSUME NEW i \in 1..L, i + (n + 1) > L
                 PROVE  i \in S
    OBVIOUS
  <2>2. \A j \in 1..L : j > i => j + n > L
    BY <2>1
  <2>3. \A j \in 1..L : j > i => j \in S
    BY <1>2, <2>2
  <2> QED
    BY <2>3 DEF Downward
<1>3. L \in R
  <2> HIDE DEF R
  <2> QED
    BY <1>1, <1>2, SetInduction
<1>4. \A i \in 1..L : i + L > L
  OBVIOUS
<1> QED
  BY <1>3, <1>4
-----------------------------------------------------------------------------
(* The tree of a domain. *)

\* What consumeNode reads from i on, when node says what it reads from later
\* indices on.
Consume(s, node, i) ==
    IF i \notin DOMAIN s THEN Missing
    ELSE IF s[i] \notin LogicOp THEN [operands |-> <<>>, next |-> i + 1]
    ELSE IF node[i + 1].next = 0 THEN Missing
    ELSE IF s[i] = Op("!") THEN [operands |-> <<i + 1>>, next |-> node[i + 1].next]
    ELSE IF node[node[i + 1].next].next = 0 THEN Missing
    ELSE [operands |-> <<i + 1, node[i + 1].next>>, next |-> node[node[i + 1].next].next]

\* The last n indices of a sequence of length L, the index after it, and 0.
LastOf(L, n) == {0} \cup {i \in 0..(L + 1) : i + n >= L + 1}

LEMMA ConsumeForward ==
    ASSUME NEW s, NEW L \in Nat, DOMAIN s = 1..L, NEW g, NEW i \in 1..L,
           g[i + 1].next = 0 \/ g[i + 1].next \in (i + 2)..(L + 1),
           g[i + 1].next # 0 =>
              \/ g[g[i + 1].next].next = 0
              \/ g[g[i + 1].next].next \in (g[i + 1].next + 1)..(L + 1)
    PROVE  Consume(s, g, i).next = 0 \/ Consume(s, g, i).next \in (i + 1)..(L + 1)
<1> DEFINE b == g[i + 1].next
           c == g[b].next
           d == Consume(s, g, i).next
<1>1. d = 0 \/ d = i + 1 \/ (b # 0 /\ (d = b \/ d = c))
  BY DEF Consume, Missing
<1>2. (b = 0 \/ b \in (i + 2)..(L + 1)) /\ (b # 0 => c = 0 \/ c \in (b + 1)..(L + 1))
  OBVIOUS
<1> HIDE DEF b, c, d
<1>3. d = 0 \/ d \in (i + 1)..(L + 1)
  BY <1>1, <1>2
<1> QED
  BY <1>3 DEF d

\* consumeNode is what its recursive definition says, and goes forward.
LEMMA ConsumeDefined ==
    ASSUME NEW s, NEW L \in Nat, Len(s) = L, DOMAIN s = 1..L
    PROVE  /\ consumeNode(s) = [i \in 0..(L + 1) |-> Consume(s, consumeNode(s), i)]
           /\ \A i \in 0..(L + 1) :
                 consumeNode(s)[i].next = 0 \/ consumeNode(s)[i].next \in (i + 1)..(L + 1)
<1> DEFINE Forward(g, i) == g[i].next = 0 \/ g[i].next \in (i + 1)..(L + 1)
           Reads(n) == \E g : /\ g = [i \in LastOf(L, n) |-> Consume(s, g, i)]
                              /\ \A i \in LastOf(L, n) : Forward(g, i)
           R == {n \in Nat : n <= L => Reads(n)}
<1>1. Reads(0)
  <2> DEFINE g == [i \in LastOf(L, 0) |-> Missing]
  <2>1. \A i \in LastOf(L, 0) : i \notin DOMAIN s
    BY DEF LastOf
  <2>2. g = [i \in LastOf(L, 0) |-> Consume(s, g, i)]
    BY <2>1 DEF Consume
  <2>3. \A i \in LastOf(L, 0) : Forward(g, i)
    BY DEF Missing
  <2> HIDE DEF g
  <2> QED
    BY <2>2, <2>3
<1>2. ASSUME NEW n \in Nat, n < L, Reads(n)
      PROVE  Reads(n + 1)
  <2>1. PICK g : g = [i \in LastOf(L, n) |-> Consume(s, g, i)] /\ \A i \in LastOf(L, n) : Forward(g, i)
    BY <1>2
  <2>2. PICK a \in 1..L : a + n = L
    <3>1. L - n \in 1..L /\ (L - n) + n = L
      BY <1>2
    <3> QED
      BY <3>1
  <2> DEFINE h == [i \in LastOf(L, n + 1) |-> IF i = a THEN Consume(s, g, a) ELSE g[i]]
  <2>3. a \notin LastOf(L, n) /\ a + 1 \in LastOf(L, n) /\ LastOf(L, n + 1) = LastOf(L, n) \cup {a}
    BY <1>2, <2>2 DEF LastOf
  <2>4. \A i \in LastOf(L, n) : h[i] = g[i]
    BY <2>3
  <2>5. h[a] = Consume(s, g, a)
    BY <2>3
  <2>6. ASSUME NEW i \in LastOf(L, n + 1), i \in DOMAIN s
        PROVE  /\ i + 1 \in LastOf(L, n) /\ h[i + 1] = g[i + 1]
               /\ g[i + 1].next \in LastOf(L, n) /\ h[g[i + 1].next] = g[g[i + 1].next]
               /\ g[i + 1].next = 0 \/ g[i + 1].next \in (i + 2)..(L + 1)
    <3>1. i \in 1..L /\ i + n >= L
      BY <2>6, <1>2 DEF LastOf
    <3>2. i + 1 \in LastOf(L, n)
      BY <1>2, <3>1 DEF LastOf
    <3>3. g[i + 1].next = 0 \/ g[i + 1].next \in ((i + 1) + 1)..(L + 1)
      BY <2>1, <3>2
    <3>4. g[i + 1].next = 0 \/ g[i + 1].next \in (i + 2)..(L + 1)
      BY <3>1, <3>3
    <3>5. g[i + 1].next \in LastOf(L, n)
      BY <1>2, <3>1, <3>4 DEF LastOf
    <3> HIDE DEF h
    <3> QED
      BY <2>4, <3>2, <3>4, <3>5
  <2> HIDE DEF h
  <2>7. ASSUME NEW i \in LastOf(L, n + 1)
        PROVE  h[i] = Consume(s, h, i)
    <3>1. Consume(s, h, i) = Consume(s, g, i)
      BY <2>6 DEF Consume
    <3>2. CASE i = a
      BY <2>5, <3>1, <3>2
    <3>3. CASE i \in LastOf(L, n)
      BY <2>1, <2>4, <3>1, <3>3
    <3> QED
      BY <2>3, <3>2, <3>3
  <2>8. ASSUME NEW i \in LastOf(L, n + 1)
        PROVE  Forward(h, i)
    <3>1. CASE i \in LastOf(L, n)
      BY <2>1, <2>4, <3>1
    <3>2. CASE i = a
      <4>1. a \in DOMAIN s /\ a \in LastOf(L, n + 1)
        BY <2>3
      <4>2. /\ g[a + 1].next = 0 \/ g[a + 1].next \in (a + 2)..(L + 1)
            /\ g[a + 1].next \in LastOf(L, n)
        BY <2>6, <4>1
      <4>3. g[a + 1].next # 0 =>
              \/ g[g[a + 1].next].next = 0
              \/ g[g[a + 1].next].next \in (g[a + 1].next + 1)..(L + 1)
        BY <2>1, <4>2
      <4> QED
        BY <2>5, <3>2, <4>2, <4>3, ConsumeForward
    <3> QED
      BY <2>3, <3>1, <3>2
  <2>9. LastOf(L, n + 1) = DOMAIN h
    BY DEF h
  <2>10. h = [i \in LastOf(L, n + 1) |-> Consume(s, h, i)]
    <3>1. h = [i \in LastOf(L, n + 1) |-> h[i]]
      BY DEF h
    <3> QED
      BY <2>7, <3>1
  <2> QED
    BY <2>8, <2>10
<1>3. L \in R
  <2> HIDE DEF Reads
  <2>1. \A n \in Nat : n \in R => n + 1 \in R
    BY <1>2
  <2>2. 0 \in R
    BY <1>1
  <2> HIDE DEF R
  <2> QED
    BY <2>1, <2>2, SetInduction
<1>4. LastOf(L, L) = 0..(L + 1)
  BY DEF LastOf
<1>5. \E g : g = [i \in 0..(L + 1) |-> Consume(s, g, i)]
  BY <1>3, <1>4
<1>6. consumeNode(s) = CHOOSE g : g = [i \in 0..(L + 1) |-> Consume(s, g, i)]
  BY DEF consumeNode, Consume
<1> DEFINE node == consumeNode(s)
           T == {i \in 1..L : Forward(node, i)}
<1>7. node = [i \in 0..(L + 1) |-> Consume(s, node, i)]
  BY <1>5, <1>6
<1> HIDE DEF node
<1>8. Forward(node, 0) /\ Forward(node, L + 1)
  <2>1. ASSUME NEW i \in 0..(L + 1), i \notin DOMAIN s
        PROVE  Forward(node, i)
    <3>1. node[i] = Missing
      BY <1>7, <2>1 DEF Consume
    <3> QED
      BY <3>1 DEF Missing
  <2> QED
    BY <2>1
<1>9. ASSUME NEW i \in 1..L, \A j \in 1..L : j > i => j \in T
      PROVE  i \in T
  <2>1. node[i] = Consume(s, node, i)
    BY <1>7
  <2>2. i + 1 \in 1..L \/ i + 1 = L + 1
    OBVIOUS
  <2>3. node[i + 1].next = 0 \/ node[i + 1].next \in ((i + 1) + 1)..(L + 1)
    BY <1>8, <1>9, <2>2
  <2>4. node[i + 1].next = 0 \/ node[i + 1].next \in (i + 2)..(L + 1)
    BY <2>3
  <2> DEFINE b == node[i + 1].next
  <2>5. b # 0 => b = L + 1 \/ (b \in 1..L /\ b > i)
    BY <2>4
  <2>6. b # 0 => Forward(node, b)
    BY <1>8, <1>9, <2>5
  <2> QED
    BY <2>1, <2>4, <2>6, ConsumeForward
<1>10. \A i \in 1..L : Forward(node, i)
  <2>1. 1..L \subseteq T
    <3> HIDE DEF T
    <3>1. Downward(L, T)
      BY <1>9 DEF Downward
    <3> QED
      BY <3>1, FromTheEnd
  <2> QED
    BY <2>1
<1>11. \A i \in 0..(L + 1) : i = 0 \/ i = L + 1 \/ i \in 1..L
  OBVIOUS
<1>12. \A i \in 0..(L + 1) : Forward(node, i)
  BY <1>8, <1>10, <1>11
<1> QED
  BY <1>7, <1>12 DEF node

\* A node is an error, a condition, or an operator above later nodes.
Lost(s, i) ==
    /\ s[i] \in LogicOp /\ consumeNode(s)[i].next = 0 /\ consumeNode(s)[i].operands = <<>>
    /\ \/ consumeNode(s)[i + 1].next = 0
       \/ s[i] \in Binary /\ consumeNode(s)[consumeNode(s)[i + 1].next].next = 0
OfCondition(s, i) ==
    /\ s[i] \notin LogicOp
    /\ consumeNode(s)[i].next = i + 1 /\ consumeNode(s)[i].operands = <<>>
OfNot(s, i) ==
    /\ s[i] = Op("!") /\ i + 1 \in DOMAIN s
    /\ consumeNode(s)[i + 1].next # 0
    /\ consumeNode(s)[i].next = consumeNode(s)[i + 1].next
    /\ consumeNode(s)[i].operands = <<i + 1>>
OfJoin(s, i, j) ==
    /\ s[i] \in Binary /\ i + 1 \in DOMAIN s /\ j \in DOMAIN s /\ i < j
    /\ consumeNode(s)[i + 1].next = j /\ consumeNode(s)[j].next # 0
    /\ consumeNode(s)[i].next = consumeNode(s)[j].next
    /\ consumeNode(s)[i].operands = <<i + 1, j>>

LEMMA NodeKinds ==
    ASSUME NEW s, NEW L \in Nat, Len(s) = L, DOMAIN s = 1..L, NEW i \in 1..L
    PROVE  Lost(s, i) \/ OfCondition(s, i) \/ OfNot(s, i) \/ \E j \in 1..L : OfJoin(s, i, j)
<1> DEFINE node == consumeNode(s)
           j == node[i + 1].next
<1>1. \A k \in 0..(L + 1) :
         node[k] = Consume(s, node, k) /\ (node[k].next = 0 \/ node[k].next \in (k + 1)..(L + 1))
  BY ConsumeDefined
<1>2. node[i] = Consume(s, node, i) /\ i \in DOMAIN s /\ i + 1 \in 0..(L + 1)
  BY <1>1
<1> HIDE DEF node
<1>3. \A k \in 0..(L + 1) : node[k].next # 0 => k \in DOMAIN s
  <2>1. ASSUME NEW k \in 0..(L + 1), k \notin DOMAIN s
        PROVE  node[k].next = 0
    <3>1. node[k] = Consume(s, node, k)
      BY <1>1
    <3>2. Consume(s, node, k) = Missing
      BY <2>1 DEF Consume
    <3> QED
      BY <3>1, <3>2 DEF Missing
  <2> QED
    BY <2>1
<1>4. CASE s[i] \notin LogicOp
  <2>1. node[i] = [operands |-> <<>>, next |-> i + 1]
    BY <1>2, <1>4 DEF Consume
  <2> QED
    BY <1>4, <2>1 DEF OfCondition, node
<1>5. CASE s[i] \in LogicOp /\ j = 0
  <2>1. node[i] = Missing
    BY <1>2, <1>5 DEF Consume
  <2> QED
    BY <1>5, <2>1 DEF Missing, Lost, node
<1>6. CASE s[i] = Op("!") /\ j # 0
  <2>1. node[i] = [operands |-> <<i + 1>>, next |-> j]
    BY <1>2, <1>6, Operators DEF Consume
  <2>2. i + 1 \in DOMAIN s
    BY <1>2, <1>3, <1>6
  <2> QED
    BY <1>6, <2>1, <2>2 DEF OfNot, node
<1>7. CASE s[i] \in Binary /\ j # 0
  <2>1. s[i] \in LogicOp /\ s[i] # Op("!")
    BY <1>7, Operators
  <2>2. i + 1 \in DOMAIN s /\ j \in (i + 2)..(L + 1)
    <3>1. node[i + 1].next = 0 \/ node[i + 1].next \in ((i + 1) + 1)..(L + 1)
      BY <1>1, <1>2
    <3> QED
      BY <1>2, <1>3, <1>7, <3>1
  <2>3. CASE node[j].next = 0
    <3>1. node[i] = Missing
      BY <1>2, <1>7, <2>1, <2>3 DEF Consume
    <3> QED
      BY <1>7, <2>1, <2>3, <3>1 DEF Missing, Lost, node
  <2>4. CASE node[j].next # 0
    <3>1. node[i] = [operands |-> <<i + 1, j>>, next |-> node[j].next]
      BY <1>2, <1>7, <2>1, <2>4 DEF Consume
    <3>2. j \in 0..(L + 1) /\ i < j
      BY <2>2
    <3>3. j \in DOMAIN s
      BY <1>3, <2>4, <3>2
    <3>4. OfJoin(s, i, j)
      BY <1>7, <2>2, <2>4, <3>1, <3>2, <3>3 DEF OfJoin, node
    <3> QED
      BY <3>3, <3>4
  <2> QED
    BY <2>3, <2>4
<1> QED
  BY <1>4, <1>5, <1>6, <1>7, Operators DEF node
-----------------------------------------------------------------------------
(* The value of the nodes. *)

TreeOf(s) == [elements |-> s, nodes |-> consumeNode(s)]

\* The value of node i, when holds gives the values of the nodes below it.
Eval(s, record, ctx, holds, i) ==
    LET children == consumeNode(s)[i].operands
    IN  CASE s[i] = Op("&") -> \A c \in DOMAIN children : holds[children[c]]
          [] s[i] = Op("|") -> \E c \in DOMAIN children : holds[children[c]]
          [] s[i] = Op("!") -> Len(children) = 1 /\ ~holds[children[1]]
          [] OTHER -> evalCondition(s[i], record, ctx)

\* It depends on later nodes only.
LEMMA EvalBelow ==
    ASSUME NEW s, NEW L \in Nat, Len(s) = L, DOMAIN s = 1..L, NEW record, NEW ctx,
           NEW i \in 1..L, NEW f, NEW g, \A j \in 1..L : j > i => f[j] = g[j]
    PROVE  Eval(s, record, ctx, f, i) = Eval(s, record, ctx, g, i)
<1> DEFINE children == consumeNode(s)[i].operands
<1>1. CASE children = <<>>
  BY <1>1 DEF Eval
<1>2. CASE OfNot(s, i)
  <2>1. children = <<i + 1>> /\ f[i + 1] = g[i + 1]
    BY <1>2 DEF OfNot
  <2>2. s[i] # Op("&") /\ s[i] # Op("|") /\ s[i] = Op("!") /\ children[1] = i + 1
    BY <1>2, <2>1, Operators DEF OfNot
  <2> QED
    BY <2>1, <2>2 DEF Eval
<1>3. ASSUME NEW j \in 1..L, OfJoin(s, i, j)
      PROVE  Eval(s, record, ctx, f, i) = Eval(s, record, ctx, g, i)
  <2>1. children = <<i + 1, j>> /\ f[i + 1] = g[i + 1] /\ f[j] = g[j]
    BY <1>3 DEF OfJoin
  <2>2. \A c \in DOMAIN children : f[children[c]] = g[children[c]]
    BY <2>1
  <2>3. s[i] = Op("&") \/ s[i] = Op("|")
    BY <1>3, Operators DEF OfJoin
  <2> HIDE DEF children
  <2> QED
    BY <2>2, <2>3, Operators DEF Eval, children
<1> QED
  BY <1>1, <1>2, <1>3, NodeKinds DEF Lost, OfCondition

LEMMA EvalDefined ==
    ASSUME NEW s, NEW L \in Nat, Len(s) = L, DOMAIN s = 1..L, NEW record, NEW ctx
    PROVE  evalNode(TreeOf(s), record, ctx) =
             [i \in 1..L |-> Eval(s, record, ctx, evalNode(TreeOf(s), record, ctx), i)]
<1> DEFINE Last(n) == {i \in 1..L : i + n > L}
           Evaluates(n) == \E f : f = [i \in Last(n) |-> Eval(s, record, ctx, f, i)]
           R == {n \in Nat : n <= L => Evaluates(n)}
<1>1. Evaluates(0)
  <2> DEFINE f == [i \in {} |-> 0]
  <2>1. Last(0) = {}
    OBVIOUS
  <2>2. f = [i \in Last(0) |-> Eval(s, record, ctx, f, i)]
    BY <2>1
  <2> QED
    BY <2>2
<1>2. ASSUME NEW n \in Nat, n < L, Evaluates(n)
      PROVE  Evaluates(n + 1)
  <2>1. PICK f : f = [i \in Last(n) |-> Eval(s, record, ctx, f, i)]
    BY <1>2
  <2>2. PICK a \in 1..L : a + n = L
    <3>1. L - n \in 1..L /\ (L - n) + n = L
      BY <1>2
    <3> QED
      BY <3>1
  <2> DEFINE h == [i \in Last(n + 1) |-> IF i = a THEN Eval(s, record, ctx, f, a) ELSE f[i]]
  <2>3. /\ a \notin Last(n) /\ Last(n + 1) = Last(n) \cup {a}
        /\ \A i \in Last(n + 1) : \A j \in 1..L : j > i => j \in Last(n)
    BY <1>2, <2>2
  <2> HIDE DEF Last
  <2>4. \A i \in Last(n) : h[i] = f[i]
    BY <2>3
  <2>5. h[a] = Eval(s, record, ctx, f, a)
    BY <2>3
  <2>6. h = [i \in Last(n + 1) |-> h[i]]
    OBVIOUS
  <2> HIDE DEF h
  <2>7. ASSUME NEW i \in Last(n + 1)
        PROVE  h[i] = Eval(s, record, ctx, h, i)
    <3>1. i \in 1..L
      BY DEF Last
    <3>2. \A j \in 1..L : j > i => h[j] = f[j]
      BY <2>3, <2>4
    <3>3. Eval(s, record, ctx, h, i) = Eval(s, record, ctx, f, i)
      BY <3>1, <3>2, EvalBelow
    <3>4. CASE i = a
      BY <2>5, <3>3, <3>4
    <3>5. CASE i \in Last(n)
      BY <2>1, <2>4, <3>3, <3>5
    <3> QED
      BY <2>3, <3>4, <3>5
  <2> QED
    BY <2>6, <2>7
<1>3. L \in R
  <2> HIDE DEF Evaluates
  <2>1. \A n \in Nat : n \in R => n + 1 \in R
    BY <1>2
  <2>2. 0 \in R
    BY <1>1
  <2> HIDE DEF R
  <2> QED
    BY <2>1, <2>2, SetInduction
<1>4. Last(L) = 1..L
  <2>1. \A i \in 1..L : i + L > L
    OBVIOUS
  <2> QED
    BY <2>1
<1>5. \E f : f = [i \in 1..L |-> Eval(s, record, ctx, f, i)]
  <2>1. Evaluates(L)
    <3> HIDE DEF Evaluates
    <3> QED
      BY <1>3
  <2> HIDE DEF Last
  <2> QED
    BY <1>4, <2>1
<1>6. DOMAIN TreeOf(s).elements = 1..L /\ TreeOf(s).elements = s /\ TreeOf(s).nodes = consumeNode(s)
  BY DEF TreeOf
<1>7. evalNode(TreeOf(s), record, ctx) = CHOOSE f : f = [i \in 1..L |-> Eval(s, record, ctx, f, i)]
  BY <1>6 DEF evalNode, Eval
<1> QED
  BY <1>5, <1>7
-----------------------------------------------------------------------------
(* The definition that reads a domain from its end. *)

ReadStep(s, record, ctx, j) ==
    Reading(s, record, ctx)[j] =
      StackStep(s[Len(s) + 1 - j], Reading(s, record, ctx)[j - 1], record, ctx)

LEMMA ReadingDefined ==
    ASSUME NEW s, NEW L \in Nat, Len(s) = L, NEW record, NEW ctx
    PROVE  /\ Reading(s, record, ctx)[0] = [ok |-> TRUE, stack |-> <<>>]
           /\ \A j \in 1..L : ReadStep(s, record, ctx, j)
<1> DEFINE TurnOf(g, j) == IF j = 0 THEN [ok |-> TRUE, stack |-> <<>>]
                         ELSE StackStep(s[L + 1 - j], g[j - 1], record, ctx)
           Reads(n) == \E g : g = [j \in 0..n |-> TurnOf(g, j)]
           R == {n \in Nat : Reads(n)}
<1>1. Reads(0)
  <2> DEFINE g == [j \in 0..0 |-> [ok |-> TRUE, stack |-> <<>>]]
  <2>1. g = [j \in 0..0 |-> TurnOf(g, j)]
    OBVIOUS
  <2> QED
    BY <2>1
<1>2. ASSUME NEW n \in Nat, Reads(n)
      PROVE  Reads(n + 1)
  <2>1. PICK g : g = [j \in 0..n |-> TurnOf(g, j)]
    BY <1>2
  <2> DEFINE h == [j \in 0..(n + 1) |-> IF j = n + 1 THEN TurnOf(g, n + 1) ELSE g[j]]
  <2>2. \A j \in 0..n : h[j] = g[j]
    OBVIOUS
  <2>3. h[n + 1] = TurnOf(g, n + 1)
    OBVIOUS
  <2>4. h = [j \in 0..(n + 1) |-> h[j]]
    OBVIOUS
  <2> HIDE DEF h
  <2>5. ASSUME NEW j \in 0..(n + 1)
        PROVE  h[j] = TurnOf(h, j)
    <3>1. TurnOf(h, j) = TurnOf(g, j)
      <4>1. j # 0 => j - 1 \in 0..n
        OBVIOUS
      <4>2. j # 0 => h[j - 1] = g[j - 1]
        BY <2>2, <4>1
      <4> QED
        BY <4>2
    <3>2. CASE j = n + 1
      BY <2>3, <3>1, <3>2
    <3>3. CASE j \in 0..n
      BY <2>1, <2>2, <3>1, <3>3
    <3>4. j = n + 1 \/ j \in 0..n
      OBVIOUS
    <3> QED
      BY <3>2, <3>3, <3>4
  <2> QED
    BY <2>4, <2>5
<1>3. L \in R
  <2> HIDE DEF Reads
  <2>1. \A n \in Nat : n \in R => n + 1 \in R
    BY <1>2
  <2>2. 0 \in R
    BY <1>1
  <2> HIDE DEF R
  <2> QED
    BY <2>1, <2>2, SetInduction
<1>4. \E g : g = [j \in 0..L |-> TurnOf(g, j)]
  BY <1>3
<1>5. Reading(s, record, ctx) = CHOOSE g : g = [j \in 0..L |-> TurnOf(g, j)]
  BY DEF Reading
<1>6. Reading(s, record, ctx) = [j \in 0..L |-> TurnOf(Reading(s, record, ctx), j)]
  <2> HIDE DEF TurnOf
  <2> QED
    BY <1>4, <1>5
<1> DEFINE read == Reading(s, record, ctx)
<1>7. read = [j \in 0..L |-> TurnOf(read, j)]
  BY <1>6
<1> HIDE DEF read
<1>8. read[0] = [ok |-> TRUE, stack |-> <<>>]
  BY <1>7
<1>9. ASSUME NEW j \in 1..L
      PROVE  read[j] = StackStep(s[L + 1 - j], read[j - 1], record, ctx)
  <2>1. j \in 0..L /\ j # 0
    OBVIOUS
  <2>2. read[j] = TurnOf(read, j)
    BY <1>7, <2>1
  <2> QED
    BY <2>1, <2>2
<1> QED
  BY <1>8, <1>9 DEF read, ReadStep

\* A stack of results, and whether no operand was missing so far.
Stacks == [ok : BOOLEAN, stack : Seq(BOOLEAN)]

\* A value put on a stack.
LEMMA Pushed ==
    ASSUME NEW v \in BOOLEAN, NEW stack \in Seq(BOOLEAN)
    PROVE  /\ <<v>> \o stack \in Seq(BOOLEAN)
           /\ <<v>> \o stack # <<>> /\ Len(<<v>> \o stack) = Len(stack) + 1
           /\ (<<v>> \o stack)[1] = v /\ Tail(<<v>> \o stack) = stack
OBVIOUS

LEMMA Rest ==
    ASSUME NEW stack \in Seq(BOOLEAN)
    PROVE  /\ Len(stack) >= 1 => Tail(stack) \in Seq(BOOLEAN) /\ Len(Tail(stack)) = Len(stack) - 1
           /\ Len(stack) >= 2 => /\ Tail(Tail(stack)) \in Seq(BOOLEAN)
                                /\ Len(Tail(Tail(stack))) = Len(stack) - 2
                                /\ Tail(stack) # <<>> /\ Tail(stack)[1] = stack[2]
<1>1. ASSUME NEW q \in Seq(BOOLEAN), Len(q) >= 1
      PROVE  /\ Tail(q) \in Seq(BOOLEAN) /\ Len(Tail(q)) = Len(q) - 1
             /\ \A i \in 1..Len(Tail(q)) : Tail(q)[i] = q[i + 1]
  BY <1>1, HeadTailProperties
<1>2. CASE Len(stack) >= 2
  <2>1. Len(stack) \in Nat /\ Len(stack) >= 1
    BY <1>2
  <2>2. Tail(stack) \in Seq(BOOLEAN) /\ Len(Tail(stack)) = Len(stack) - 1
    BY <1>1, <2>1
  <2>3. Len(Tail(stack)) >= 1 /\ Len(Tail(stack)) \in Nat
    BY <1>2, <2>1, <2>2
  <2>4. /\ Tail(Tail(stack)) \in Seq(BOOLEAN)
        /\ Len(Tail(Tail(stack))) = Len(Tail(stack)) - 1
    BY <1>1, <2>2, <2>3
  <2>5. Tail(stack)[1] = stack[1 + 1]
    BY <1>1, <2>1, <2>3
  <2> QED
    BY <2>1, <2>2, <2>3, <2>4, <2>5
<1> QED
  BY <1>1, <1>2

\* What a condition puts on the stack.
LEMMA StepCondition ==
    ASSUME NEW x, x \notin LogicOp, NEW st \in Stacks, NEW record, NEW ctx
    PROVE  LET next == StackStep(x, st, record, ctx)
           IN  /\ next \in Stacks /\ next.ok = st.ok
               /\ next.stack # <<>> /\ Len(next.stack) = Len(st.stack) + 1
               /\ next.stack[1] = LeafHolds(x, record, ctx) /\ Tail(next.stack) = st.stack
<1> DEFINE next == StackStep(x, st, record, ctx)
           v == LeafHolds(x, record, ctx)
           stack == st.stack
<1>1. v \in BOOLEAN
  BY DEF LeafHolds, evalCondition
<1>2. st.stack \in Seq(BOOLEAN) /\ st.ok \in BOOLEAN
  BY DEF Stacks
<1>3. next = [ok |-> st.ok, stack |-> <<v>> \o stack]
  BY DEF StackStep
<1> HIDE DEF v, next
<1>4. next.ok = st.ok /\ next.stack = <<v>> \o stack
  BY <1>3
<1>5. next \in Stacks
  BY <1>1, <1>2, <1>3, Pushed DEF Stacks
<1> QED
  BY <1>1, <1>2, <1>4, <1>5, Pushed DEF v, next

\* What an operator with its operands on the stack makes of it.
LEMMA StepOperator ==
    ASSUME NEW x \in LogicOp, NEW st \in Stacks, NEW record, NEW ctx,
           Len(st.stack) >= IF x = Op("!") THEN 1 ELSE 2
    PROVE  LET next == StackStep(x, st, record, ctx)
           IN  /\ next \in Stacks /\ next.ok = st.ok /\ next.stack # <<>>
               /\ x = Op("!") => /\ Len(next.stack) = Len(st.stack)
                                 /\ next.stack[1] = ~st.stack[1] /\ Tail(next.stack) = Tail(st.stack)
               /\ x \in Binary => /\ Len(next.stack) = Len(st.stack) - 1
                                  /\ Tail(next.stack) = Tail(Tail(st.stack))
               /\ x = Op("&") => next.stack[1] = (st.stack[1] /\ st.stack[2])
               /\ x = Op("|") => next.stack[1] = (st.stack[1] \/ st.stack[2])
<1> DEFINE next == StackStep(x, st, record, ctx)
           stack == st.stack
<1>1. stack \in Seq(BOOLEAN) /\ st.ok \in BOOLEAN /\ Len(stack) \in Nat
  BY DEF Stacks
<1>2. CASE x = Op("!")
  <2> DEFINE v == ~stack[1]
             rest == Tail(stack)
  <2>0. Len(stack) >= 1
    BY <1>2
  <2>1. rest \in Seq(BOOLEAN) /\ Len(rest) = Len(stack) - 1
    BY <1>1, <2>0, Rest
  <2>2. v \in BOOLEAN
    OBVIOUS
  <2>3. next = [ok |-> st.ok, stack |-> <<v>> \o rest]
    BY <1>1, <1>2 DEF StackStep
  <2>4. x # Op("&") /\ x # Op("|") /\ x \notin Binary
    BY <1>2, Operators
  <2> HIDE DEF v, rest, next
  <2>5. next.ok = st.ok /\ next.stack = <<v>> \o rest /\ next \in Stacks
    BY <1>1, <2>1, <2>2, <2>3, Pushed DEF Stacks
  <2>6. /\ next.stack # <<>> /\ Len(next.stack) = Len(stack)
        /\ next.stack[1] = v /\ Tail(next.stack) = rest
    BY <1>1, <2>1, <2>2, <2>5, Pushed
  <2>7. next.stack[1] = ~stack[1] /\ Tail(next.stack) = Tail(stack)
    BY <2>6 DEF v, rest
  <2> QED
    BY <1>2, <2>4, <2>5, <2>6, <2>7 DEF next
<1>3. CASE x # Op("!")
  <2> DEFINE v == IF x = Op("&") THEN stack[1] /\ stack[2] ELSE stack[1] \/ stack[2]
             rest == Tail(Tail(stack))
  <2>0. Len(stack) >= 2
    BY <1>3
  <2>1. rest \in Seq(BOOLEAN) /\ Len(rest) = Len(stack) - 2
    BY <1>1, <2>0, Rest
  <2>2. v \in BOOLEAN
    OBVIOUS
  <2>3. next = [ok |-> st.ok, stack |-> <<v>> \o rest]
    BY <1>1, <1>3 DEF StackStep
  <2> HIDE DEF v, rest, next
  <2>5. next.ok = st.ok /\ next.stack = <<v>> \o rest /\ next \in Stacks
    BY <1>1, <2>1, <2>2, <2>3, Pushed DEF Stacks
  <2>6. /\ next.stack # <<>> /\ Len(next.stack) = Len(stack) - 1
        /\ next.stack[1] = v /\ Tail(next.stack) = rest
    BY <1>1, <2>1, <2>2, <2>5, Pushed
  <2>7. Tail(next.stack) = Tail(Tail(stack))
    BY <2>6 DEF rest
  <2>8. x = Op("&") => next.stack[1] = (stack[1] /\ stack[2])
    BY <2>6 DEF v
  <2>9. x = Op("|") => next.stack[1] = (stack[1] \/ stack[2])
    BY <2>6, Operators DEF v
  <2> QED
    BY <1>3, <2>5, <2>6, <2>7, <2>8, <2>9 DEF next
<1> QED
  BY <1>2, <1>3

\* An operator without its operands fails; nothing undoes a failure.
LEMMA StepFails ==
    ASSUME NEW x, NEW st \in Stacks, NEW record, NEW ctx
    PROVE  LET next == StackStep(x, st, record, ctx)
           IN  /\ next \in Stacks
               /\ next.ok => /\ st.ok
                             /\ x \in LogicOp => Len(st.stack) >= IF x = Op("!") THEN 1 ELSE 2
<1> DEFINE next == StackStep(x, st, record, ctx)
           few == Len(st.stack) < IF x = Op("!") THEN 1 ELSE 2
<1>1. st.stack \in Seq(BOOLEAN) /\ st.ok \in BOOLEAN /\ Len(st.stack) \in Nat
  BY DEF Stacks
<1>2. CASE x \notin LogicOp
  BY <1>2, StepCondition
<1>3. CASE x \in LogicOp /\ few
  <2>1. next = [ok |-> FALSE, stack |-> st.stack]
    BY <1>3 DEF StackStep
  <2> HIDE DEF next
  <2>2. next \in Stacks /\ next.ok = FALSE
    BY <1>1, <2>1 DEF Stacks
  <2> QED
    BY <2>2 DEF next
<1>4. CASE x \in LogicOp /\ ~few
  <2>1. Len(st.stack) >= IF x = Op("!") THEN 1 ELSE 2
    BY <1>1, <1>4
  <2> QED
    BY <1>4, <2>1, StepOperator
<1> QED
  BY <1>2, <1>3, <1>4
-----------------------------------------------------------------------------
(* What the nodes stand for on the stack. *)

Value(s, record, ctx) == evalNode(TreeOf(s), record, ctx)
After(s, record, ctx, i) == Reading(s, record, ctx)[Len(s) + 1 - i]

AfterFrom(s, record, ctx, i) ==
    After(s, record, ctx, i) = StackStep(s[i], After(s, record, ctx, i + 1), record, ctx)

\* The value of a node from those of its operands.
LEMMA ValueOf ==
    ASSUME NEW s, NEW L \in Nat, Len(s) = L, DOMAIN s = 1..L, NEW record, NEW ctx, NEW i \in 1..L
    PROVE  LET value == Value(s, record, ctx)
           IN  /\ OfCondition(s, i) => value[i] = evalCondition(s[i], record, ctx)
               /\ OfNot(s, i) => value[i] = ~value[i + 1]
               /\ \A j \in 1..L : OfJoin(s, i, j) =>
                    /\ s[i] = Op("&") => value[i] = (value[i + 1] /\ value[j])
                    /\ s[i] = Op("|") => value[i] = (value[i + 1] \/ value[j])
<1> DEFINE value == Value(s, record, ctx)
           children == consumeNode(s)[i].operands
<1>1. value[i] = Eval(s, record, ctx, value, i)
  <2>1. value = [k \in 1..L |-> Eval(s, record, ctx, value, k)]
    BY EvalDefined DEF Value
  <2> HIDE DEF value
  <2> QED
    BY <2>1
<1> HIDE DEF value
<1>2. ASSUME OfCondition(s, i)
      PROVE  value[i] = evalCondition(s[i], record, ctx)
  BY <1>1, <1>2, Operators DEF OfCondition, Eval
<1>3. ASSUME OfNot(s, i)
      PROVE  value[i] = ~value[i + 1]
  <2>1. children = <<i + 1>> /\ Len(children) = 1 /\ children[1] = i + 1
    BY <1>3 DEF OfNot
  <2>2. s[i] = Op("!") /\ s[i] # Op("&") /\ s[i] # Op("|")
    BY <1>3, Operators DEF OfNot
  <2> HIDE DEF children
  <2>3. value[i] = (Len(children) = 1 /\ ~value[children[1]])
    BY <1>1, <2>2 DEF Eval, children
  <2> QED
    BY <2>1, <2>3
<1>4. ASSUME NEW j \in 1..L, OfJoin(s, i, j)
      PROVE  /\ s[i] = Op("&") => value[i] = (value[i + 1] /\ value[j])
             /\ s[i] = Op("|") => value[i] = (value[i + 1] \/ value[j])
  <2>1. DOMAIN children = {1, 2} /\ children[1] = i + 1 /\ children[2] = j
    <3>1. children = <<i + 1, j>>
      BY <1>4 DEF OfJoin
    <3> QED
      BY <3>1
  <2> HIDE DEF children
  <2>2. CASE s[i] = Op("&")
    <3>1. value[i] = \A c \in DOMAIN children : value[children[c]]
      BY <1>1, <2>2, Operators DEF Eval, children
    <3> QED
      BY <2>1, <2>2, <3>1, Operators
  <2>3. CASE s[i] = Op("|")
    <3>1. value[i] = \E c \in DOMAIN children : value[children[c]]
      BY <1>1, <2>3, Operators DEF Eval, children
    <3> QED
      BY <2>1, <2>3, <3>1, Operators
  <2> QED
    BY <2>2, <2>3
<1> QED
  BY <1>2, <1>3, <1>4 DEF value

\* The stacks, element by element from the end.
LEMMA AfterDefined ==
    ASSUME NEW s, NEW L \in Nat, Len(s) = L, NEW record, NEW ctx
    PROVE  /\ After(s, record, ctx, L + 1) = [ok |-> TRUE, stack |-> <<>>]
           /\ \A i \in 1..(L + 1) : After(s, record, ctx, i) \in Stacks
           /\ \A i \in 1..L : AfterFrom(s, record, ctx, i)
<1> DEFINE read == Reading(s, record, ctx)
           T == {n \in Nat : n <= L => read[n] \in Stacks}
<1>1. /\ read[0] = [ok |-> TRUE, stack |-> <<>>]
      /\ \A j \in 1..L : read[j] = StackStep(s[L + 1 - j], read[j - 1], record, ctx)
  <2>1. read[0] = [ok |-> TRUE, stack |-> <<>>]
    BY ReadingDefined
  <2>2. \A j \in 1..L : ReadStep(s, record, ctx, j)
    BY ReadingDefined
  <2> QED
    BY <2>1, <2>2 DEF ReadStep
<1>2. \A i : After(s, record, ctx, i) = read[L + 1 - i]
  BY DEF After
<1> HIDE DEF read
<1>3. After(s, record, ctx, L + 1) = [ok |-> TRUE, stack |-> <<>>]
  <2>1. L + 1 - (L + 1) = 0
    OBVIOUS
  <2> QED
    BY <1>1, <1>2, <2>1
<1>4. ASSUME NEW i \in 1..L
      PROVE  AfterFrom(s, record, ctx, i)
  <2>1. L + 1 - i \in 1..L /\ L + 1 - (L + 1 - i) = i /\ (L + 1 - i) - 1 = L + 1 - (i + 1)
    OBVIOUS
  <2>2. read[L + 1 - i] = StackStep(s[i], read[L + 1 - (i + 1)], record, ctx)
    BY <1>1, <2>1
  <2> QED
    BY <1>2, <2>2 DEF AfterFrom
<1>5. 0 \in T
  <2>1. [ok |-> TRUE, stack |-> <<>>] \in Stacks
    BY DEF Stacks
  <2> QED
    BY <1>1, <2>1
<1>6. ASSUME NEW n \in Nat, n \in T
      PROVE  n + 1 \in T
  <2>1. CASE n + 1 <= L
    <3>1. n + 1 \in 1..L /\ (n + 1) - 1 = n
      BY <2>1
    <3>2. read[n + 1] = StackStep(s[L + 1 - (n + 1)], read[n], record, ctx)
      BY <1>1, <3>1
    <3>3. read[n] \in Stacks
      BY <1>6, <2>1
    <3>4. read[n + 1] \in Stacks
      BY <3>2, <3>3, StepFails
    <3> QED
      BY <3>4
  <2> QED
    BY <2>1
<1>7. Nat \subseteq T
  <2> HIDE DEF T
  <2> QED
    BY <1>5, <1>6, SetInduction
<1>8. \A i \in 1..(L + 1) : L + 1 - i \in Nat /\ L + 1 - i <= L
  OBVIOUS
<1>9. \A i \in 1..(L + 1) : After(s, record, ctx, i) \in Stacks
  BY <1>2, <1>7, <1>8
<1> QED
  BY <1>3, <1>4, <1>9

\* A node that can be read leaves its value on top of what is behind it, and
\* a stack that is read without failure has found all operands.
MeansValue(s, record, ctx, i) ==
    LET node == consumeNode(s)[i]
        st == After(s, record, ctx, i)
        behind == After(s, record, ctx, node.next)
    IN  /\ st.ok => /\ node.next \in (i + 1)..(Len(s) + 1) /\ behind.ok
                    /\ st.stack # <<>> /\ st.stack[1] = Value(s, record, ctx)[i]
                    /\ Tail(st.stack) = behind.stack
        /\ (node.next # 0 /\ behind.ok) => st.ok

LEMMA NodesMeanValues ==
    ASSUME NEW s, NEW L \in Nat, Len(s) = L, DOMAIN s = 1..L, Accepted(s), NEW record, NEW ctx
    PROVE  \A i \in 1..L : MeansValue(s, record, ctx, i)
<1> DEFINE S == {i \in 1..L : MeansValue(s, record, ctx, i)}
           after(i) == After(s, record, ctx, i)
           next(i) == consumeNode(s)[i].next
           value(i) == Value(s, record, ctx)[i]
<1>1. ASSUME NEW i \in 1..L, \A j \in 1..L : j > i => j \in S
      PROVE  MeansValue(s, record, ctx, i)
  <2>1. /\ after(L + 1) = [ok |-> TRUE, stack |-> <<>>]
        /\ after(i) = StackStep(s[i], after(i + 1), record, ctx)
        /\ after(i + 1) \in Stacks
    <3>1. i + 1 \in 1..(L + 1)
      OBVIOUS
    <3>2. after(L + 1) = [ok |-> TRUE, stack |-> <<>>]
      BY AfterDefined
    <3>3. AfterFrom(s, record, ctx, i)
      BY AfterDefined
    <3>4. after(i + 1) \in Stacks
      BY <3>1, AfterDefined
    <3> QED
      BY <3>2, <3>3, <3>4 DEF AfterFrom
  <2>2. after(i + 1).stack \in Seq(BOOLEAN) /\ Len(after(i + 1).stack) \in Nat
    BY <2>1 DEF Stacks
  \* What is known of a later index with a value on the stack behind i.
  <2>3. ASSUME NEW j \in (i + 1)..(L + 1)
        PROVE  /\ after(j).ok /\ after(j).stack # <<>> =>
                    /\ j \in 1..L /\ next(j) \in (j + 1)..(L + 1) /\ after(next(j)).ok
                    /\ after(j).stack[1] = value(j) /\ Tail(after(j).stack) = after(next(j)).stack
               /\ (j \in 1..L /\ next(j) # 0 /\ after(next(j)).ok) =>
                    /\ after(j).ok /\ after(j).stack # <<>>
    <3>1. CASE j = L + 1
      <4>1. after(j).stack = <<>> /\ j \notin 1..L
        BY <2>1, <3>1
      <4> QED
        BY <4>1
    <3>2. CASE j \in 1..L
      <4>1. MeansValue(s, record, ctx, j)
        BY <1>1, <3>2
      <4> QED
        BY <3>2, <4>1 DEF MeansValue
    <3> QED
      BY <3>1, <3>2
  <2>4. CASE OfCondition(s, i)
    <3>1. s[i] \notin LogicOp /\ next(i) = i + 1 /\ i + 1 \in (i + 1)..(L + 1)
      BY <2>4 DEF OfCondition
    <3>2. value(i) = evalCondition(s[i], record, ctx)
      BY <2>4, ValueOf
    <3>3. /\ after(i).ok = after(i + 1).ok /\ after(i).stack # <<>>
          /\ after(i).stack[1] = LeafHolds(s[i], record, ctx)
          /\ Tail(after(i).stack) = after(i + 1).stack
      BY <2>1, <3>1, StepCondition
    <3>4. LeafHolds(s[i], record, ctx) = evalCondition(s[i], record, ctx)
      <4>1. s[i] \notin Refused
        BY DEF Accepted
      <4>2. evalCondition(s[i], record, ctx) \in BOOLEAN
        BY DEF evalCondition
      <4> QED
        BY <4>1, <4>2 DEF LeafHolds
    <3> QED
      BY <3>1, <3>2, <3>3, <3>4 DEF MeansValue
  <2>5. CASE OfNot(s, i)
    <3>1. /\ s[i] \in LogicOp /\ s[i] = Op("!") /\ i + 1 \in 1..L
          /\ next(i + 1) # 0 /\ next(i) = next(i + 1)
      BY <2>5, Operators DEF OfNot
    <3>2. value(i) = ~value(i + 1)
      BY <2>5, ValueOf
    <3>3. after(i).ok => after(i + 1).ok /\ Len(after(i + 1).stack) >= 1
      BY <2>1, <3>1, StepFails
    <3>4. Len(after(i + 1).stack) >= 1 =>
            /\ after(i).ok = after(i + 1).ok /\ after(i).stack # <<>>
            /\ after(i).stack[1] = ~after(i + 1).stack[1]
            /\ Tail(after(i).stack) = Tail(after(i + 1).stack)
      BY <2>1, <3>1, StepOperator
    <3>5. after(i + 1).stack # <<>> <=> Len(after(i + 1).stack) >= 1
      BY <2>2
    <3>6. i + 1 \in (i + 1)..(L + 1)
      BY <3>1
    <3>7. after(i).ok =>
            /\ next(i) \in (i + 1)..(L + 1) /\ after(next(i)).ok /\ after(i).stack # <<>>
            /\ after(i).stack[1] = value(i) /\ Tail(after(i).stack) = after(next(i)).stack
      <4> SUFFICES ASSUME after(i).ok
                   PROVE  /\ next(i) \in (i + 1)..(L + 1) /\ after(next(i)).ok /\ after(i).stack # <<>>
                          /\ after(i).stack[1] = value(i) /\ Tail(after(i).stack) = after(next(i)).stack
        OBVIOUS
      <4>1. after(i + 1).ok /\ after(i + 1).stack # <<>>
        BY <3>3, <3>5
      <4>2. /\ next(i) \in ((i + 1) + 1)..(L + 1) /\ after(next(i)).ok
            /\ after(i + 1).stack[1] = value(i + 1)
            /\ Tail(after(i + 1).stack) = after(next(i)).stack
        BY <2>3, <3>1, <3>6, <4>1
      <4>3. next(i) \in (i + 1)..(L + 1)
        BY <4>2
      <4> QED
        BY <3>2, <3>3, <3>4, <4>2, <4>3
    <3>8. (next(i) # 0 /\ after(next(i)).ok) => after(i).ok
      BY <2>3, <3>1, <3>4, <3>5, <3>6
    <3> QED
      BY <3>7, <3>8 DEF MeansValue
  <2>6. ASSUME NEW j \in 1..L, OfJoin(s, i, j)
        PROVE  MeansValue(s, record, ctx, i)
    <3>1. /\ s[i] \in LogicOp /\ s[i] # Op("!") /\ s[i] \in Binary /\ i + 1 \in 1..L /\ i < j
          /\ next(i + 1) = j /\ next(j) # 0 /\ next(i) = next(j)
      BY <2>6, Operators DEF OfJoin
    <3>2. /\ s[i] = Op("&") => value(i) = (value(i + 1) /\ value(j))
          /\ s[i] = Op("|") => value(i) = (value(i + 1) \/ value(j))
      BY <2>6, ValueOf
    <3>3. s[i] = Op("&") \/ s[i] = Op("|")
      BY <3>1, Operators
    <3>4. after(i).ok => after(i + 1).ok /\ Len(after(i + 1).stack) >= 2
      BY <2>1, <3>1, StepFails
    <3>5. Len(after(i + 1).stack) >= 2 =>
            /\ after(i).ok = after(i + 1).ok /\ after(i).stack # <<>>
            /\ Tail(after(i).stack) = Tail(Tail(after(i + 1).stack))
            /\ s[i] = Op("&") => after(i).stack[1] = (after(i + 1).stack[1] /\ after(i + 1).stack[2])
            /\ s[i] = Op("|") => after(i).stack[1] = (after(i + 1).stack[1] \/ after(i + 1).stack[2])
      BY <2>1, <3>1, StepOperator
    <3>6. /\ Len(after(i + 1).stack) >= 2 => /\ after(i + 1).stack # <<>> /\ Tail(after(i + 1).stack) # <<>>
                                             /\ Tail(after(i + 1).stack)[1] = after(i + 1).stack[2]
          /\ (after(i + 1).stack # <<>> /\ Tail(after(i + 1).stack) # <<>>) =>
                Len(after(i + 1).stack) >= 2
      BY <2>2, Rest
    <3>7. i + 1 \in (i + 1)..(L + 1) /\ j \in (i + 1)..(L + 1)
      BY <3>1
    <3>8. after(i).ok =>
            /\ next(i) \in (i + 1)..(L + 1) /\ after(next(i)).ok /\ after(i).stack # <<>>
            /\ after(i).stack[1] = value(i) /\ Tail(after(i).stack) = after(next(i)).stack
      <4> SUFFICES ASSUME after(i).ok
                   PROVE  /\ next(i) \in (i + 1)..(L + 1) /\ after(next(i)).ok /\ after(i).stack # <<>>
                          /\ after(i).stack[1] = value(i) /\ Tail(after(i).stack) = after(next(i)).stack
        OBVIOUS
      <4>1. /\ after(i + 1).ok /\ Len(after(i + 1).stack) >= 2
            /\ after(i + 1).stack # <<>> /\ Tail(after(i + 1).stack) # <<>>
            /\ Tail(after(i + 1).stack)[1] = after(i + 1).stack[2]
        BY <3>4, <3>6
      <4>2. /\ after(j).ok
            /\ after(i + 1).stack[1] = value(i + 1) /\ Tail(after(i + 1).stack) = after(j).stack
        BY <2>3, <3>1, <3>7, <4>1
      <4>3. /\ next(i) \in (j + 1)..(L + 1) /\ after(next(i)).ok
            /\ after(j).stack[1] = value(j) /\ Tail(after(j).stack) = after(next(i)).stack
        BY <2>3, <3>1, <3>7, <4>1, <4>2
      <4>4. next(i) \in (i + 1)..(L + 1)
        BY <3>1, <4>3
      <4>5. after(i + 1).stack[2] = value(j)
        BY <4>1, <4>2, <4>3
      <4>6. after(i).stack[1] = value(i)
        BY <3>2, <3>3, <3>5, <4>1, <4>2, <4>5
      <4> QED
        BY <3>5, <4>1, <4>2, <4>3, <4>4, <4>6
    <3>9. (next(i) # 0 /\ after(next(i)).ok) => after(i).ok
      <4> SUFFICES ASSUME next(i) # 0, after(next(i)).ok
                   PROVE  after(i).ok
        OBVIOUS
      <4>1. after(j).ok /\ after(j).stack # <<>>
        BY <2>3, <3>1, <3>7
      <4>2. after(i + 1).ok /\ after(i + 1).stack # <<>>
        BY <2>3, <3>1, <3>7, <4>1
      <4>3. Tail(after(i + 1).stack) = after(j).stack
        BY <2>3, <3>1, <3>7, <4>2
      <4> QED
        BY <3>5, <3>6, <4>1, <4>2, <4>3
    <3> QED
      BY <3>8, <3>9 DEF MeansValue
  <2>7. CASE Lost(s, i)
    <3>1. s[i] \in LogicOp /\ next(i) = 0 /\ (next(i + 1) = 0 \/ (s[i] \in Binary /\ next(next(i + 1)) = 0))
      BY <2>7 DEF Lost
    <3>2. after(i).ok => /\ after(i + 1).ok /\ Len(after(i + 1).stack) >= 1
                         /\ s[i] \in Binary => Len(after(i + 1).stack) >= 2
      <4>1. after(i).ok => /\ after(i + 1).ok
                           /\ Len(after(i + 1).stack) >= IF s[i] = Op("!") THEN 1 ELSE 2
        BY <2>1, <3>1, StepFails
      <4>2. s[i] \in Binary => s[i] # Op("!")
        BY Operators
      <4> QED
        BY <2>2, <4>1, <4>2
    <3>3. ~after(i).ok
      <4> SUFFICES ASSUME after(i).ok PROVE FALSE
        OBVIOUS
      <4>1. after(i + 1).ok /\ after(i + 1).stack # <<>> /\ i + 1 \in (i + 1)..(L + 1)
        BY <2>2, <3>2
      <4>2. /\ next(i + 1) \in ((i + 1) + 1)..(L + 1) /\ after(next(i + 1)).ok
            /\ Tail(after(i + 1).stack) = after(next(i + 1)).stack
        BY <2>3, <4>1
      <4>3. next(i + 1) # 0 /\ next(i + 1) \in (i + 1)..(L + 1)
        BY <4>2
      <4>4. s[i] \in Binary /\ next(next(i + 1)) = 0
        BY <3>1, <4>3
      <4>5. Tail(after(i + 1).stack) # <<>>
        BY <2>2, <3>2, <4>4, Rest
      <4>6. next(next(i + 1)) \in (next(i + 1) + 1)..(L + 1)
        BY <2>3, <4>2, <4>3, <4>5
      <4> QED
        BY <4>3, <4>4, <4>6
    <3> QED
      BY <3>1, <3>3 DEF MeansValue
  <2> QED
    BY <2>4, <2>5, <2>6, <2>7, NodeKinds
<1>2. 1..L \subseteq S
  <2>1. ASSUME NEW i \in 1..L, \A j \in 1..L : j > i => j \in S
        PROVE  i \in S
    BY <1>1, <2>1
  <2> HIDE DEF S
  <2>2. Downward(L, S)
    BY <2>1 DEF Downward
  <2> QED
    BY <2>2, FromTheEnd
<1> QED
  BY <1>2

Finished(s, record, ctx) == After(s, record, ctx, 1)
AllHold(stack) == \A i \in DOMAIN stack : stack[i]

\* The elements from i on that leave a result, and those that join two.
LeavesFrom(s, i) == {j \in Leaves(s) : j >= i}
JoiningFrom(s, i) == {j \in Joining(s) : j >= i}

\* As many results are on the stack as conditions exceed the operators that
\* join two.
LEMMA ResultsLeft ==
    ASSUME NEW s, NEW L \in Nat, Len(s) = L, DOMAIN s = 1..L, NEW record, NEW ctx,
           Finished(s, record, ctx).ok, L >= 1
    PROVE  Len(Finished(s, record, ctx).stack) = needed(s) + 1
<1> DEFINE after(i) == After(s, record, ctx, i)
           leaves(i) == Cardinality(LeavesFrom(s, i))
           joining(i) == Cardinality(JoiningFrom(s, i))
           Counted(i) == after(i).ok => Len(after(i).stack) = leaves(i) - joining(i)
           S == {i \in 1..L : Counted(i)}
<1>1. \A i \in 1..(L + 1) : IsFiniteSet(LeavesFrom(s, i)) /\ IsFiniteSet(JoiningFrom(s, i))
  <2>1. IsFiniteSet(1..L)
    BY FS_Interval
  <2>2. \A i \in 1..(L + 1) : LeavesFrom(s, i) \subseteq 1..L /\ JoiningFrom(s, i) \subseteq 1..L
    BY DEF LeavesFrom, JoiningFrom, Leaves, Joining
  <2> QED
    BY <2>1, <2>2, FS_Subset
<1>2. \A i \in 1..(L + 1) : leaves(i) \in Nat /\ joining(i) \in Nat
  BY <1>1, FS_CardinalityType
<1>3. Counted(L + 1)
  <2>1. LeavesFrom(s, L + 1) = {} /\ JoiningFrom(s, L + 1) = {}
    BY DEF LeavesFrom, JoiningFrom, Leaves, Joining
  <2>2. after(L + 1).stack = <<>>
    BY AfterDefined
  <2>3. leaves(L + 1) = 0 /\ joining(L + 1) = 0
    BY <2>1, FS_EmptySet
  <2>4. Len(after(L + 1).stack) = 0
    BY <2>2
  <2> HIDE DEF after, leaves, joining
  <2> QED
    BY <2>3, <2>4
<1>4. ASSUME NEW i \in 1..L, Counted(i + 1)
      PROVE  Counted(i)
  <2>1. i + 1 \in 1..(L + 1)
    OBVIOUS
  <2>2. after(i) = StackStep(s[i], after(i + 1), record, ctx)
    <3>1. AfterFrom(s, record, ctx, i)
      BY AfterDefined
    <3> QED
      BY <3>1 DEF AfterFrom
  <2>3. after(i + 1) \in Stacks
    BY <2>1, AfterDefined
  <2>4. Len(after(i + 1).stack) \in Nat
    BY <2>3 DEF Stacks
  <2> HIDE DEF after, leaves, joining
  <2>5. CASE s[i] \notin LogicOp
    <3>1. /\ LeavesFrom(s, i) = LeavesFrom(s, i + 1) \cup {i} /\ i \notin LeavesFrom(s, i + 1)
          /\ JoiningFrom(s, i) = JoiningFrom(s, i + 1)
      BY <2>5, Operators DEF LeavesFrom, JoiningFrom, Leaves, Joining
    <3>2. leaves(i) = leaves(i + 1) + 1 /\ joining(i) = joining(i + 1)
      BY <1>1, <2>1, <3>1, FS_AddElement DEF leaves, joining
    <3>3. after(i).ok => after(i + 1).ok /\ Len(after(i).stack) = Len(after(i + 1).stack) + 1
      BY <2>2, <2>3, <2>5, StepCondition
    <3>4. after(i).ok => Len(after(i).stack) = (leaves(i + 1) - joining(i + 1)) + 1
      BY <1>4, <3>3
    <3> QED
      BY <1>2, <2>1, <3>2, <3>4
  <2>6. CASE s[i] = Op("!")
    <3>1. LeavesFrom(s, i) = LeavesFrom(s, i + 1) /\ JoiningFrom(s, i) = JoiningFrom(s, i + 1)
      BY <2>6, Operators DEF LeavesFrom, JoiningFrom, Leaves, Joining
    <3>2. leaves(i) = leaves(i + 1) /\ joining(i) = joining(i + 1)
      BY <3>1 DEF leaves, joining
    <3>3. after(i).ok => after(i + 1).ok /\ Len(after(i).stack) = Len(after(i + 1).stack)
      BY <2>2, <2>3, <2>6, Operators, StepFails, StepOperator
    <3> QED
      BY <1>4, <3>2, <3>3
  <2>7. CASE s[i] \in Binary
    <3>1. /\ JoiningFrom(s, i) = JoiningFrom(s, i + 1) \cup {i} /\ i \notin JoiningFrom(s, i + 1)
          /\ LeavesFrom(s, i) = LeavesFrom(s, i + 1)
      BY <2>7, Operators DEF LeavesFrom, JoiningFrom, Leaves, Joining
    <3>2. joining(i) = joining(i + 1) + 1 /\ leaves(i) = leaves(i + 1)
      BY <1>1, <2>1, <3>1, FS_AddElement DEF leaves, joining
    <3>3. after(i).ok => after(i + 1).ok /\ Len(after(i).stack) = Len(after(i + 1).stack) - 1
      <4>1. s[i] \in LogicOp /\ s[i] # Op("!")
        BY <2>7, Operators
      <4> QED
        BY <2>2, <2>3, <2>7, <4>1, StepFails, StepOperator
    <3>4. after(i).ok => Len(after(i).stack) = (leaves(i + 1) - joining(i + 1)) - 1
      BY <1>4, <3>3
    <3> QED
      BY <1>2, <2>1, <3>2, <3>4
  <2> QED
    BY <2>5, <2>6, <2>7, Operators
<1>5. 1..L \subseteq S
  <2>1. ASSUME NEW i \in 1..L, \A j \in 1..L : j > i => j \in S
        PROVE  i \in S
    <3> HIDE DEF Counted
    <3>1. i + 1 = L + 1 \/ i + 1 \in 1..L
      OBVIOUS
    <3>2. Counted(i + 1)
      BY <1>3, <2>1, <3>1
    <3> QED
      BY <1>4, <3>2
  <2> HIDE DEF S
  <2>2. Downward(L, S)
    BY <2>1 DEF Downward
  <2> QED
    BY <2>2, FromTheEnd
<1>6. Counted(1)
  <2> HIDE DEF Counted
  <2> QED
    BY <1>5
<1>7. LeavesFrom(s, 1) = Leaves(s) /\ JoiningFrom(s, 1) = Joining(s)
  BY DEF LeavesFrom, JoiningFrom, Leaves, Joining
<1>8. leaves(1) \in Nat /\ joining(1) \in Nat
  BY <1>2
<1> QED
  BY <1>6, <1>7, <1>8 DEF needed, Finished

\* Putting '&' in front joins what is on the stack.
LEMMA ExpandedDefined ==
    ASSUME NEW S, NEW s \in Seq(S)
    PROVE  LET k == IF needed(s) > 0 THEN needed(s) ELSE 0
               e == insertImplicitAnd(s)
           IN  /\ needed(s) \in Int /\ k \in Nat /\ Len(e) = k + Len(s) /\ DOMAIN e = 1..(k + Len(s))
               /\ \A i \in 1..k : e[i] = Op("&")
               /\ \A i \in 1..Len(s) : e[k + i] = s[i]
<1> DEFINE k == IF needed(s) > 0 THEN needed(s) ELSE 0
           ands == [i \in 1..k |-> Op("&")]
<1>1. needed(s) \in Int /\ k \in Nat
  <2>1. IsFiniteSet(1..Len(s)) /\ Leaves(s) \subseteq 1..Len(s) /\ Joining(s) \subseteq 1..Len(s)
    BY FS_Interval DEF Leaves, Joining
  <2>2. Cardinality(Leaves(s)) \in Nat /\ Cardinality(Joining(s)) \in Nat
    BY <2>1, FS_Subset, FS_CardinalityType
  <2>3. needed(s) \in Int
    BY <2>2 DEF needed
  <2> QED
    BY <2>3
<1> HIDE DEF k
<1>2. ands \in Seq({Op("&")}) /\ Len(ands) = k
  BY <1>1
<1>3. insertImplicitAnd(s) = ands \o s
  BY DEF insertImplicitAnd, k
<1> DEFINE T == S \cup {Op("&")}
<1>4. ands \in Seq(T) /\ s \in Seq(T)
  BY <1>2
<1>5. \A i \in 1..k : ands[i] = Op("&")
  OBVIOUS
<1> HIDE DEF ands, T
<1>6. /\ ands \o s \in Seq(T) /\ Len(ands \o s) = k + Len(s)
      /\ \A i \in 1..(k + Len(s)) : (ands \o s)[i] = IF i <= k THEN ands[i] ELSE s[i - k]
  BY <1>2, <1>4, ConcatProperties
<1>7. DOMAIN (ands \o s) = 1..(k + Len(s)) /\ Len(s) \in Nat
  BY <1>6
<1>8. \A i \in 1..k : i \in 1..(k + Len(s)) /\ i <= k
  BY <1>1, <1>7
<1>9. \A i \in 1..Len(s) : k + i \in 1..(k + Len(s)) /\ ~(k + i <= k) /\ (k + i) - k = i
  BY <1>1, <1>7
<1>10. \A i \in 1..k : (ands \o s)[i] = Op("&")
  BY <1>5, <1>6, <1>8
<1>11. \A i \in 1..Len(s) : (ands \o s)[k + i] = s[i]
  BY <1>6, <1>9
<1> QED
  BY <1>1, <1>3, <1>6, <1>7, <1>10, <1>11 DEF k

\* The domain itself is read as before.
LEMMA ExpandedReading ==
    ASSUME NEW s, NEW L \in Nat, Len(s) = L, NEW e, NEW k \in Nat, Len(e) = k + L,
           \A i \in 1..L : e[k + i] = s[i], NEW record, NEW ctx
    PROVE  After(e, record, ctx, k + 1) = Finished(s, record, ctx)
<1> DEFINE same == {n \in Nat : n <= L => Reading(e, record, ctx)[n] = Reading(s, record, ctx)[n]}
           M == k + L
<1>1. M \in Nat /\ Len(e) = M
  OBVIOUS
<1>2. 0 \in same
  <2>1. Reading(e, record, ctx)[0] = [ok |-> TRUE, stack |-> <<>>]
    BY <1>1, ReadingDefined
  <2>2. Reading(s, record, ctx)[0] = [ok |-> TRUE, stack |-> <<>>]
    BY ReadingDefined
  <2> QED
    BY <2>1, <2>2
<1>3. ASSUME NEW n \in Nat, n \in same
      PROVE  n + 1 \in same
  <2>1. CASE n + 1 <= L
    <3>1. n + 1 \in 1..L /\ n + 1 \in 1..M /\ (n + 1) - 1 = n /\ L + 1 - (n + 1) \in 1..L
      BY <2>1
    <3>2. M + 1 - (n + 1) = k + (L + 1 - (n + 1))
      OBVIOUS
    <3>3. e[M + 1 - (n + 1)] = s[L + 1 - (n + 1)]
      BY <3>1, <3>2
    <3> HIDE DEF M
    <3>4. ReadStep(e, record, ctx, n + 1)
      BY <1>1, <3>1, ReadingDefined
    <3>5. ReadStep(s, record, ctx, n + 1)
      BY <3>1, ReadingDefined
    <3>6. Reading(e, record, ctx)[n] = Reading(s, record, ctx)[n]
      BY <1>3, <2>1
    <3>7. Reading(e, record, ctx)[n + 1] = Reading(s, record, ctx)[n + 1]
      BY <1>1, <3>1, <3>3, <3>4, <3>5, <3>6 DEF ReadStep
    <3> QED
      BY <3>7
  <2> QED
    BY <2>1
<1>4. L \in same
  <2> HIDE DEF same
  <2> QED
    BY <1>2, <1>3, SetInduction
<1>5. Len(e) + 1 - (k + 1) = L /\ Len(s) + 1 - 1 = L
  OBVIOUS
<1> QED
  BY <1>4, <1>5 DEF After, Finished

\* Two values on top joined: all of the stack holds if all of the new one do.
LEMMA JoinTop ==
    ASSUME NEW st \in Stacks, Len(st.stack) >= 2, NEW record, NEW ctx
    PROVE  LET next == StackStep(Op("&"), st, record, ctx)
           IN  /\ next \in Stacks /\ next.ok = st.ok /\ Len(next.stack) = Len(st.stack) - 1
               /\ AllHold(next.stack) <=> AllHold(st.stack)
<1> DEFINE next == StackStep(Op("&"), st, record, ctx)
           stack == st.stack
           new == next.stack
<1>1. Op("&") \in LogicOp /\ Op("&") \in Binary /\ Op("&") # Op("!")
  BY Operators
<1>2. /\ next \in Stacks /\ next.ok = st.ok /\ Len(new) = Len(stack) - 1
      /\ Tail(new) = Tail(Tail(stack)) /\ new[1] = (stack[1] /\ stack[2]) /\ new # <<>>
  BY <1>1, StepOperator
<1>3. stack \in Seq(BOOLEAN) /\ new \in Seq(BOOLEAN) /\ Len(stack) \in Nat
  BY <1>2 DEF Stacks
<1> HIDE DEF next, stack, new
<1>4. ASSUME NEW q \in Seq(BOOLEAN), q # <<>>
      PROVE  /\ Tail(q) \in Seq(BOOLEAN) /\ Len(Tail(q)) = Len(q) - 1 /\ DOMAIN q = 1..Len(q)
             /\ \A i \in 1..Len(Tail(q)) : Tail(q)[i] = q[i + 1]
  BY <1>4, HeadTailProperties
<1>5. stack # <<>> /\ Tail(stack) # <<>>
  BY <1>3, Rest DEF stack
<1>6. /\ Tail(stack) \in Seq(BOOLEAN) /\ Len(Tail(stack)) = Len(stack) - 1 /\ DOMAIN stack = 1..Len(stack)
      /\ \A i \in 1..Len(Tail(stack)) : Tail(stack)[i] = stack[i + 1]
  BY <1>3, <1>4, <1>5
<1>7. \A i \in 1..Len(Tail(Tail(stack))) : Tail(Tail(stack))[i] = Tail(stack)[i + 1]
  BY <1>4, <1>5, <1>6
<1>8. /\ DOMAIN new = 1..Len(new) /\ Len(Tail(new)) = Len(new) - 1
      /\ \A i \in 1..Len(Tail(new)) : Tail(new)[i] = new[i + 1]
  BY <1>2, <1>3, <1>4
<1>9. \A i \in 2..Len(new) : new[i] = stack[i + 1]
  <2> SUFFICES ASSUME NEW i \in 2..Len(new)
               PROVE  new[i] = stack[i + 1]
    OBVIOUS
  <2>1. Len(new) \in Nat /\ Len(Tail(stack)) \in Nat
    BY <1>3, <1>6
  <2>2. /\ i - 1 \in 1..Len(Tail(new)) /\ (i - 1) + 1 = i
        /\ i \in 1..Len(Tail(stack))
    BY <1>2, <1>6, <1>8, <2>1
  <2>3. new[i] = Tail(new)[i - 1]
    BY <1>8, <2>2
  <2>4. Tail(Tail(stack))[i - 1] = Tail(stack)[i]
    BY <1>2, <1>7, <2>2
  <2> QED
    BY <1>2, <1>6, <2>2, <2>3, <2>4
<1>10. AllHold(new) => AllHold(stack)
  <2> SUFFICES ASSUME AllHold(new), NEW i \in DOMAIN stack
               PROVE  stack[i]
    BY DEF AllHold
  <2>1. Len(new) >= 1 /\ 1 \in DOMAIN new
    BY <1>2, <1>3, <1>8 DEF stack
  <2>2. new[1]
    BY <2>1 DEF AllHold
  <2>3. stack[1] /\ stack[2]
    BY <1>2, <2>2
  <2>4. i = 1 \/ i = 2 \/ (i - 1 \in 2..Len(new) /\ i - 1 \in DOMAIN new /\ (i - 1) + 1 = i)
    BY <1>2, <1>3, <1>6, <1>8
  <2>5. CASE i - 1 \in 2..Len(new) /\ i - 1 \in DOMAIN new /\ (i - 1) + 1 = i
    <3>1. new[i - 1] /\ new[i - 1] = stack[i]
      BY <1>9, <2>5 DEF AllHold
    <3> QED
      BY <3>1
  <2> QED
    BY <2>3, <2>4, <2>5
<1>11. AllHold(stack) => AllHold(new)
  <2> SUFFICES ASSUME AllHold(stack), NEW i \in DOMAIN new
               PROVE  new[i]
    BY DEF AllHold
  <2>1. 1 \in DOMAIN stack /\ 2 \in DOMAIN stack
    BY <1>3, <1>6 DEF stack
  <2>2. stack[1] /\ stack[2]
    BY <2>1 DEF AllHold
  <2>3. new[1]
    BY <1>2, <2>2
  <2>4. i = 1 \/ (i \in 2..Len(new) /\ i + 1 \in DOMAIN stack)
    BY <1>2, <1>3, <1>6, <1>8
  <2>5. CASE i \in 2..Len(new) /\ i + 1 \in DOMAIN stack
    <3>1. stack[i + 1] /\ new[i] = stack[i + 1]
      BY <1>9, <2>5 DEF AllHold
    <3> QED
      BY <3>1
  <2> QED
    BY <2>3, <2>4, <2>5
<1> QED
  BY <1>2, <1>10, <1>11 DEF next, new, stack

\* The implicit '&' join what the domain leaves on the stack, one by one.
LEMMA JoinAll ==
    ASSUME NEW e, NEW k \in Nat, NEW L \in Nat, Len(e) = k + L, \A i \in 1..k : e[i] = Op("&"),
           NEW record, NEW ctx, After(e, record, ctx, k + 1).ok,
           Len(After(e, record, ctx, k + 1).stack) = k + 1
    PROVE  LET st == Finished(e, record, ctx)
           IN  st.ok /\ Len(st.stack) = 1 /\ (AllHold(st.stack) <=> AllHold(After(e, record, ctx, k + 1).stack))
<1> DEFINE after(i) == After(e, record, ctx, i)
           Joined(i) == /\ after(i).ok /\ Len(after(i).stack) = i
                        /\ AllHold(after(i).stack) <=> AllHold(after(k + 1).stack)
           S == {i \in 1..k : Joined(i)}
           M == k + L
<1>1. M \in Nat /\ Len(e) = M /\ \A i \in 1..k : i \in 1..M /\ i + 1 \in 1..(M + 1)
  OBVIOUS
<1>2. Joined(k + 1)
  OBVIOUS
<1>3. ASSUME NEW i \in 1..k, Joined(i + 1)
      PROVE  Joined(i)
  <2> HIDE DEF M
  <2>1. after(i) = StackStep(Op("&"), after(i + 1), record, ctx)
    <3>1. AfterFrom(e, record, ctx, i)
      BY <1>1, AfterDefined
    <3> QED
      BY <3>1 DEF AfterFrom
  <2>2. after(i + 1) \in Stacks
    BY <1>1, AfterDefined
  <2> HIDE DEF after
  <2>3. Len(after(i + 1).stack) >= 2 /\ Len(after(i + 1).stack) = i + 1
    BY <1>3
  <2>4. /\ after(i).ok = after(i + 1).ok /\ Len(after(i).stack) = Len(after(i + 1).stack) - 1
        /\ AllHold(after(i).stack) <=> AllHold(after(i + 1).stack)
    BY <2>1, <2>2, <2>3, JoinTop
  <2>5. after(i).ok
    BY <1>3, <2>4
  <2>6. Len(after(i).stack) = i
    BY <2>3, <2>4
  <2>7. AllHold(after(i).stack) <=> AllHold(after(k + 1).stack)
    BY <1>3, <2>4
  <2> QED
    BY <2>5, <2>6, <2>7
<1>4. 1..k \subseteq S
  <2>1. ASSUME NEW i \in 1..k, \A j \in 1..k : j > i => j \in S
        PROVE  i \in S
    <3> HIDE DEF Joined
    <3>1. i + 1 = k + 1 \/ (i + 1 \in 1..k /\ i + 1 > i)
      OBVIOUS
    <3>2. Joined(i + 1)
      BY <1>2, <2>1, <3>1
    <3> QED
      BY <1>3, <3>2
  <2> HIDE DEF S
  <2>2. Downward(k, S)
    BY <2>1 DEF Downward
  <2> QED
    BY <2>2, FromTheEnd
<1>5. Joined(1)
  <2> HIDE DEF Joined
  <2>1. 1 = k + 1 \/ 1 \in 1..k
    OBVIOUS
  <2> QED
    BY <1>2, <1>4, <2>1
<1> QED
  BY <1>5 DEF Finished

\* What failed in the domain fails in the expanded one.
LEMMA FailsBefore ==
    ASSUME NEW e, NEW M \in Nat, Len(e) = M, NEW record, NEW ctx, Finished(e, record, ctx).ok
    PROVE  \A i \in 1..(M + 1) : After(e, record, ctx, i).ok
<1> DEFINE after(i) == After(e, record, ctx, i)
           T == {n \in Nat : n <= M => after(n + 1).ok}
<1>1. 0 \in T
  BY DEF Finished
<1>2. ASSUME NEW n \in Nat, n \in T
      PROVE  n + 1 \in T
  <2>1. CASE n + 1 <= M
    <3>1. n + 1 \in 1..M /\ (n + 1) + 1 \in 1..(M + 1)
      BY <2>1
    <3>2. after(n + 1) = StackStep(e[n + 1], after((n + 1) + 1), record, ctx)
      <4>1. AfterFrom(e, record, ctx, n + 1)
        BY <3>1, AfterDefined
      <4> QED
        BY <4>1 DEF AfterFrom
    <3>3. after((n + 1) + 1) \in Stacks
      BY <3>1, AfterDefined
    <3>4. after(n + 1).ok
      BY <1>2, <2>1
    <3>5. after((n + 1) + 1).ok
      BY <3>2, <3>3, <3>4, StepFails
    <3> QED
      BY <3>5
  <2> QED
    BY <2>1
<1>3. Nat \subseteq T
  <2> HIDE DEF T
  <2> QED
    BY <1>1, <1>2, SetInduction
<1>4. \A i \in 1..(M + 1) : i - 1 \in Nat /\ i - 1 <= M /\ (i - 1) + 1 = i
  OBVIOUS
<1> QED
  BY <1>3, <1>4

LEMMA Single ==
    ASSUME NEW S, NEW q \in Seq(S), Len(q) = 1
    PROVE  Tail(q) = <<>> /\ DOMAIN q = {1}
<1>1. DOMAIN q = 1..Len(q)
  OBVIOUS
<1>2. q # <<>>
  <2>1. Len(<<>>) = 0
    BY EmptySeq
  <2> QED
    BY <2>1
<1>3. Tail(q) \in Seq(S) /\ Len(Tail(q)) = 0
  BY <1>2, HeadTailProperties
<1>4. Tail(q) = <<>>
  BY <1>3, EmptySeq
<1> QED
  BY <1>1, <1>4

\* The tree of a domain, with its implicit '&', says what the domain means.
LEMMA AcceptedIsDomainHolds ==
    ASSUME NEW S, NEW s \in Seq(S), Accepted(s), NEW record, NEW ctx
    PROVE  evalRule(s, record, ctx) <=> DomainHolds(s, record, ctx)
<1> DEFINE L == Len(s)
           st == Finished(s, record, ctx)
           k == IF needed(s) > 0 THEN needed(s) ELSE 0
           e == insertImplicitAnd(s)
           M == k + L
           next(i) == consumeNode(e)[i].next
           after(i) == After(e, record, ctx, i)
<1>1. L \in Nat /\ DOMAIN s = 1..L /\ (s = <<>> <=> L = 0)
  OBVIOUS
<1>2. DomainHolds(s, record, ctx) <=> st.ok /\ AllHold(st.stack)
  <2>1. L + 1 - 1 = L
    BY <1>1
  <2> QED
    BY <2>1 DEF DomainHolds, AllHold, Finished, After
<1>3. CASE s = <<>>
  <2>1. After(s, record, ctx, L + 1) = [ok |-> TRUE, stack |-> <<>>]
    BY <1>1, AfterDefined
  <2>2. L + 1 = 1
    BY <1>1, <1>3
  <2>3. st = [ok |-> TRUE, stack |-> <<>>]
    BY <2>1, <2>2 DEF Finished
  <2>4. st.ok /\ AllHold(st.stack)
    BY <2>3 DEF AllHold
  <2> HIDE DEF st
  <2> QED
    BY <1>2, <1>3, <2>4 DEF evalRule
<1>4. CASE s # <<>>
  <2>1. /\ needed(s) \in Int /\ k \in Nat /\ Len(e) = M /\ DOMAIN e = 1..M
        /\ \A i \in 1..k : e[i] = Op("&")
        /\ \A i \in 1..L : e[k + i] = s[i]
    BY ExpandedDefined
  <2>2. L >= 1
    BY <1>1, <1>4
  <2> HIDE DEF k, e, L
  <2>3. M \in Nat /\ M >= 1 /\ 1 \in 1..M
    BY <1>1, <2>1, <2>2
  <2>4. evalRule(s, record, ctx) <=> next(1) = M + 1 /\ Value(e, record, ctx)[1]
    <3>1. /\ buildTree(s).parsed = (next(1) = M + 1)
          /\ evalNode(buildTree(s), record, ctx) = Value(e, record, ctx)
      <4> DEFINE tree == buildTree(s)
                 same == TreeOf(e)
      <4>1. /\ tree.elements = e /\ tree.nodes = consumeNode(e)
            /\ tree.parsed = (next(1) = M + 1)
        BY <2>1 DEF buildTree, e
      <4>2. same.elements = e /\ same.nodes = consumeNode(e)
        BY DEF TreeOf
      <4> HIDE DEF tree, same
      <4>3. evalNode(tree, record, ctx) = evalNode(same, record, ctx)
        BY <4>1, <4>2 DEF evalNode
      <4> QED
        BY <4>1, <4>3 DEF tree, same, Value
    <3> QED
      BY <1>4, <3>1 DEF evalRule
  <2>5. after(k + 1) = st
    BY <1>1, <2>1, ExpandedReading DEF L
  <2>6. \A i \in 1..M : MeansValue(e, record, ctx, i)
    <3>1. Op("&") \notin Refused
      <4>1. Op("&").k = "&" /\ Constant.k = "const" /\ NoList.k = "text"
        BY DEF Op, Constant, NoList
      <4> QED
        BY <4>1 DEF Refused
    <3>2. ASSUME NEW i \in 1..M
          PROVE  e[i] \notin Refused
      <4>1. CASE i \in 1..k
        BY <2>1, <3>1, <4>1
      <4>2. CASE i \notin 1..k
        <5>1. i - k \in 1..L /\ k + (i - k) = i
          BY <1>1, <2>1, <4>2
        <5>2. e[i] = s[i - k]
          BY <2>1, <5>1
        <5> QED
          BY <1>1, <5>1, <5>2 DEF Accepted
      <4> QED
        BY <4>1, <4>2
    <3>3. Accepted(e)
      BY <2>1, <3>2 DEF Accepted
    <3> QED
      BY <2>1, <2>3, <3>3, NodesMeanValues
  <2>7. after(M + 1) = [ok |-> TRUE, stack |-> <<>>]
    BY <2>1, <2>3, AfterDefined
  <2>8. CASE st.ok
    <3>1. Len(st.stack) = needed(s) + 1
      BY <1>1, <2>2, <2>8, ResultsLeft DEF L
    <3>2. st.stack # <<>> /\ st \in Stacks
      <4>1. MeansValue(s, record, ctx, 1)
        BY <1>1, <2>2, NodesMeanValues DEF L
      <4>2. 1 \in 1..(L + 1)
        BY <1>1
      <4>3. st \in Stacks
        BY <1>1, <4>2, AfterDefined DEF Finished, L
      <4> QED
        BY <2>8, <4>1, <4>3 DEF MeansValue, Finished
    <3>3. Len(st.stack) \in Nat /\ Len(st.stack) >= 1
      BY <3>2 DEF Stacks
    <3>4. Len(st.stack) = k + 1
      BY <2>1, <3>1, <3>3 DEF k
    <3>5. /\ Finished(e, record, ctx).ok /\ Len(Finished(e, record, ctx).stack) = 1
          /\ AllHold(Finished(e, record, ctx).stack) <=> AllHold(st.stack)
      <4> HIDE DEF st
      <4>1. after(k + 1).ok /\ Len(after(k + 1).stack) = k + 1
        BY <2>5, <2>8, <3>4
      <4> QED
        BY <1>1, <2>1, <2>5, <4>1, JoinAll
    <3> DEFINE top == Finished(e, record, ctx)
    <3>6. /\ next(1) \in 2..(M + 1) /\ after(next(1)).ok
          /\ top.stack[1] = Value(e, record, ctx)[1] /\ Tail(top.stack) = after(next(1)).stack
      <4>1. MeansValue(e, record, ctx, 1)
        BY <2>3, <2>6
      <4> QED
        BY <2>1, <3>5, <4>1 DEF MeansValue, Finished
    <3>7. top \in Stacks
      <4>1. 1 \in 1..(M + 1)
        BY <2>3
      <4> QED
        BY <2>1, <2>3, <4>1, AfterDefined DEF Finished
    <3>8. Tail(top.stack) = <<>> /\ DOMAIN top.stack = {1}
      <4>1. top.stack \in Seq(BOOLEAN) /\ Len(top.stack) = 1
        BY <3>5, <3>7 DEF Stacks
      <4> QED
        BY <4>1, Single
    <3>9. next(1) = M + 1
      <4> SUFFICES ASSUME next(1) # M + 1 PROVE FALSE
        OBVIOUS
      <4>1. next(1) \in 1..M
        BY <2>3, <3>6
      <4>2. MeansValue(e, record, ctx, next(1))
        BY <2>6, <4>1
      <4>3. after(next(1)).stack # <<>>
        BY <3>6, <4>2 DEF MeansValue
      <4> QED
        BY <3>6, <3>8, <4>3
    <3>10. AllHold(top.stack) <=> Value(e, record, ctx)[1]
      <4> HIDE DEF top
      <4>1. AllHold(top.stack) <=> top.stack[1]
        BY <3>8 DEF AllHold
      <4> QED
        BY <3>6, <4>1
    <3> HIDE DEF st, top
    <3> QED
      BY <1>2, <2>4, <2>8, <3>5, <3>9, <3>10 DEF top
  <2>9. CASE ~st.ok
    <3>1. ASSUME next(1) = M + 1
          PROVE  FALSE
      <4>1. MeansValue(e, record, ctx, 1)
        BY <2>3, <2>6
      <4>2. next(1) # 0 /\ after(next(1)).ok
        BY <2>3, <2>7, <3>1
      <4>3. Finished(e, record, ctx).ok
        BY <4>1, <4>2 DEF MeansValue, Finished
      <4>4. k + 1 \in 1..(M + 1)
        BY <1>1, <2>1
      <4>5. after(k + 1).ok
        BY <2>1, <2>3, <4>3, <4>4, FailsBefore
      <4> QED
        BY <2>5, <2>9, <4>5
    <3> HIDE DEF st
    <3> QED
      BY <1>2, <2>4, <2>9, <3>1
  <2> QED
    BY <2>8, <2>9
<1> QED
  BY <1>3, <1>4

\* A rule passes exactly where its domain is read and holds.
LEMMA EvalRuleIsDomainHolds ==
    ASSUME NEW S, NEW s \in Seq(S), NEW record, NEW ctx
    PROVE  evalRule(s, record, ctx) <=> Accepted(s) /\ DomainHolds(s, record, ctx)
<1>1. CASE Accepted(s)
  BY <1>1, AcceptedIsDomainHolds
<1>2. CASE ~Accepted(s)
  BY <1>2 DEF evalRule
<1> QED
  BY <1>1, <1>2
-----------------------------------------------------------------------------
(* The pipeline of AccessTrace. *)

UserVerdict ==
    IF "res.users" \notin trace.models THEN "ERROR"
    ELSE IF trace.user.found /\ trace.user.active THEN "OK" ELSE "DENIED"
GroupsVerdict == IF "res.groups" \notin trace.models \/ trace.known = {} THEN "ERROR" ELSE "OK"
ModelVerdict ==
    IF ~trace.modelFound THEN "ERROR"
    ELSE IF \E a \in trace.accesses : ruleApplies(a) /\ a.perm THEN "OK" ELSE "DENIED"
Covering == {r \in trace.rules : recordRulePermForOp(r)}
OfGroups == {r \in Covering : r.groups # {}}
RulesVerdict ==
    IF Covering = {} THEN "SKIPPED"
    ELSE IF OfGroups # {} /\ (\A r \in OfGroups : ~Applies(r)) THEN "DENIED" ELSE "OK"
DomainVerdict ==
    IF DOMAIN trace.record = {} THEN "SKIPPED"
    ELSE IF evaluateGlobalRules /\ evaluateGroupRules THEN "OK" ELSE "DENIED"

Verdict == {"OK", "DENIED", "ERROR", "SKIPPED"}

\* Sets that hold the user's own groups and all that their groups imply.
Closed ==
    {s \in SUBSET Group :
       trace.direct \subseteq s /\ \A g \in s \cap trace.known : trace.implied[g] \subseteq s}

\* While stage 2 runs, the groups hold what those not queued imply, and no
\* group that a closed set does not hold.
ExpandingInv ==
    /\ Len(stages) = 1 /\ stages[1] = "OK" /\ ~Superuser /\ GroupsVerdict = "OK" /\ verdict = "NONE"
    /\ groups \subseteq Group /\ queue \subseteq groups /\ trace.direct \subseteq groups
    /\ \A g \in (groups \ queue) \cap trace.known : trace.implied[g] \subseteq groups
    /\ \A s \in Closed : groups \subseteq s

\* Each stage has come to its verdict, and only the last one may end the pipeline.
Stage1Inv == Len(stages) >= 1 => stages[1] = UserVerdict
Stage2Inv ==
    Len(stages) >= 2 =>
      /\ stages[1] = "OK" /\ ~Superuser
      /\ stages[2] = GroupsVerdict /\ (stages[2] = "OK" => groups = Effective)
Stage3Inv == Len(stages) >= 3 => stages[2] = "OK" /\ stages[3] = ModelVerdict
Stage4Inv ==
    Len(stages) >= 4 =>
      /\ stages[3] = "OK" /\ stages[4] = RulesVerdict
      /\ detail = [global |-> Covering \ OfGroups, group |-> OfGroups]
Stage5Inv == Len(stages) >= 5 => stages[4] = "OK" /\ stages[5] = DomainVerdict
StagesInv ==
    /\ stages \in Seq(Verdict) /\ Len(stages) \in 0..5
    /\ Stage1Inv /\ Stage2Inv /\ Stage3Inv /\ Stage4Inv /\ Stage5Inv

\* The response is built at the end of the pipeline, from the verdicts.
ResponseInv == verdict # "NONE" => Stopped /\ verdict = Answer

TraceInv == WellFormed(trace) /\ (expanding => ExpandingInv) /\ StagesInv /\ ResponseInv

LEMMA StageAppended ==
    ASSUME stages \in Seq(Verdict), NEW v \in Verdict, stages' = Append(stages, v)
    PROVE  /\ stages' \in Seq(Verdict) /\ Len(stages') = Len(stages) + 1
           /\ stages'[Len(stages) + 1] = v /\ Len(stages) \in Nat
           /\ \A i \in 1..Len(stages) : stages'[i] = stages[i]
<1>1. Append(stages, v) \in Seq(Verdict)
  BY AppendProperties
<1> QED
  BY <1>1, AppendProperties

LEMMA VerdictsAre ==
    /\ UserVerdict \in Verdict /\ GroupsVerdict \in Verdict /\ ModelVerdict \in Verdict
    /\ RulesVerdict \in Verdict /\ DomainVerdict \in Verdict
BY DEF UserVerdict, GroupsVerdict, ModelVerdict, RulesVerdict, DomainVerdict, Verdict

\* The verdicts depend on the request and on the groups found only.
LEMMA SameVerdicts ==
    ASSUME trace' = trace
    PROVE  /\ UserVerdict' = UserVerdict /\ GroupsVerdict' = GroupsVerdict
           /\ Superuser' = Superuser /\ Effective' = Effective /\ WellFormed(trace)' = WellFormed(trace)
           /\ Closed' = Closed /\ Covering' = Covering /\ OfGroups' = OfGroups
           /\ groups' = groups => ModelVerdict' = ModelVerdict /\ RulesVerdict' = RulesVerdict
           /\ groups' = groups /\ detail' = detail => DomainVerdict' = DomainVerdict
<1>1. /\ UserVerdict' = UserVerdict /\ GroupsVerdict' = GroupsVerdict
      /\ Superuser' = Superuser /\ Effective' = Effective /\ WellFormed(trace)' = WellFormed(trace)
      /\ Closed' = Closed
  BY DEF UserVerdict, GroupsVerdict, Superuser, Effective, WellFormed, Closed
<1>2. Covering' = Covering /\ OfGroups' = OfGroups
  BY DEF Covering, OfGroups, recordRulePermForOp
<1>3. ASSUME groups' = groups
      PROVE  ModelVerdict' = ModelVerdict /\ RulesVerdict' = RulesVerdict
  BY <1>2, <1>3 DEF ModelVerdict, RulesVerdict, ruleApplies, Applies
<1>4. ASSUME groups' = groups, detail' = detail
      PROVE  DomainVerdict' = DomainVerdict
  BY <1>4 DEF DomainVerdict, evaluateGlobalRules, evaluateGroupRules, Applies
<1> QED
  BY <1>1, <1>2, <1>3, <1>4

\* What a closed set of groups holds whose groups are in every closed set.
LEMMA GroupsFound ==
    ASSUME ExpandingInv, queue = {}
    PROVE  groups = Effective
<1>1. groups \in Closed
  BY DEF ExpandingInv, Closed
<1>2. Effective = {g \in Group : \A s \in Closed : g \in s}
  BY DEF Effective, Closed
<1> QED
  BY <1>1, <1>2 DEF ExpandingInv

LEMMA ExpandGroupKeeps ==
    ASSUME TraceInv, ExpandGroup
    PROVE  ExpandingInv'
<1>1. /\ expanding /\ ExpandingInv /\ WellFormed(trace)
      /\ UNCHANGED <<trace, stages, expanding, detail, verdict>>
  BY DEF TraceInv, ExpandGroup
<1>2. PICK g \in queue :
         LET new == (IF g \in trace.known THEN trace.implied[g] ELSE {}) \ groups
         IN  groups' = groups \cup new /\ queue' = (queue \ {g}) \cup new
  BY DEF ExpandGroup
<1> DEFINE implied == IF g \in trace.known THEN trace.implied[g] ELSE {}
<1>3. groups' = groups \cup implied /\ queue' = (queue \ {g}) \cup (implied \ groups)
  BY <1>2
<1>4. implied \subseteq Group /\ g \in groups
  BY <1>1 DEF WellFormed, ExpandingInv
<1>5. groups' \subseteq Group /\ queue' \subseteq groups' /\ trace'.direct \subseteq groups'
  BY <1>1, <1>3, <1>4 DEF ExpandingInv
<1>6. \A h \in (groups' \ queue') \cap trace'.known : trace'.implied[h] \subseteq groups'
  <2> SUFFICES ASSUME NEW h \in (groups' \ queue') \cap trace.known
               PROVE  trace.implied[h] \subseteq groups'
    BY <1>1
  <2>1. CASE h = g
    BY <1>3, <2>1
  <2>2. CASE h # g
    <3>1. h \in (groups \ queue) \cap trace.known
      BY <1>3, <2>2
    <3> HIDE DEF implied
    <3> QED
      BY <1>1, <1>3, <3>1 DEF ExpandingInv
  <2> QED
    BY <2>1, <2>2
<1>7. \A s \in Closed : groups' \subseteq s
  <2> SUFFICES ASSUME NEW s \in Closed
               PROVE  groups' \subseteq s
    OBVIOUS
  <2>1. groups \subseteq s /\ g \in s
    BY <1>1, <1>4 DEF ExpandingInv
  <2>2. implied \subseteq s
    BY <2>1 DEF Closed
  <2> HIDE DEF implied
  <2> QED
    BY <1>3, <2>1, <2>2
<1>8. Closed' = Closed /\ Superuser' = Superuser /\ GroupsVerdict' = GroupsVerdict
  BY <1>1, SameVerdicts
<1> HIDE DEF implied
<1> QED
  BY <1>1, <1>5, <1>6, <1>7, <1>8 DEF ExpandingInv

LEMMA TraceInitHolds ==
    ASSUME TraceInit
    PROVE  TraceInv
<1>1. stages = <<>> /\ stages \in Seq(Verdict) /\ Len(stages) = 0
  BY EmptySeq DEF TraceInit
<1>2. StagesInv
  BY <1>1 DEF StagesInv, Stage1Inv, Stage2Inv, Stage3Inv, Stage4Inv, Stage5Inv
<1> QED
  BY <1>2 DEF TraceInit, TraceInv, ResponseInv

\* A step of the pipeline between stages leaves the verdicts as they are.
LEMMA StagesSame ==
    ASSUME StagesInv, UNCHANGED <<trace, stages, detail>>,
           groups' = groups \/ Len(stages) < 2
    PROVE  StagesInv'
<1>1. /\ UserVerdict' = UserVerdict /\ GroupsVerdict' = GroupsVerdict /\ Superuser' = Superuser
      /\ Effective' = Effective /\ Covering' = Covering /\ OfGroups' = OfGroups
      /\ groups' = groups => ModelVerdict' = ModelVerdict /\ RulesVerdict' = RulesVerdict
      /\ groups' = groups => DomainVerdict' = DomainVerdict
  BY SameVerdicts
<1>2. Len(stages) \in 0..5 /\ stages \in Seq(Verdict)
  BY DEF StagesInv
<1>3. Stage1Inv'
  BY <1>1 DEF StagesInv, Stage1Inv
<1>4. Stage2Inv'
  BY <1>1, <1>2 DEF StagesInv, Stage2Inv
<1>5. Stage3Inv'
  BY <1>1, <1>2 DEF StagesInv, Stage3Inv
<1>6. Stage4Inv'
  BY <1>1, <1>2 DEF StagesInv, Stage4Inv
<1>7. Stage5Inv'
  BY <1>1, <1>2 DEF StagesInv, Stage5Inv
<1> QED
  BY <1>2, <1>3, <1>4, <1>5, <1>6, <1>7 DEF StagesInv

\* The stage before the one the pipeline is at did not end it.
LEMMA AtStageMeans ==
    ASSUME StagesInv, NEW n \in 1..5, AtStage(n)
    PROVE  /\ Len(stages) = n - 1 /\ verdict = "NONE"
           /\ n > 1 => stages[n - 1] \notin {"DENIED", "ERROR"}
<1>1. DOMAIN stages = 1..Len(stages)
  BY DEF StagesInv
<1> QED
  BY <1>1 DEF AtStage

\* The end of a stage: v is the verdict of stage n.
LEMMA StageEnds ==
    ASSUME TraceInv, NEW n \in 1..5, Len(stages) = n - 1, verdict = "NONE",
           UNCHANGED <<trace, verdict, groups>>, ~expanding',
           NEW v \in Verdict, stages' = Append(stages, v),
           n # 4 => detail' = detail,
           n = 1 => v = UserVerdict,
           n = 2 => stages[1] = "OK" /\ ~Superuser /\ v = GroupsVerdict /\ (v = "OK" => groups = Effective),
           n = 3 => stages[2] = "OK" /\ v = ModelVerdict,
           n = 4 => /\ stages[3] = "OK" /\ v = RulesVerdict
                    /\ detail' = [global |-> Covering \ OfGroups, group |-> OfGroups],
           n = 5 => stages[4] = "OK" /\ v = DomainVerdict
    PROVE  TraceInv'
<1>1. stages \in Seq(Verdict) /\ StagesInv /\ WellFormed(trace)
  BY DEF TraceInv, StagesInv
<1>2. /\ stages' \in Seq(Verdict) /\ Len(stages') = n /\ stages'[n] = v
      /\ \A i \in 1..(n - 1) : stages'[i] = stages[i]
  BY <1>1, StageAppended
<1>3. /\ UserVerdict' = UserVerdict /\ GroupsVerdict' = GroupsVerdict
      /\ Superuser' = Superuser /\ Effective' = Effective
      /\ Covering' = Covering /\ OfGroups' = OfGroups
      /\ ModelVerdict' = ModelVerdict /\ RulesVerdict' = RulesVerdict
      /\ n # 4 => DomainVerdict' = DomainVerdict
      /\ WellFormed(trace)'
  BY <1>1, SameVerdicts
<1>4. /\ n > 1 => stages'[1] = stages[1]
      /\ n > 2 => stages'[2] = stages[2]
      /\ n > 3 => stages'[3] = stages[3]
      /\ n > 4 => stages'[4] = stages[4]
  BY <1>2
<1>5. Stage1Inv'
  <2>1. CASE n = 1
    BY <1>2, <1>3, <2>1 DEF Stage1Inv
  <2>2. CASE n > 1
    BY <1>1, <1>2, <1>3, <1>4, <2>2 DEF StagesInv, Stage1Inv
  <2> QED
    BY <2>1, <2>2
<1>6. Stage2Inv'
  <2>1. CASE n < 2
    BY <1>2, <2>1 DEF Stage2Inv
  <2>2. CASE n = 2
    BY <1>2, <1>3, <1>4, <2>2 DEF Stage2Inv
  <2>3. CASE n > 2
    BY <1>1, <1>2, <1>3, <1>4, <2>3 DEF StagesInv, Stage2Inv
  <2> QED
    BY <2>1, <2>2, <2>3
<1>7. Stage3Inv'
  <2>1. CASE n < 3
    BY <1>2, <2>1 DEF Stage3Inv
  <2>2. CASE n = 3
    BY <1>2, <1>3, <1>4, <2>2 DEF Stage3Inv
  <2>3. CASE n > 3
    BY <1>1, <1>2, <1>3, <1>4, <2>3 DEF StagesInv, Stage3Inv
  <2> QED
    BY <2>1, <2>2, <2>3
<1>8. Stage4Inv'
  <2>1. CASE n < 4
    BY <1>2, <2>1 DEF Stage4Inv
  <2>2. CASE n = 4
    BY <1>2, <1>3, <1>4, <2>2 DEF Stage4Inv
  <2>3. CASE n > 4
    BY <1>1, <1>2, <1>3, <1>4, <2>3 DEF StagesInv, Stage4Inv
  <2> QED
    BY <2>1, <2>2, <2>3
<1>9. Stage5Inv'
  <2>1. CASE n < 5
    BY <1>2, <2>1 DEF Stage5Inv
  <2>2. CASE n = 5
    BY <1>2, <1>3, <1>4, <2>2 DEF Stage5Inv
  <2> QED
    BY <2>1, <2>2
<1>10. StagesInv'
  BY <1>2, <1>5, <1>6, <1>7, <1>8, <1>9 DEF StagesInv
<1> QED
  BY <1>3, <1>10 DEF TraceInv, ResponseInv

LEMMA TraceStep ==
    ASSUME TraceInv, [TraceNext]_traceVars
    PROVE  TraceInv'
<1>1. WellFormed(trace) /\ StagesInv /\ ResponseInv /\ (expanding => ExpandingInv)
  BY DEF TraceInv
<1>2. stages \in Seq(Verdict) /\ Len(stages) \in Nat
  BY <1>1 DEF StagesInv
<1>3. ASSUME NEW n \in 1..5, AtStage(n), n # 2
      PROVE  ~expanding
  <2>1. Len(stages) = n - 1
    BY <1>1, <1>3, AtStageMeans
  <2>2. expanding => Len(stages) = 1
    BY <1>1 DEF ExpandingInv
  <2> QED
    BY <1>3, <2>1, <2>2
<1>4. CASE UNCHANGED traceVars
  <2>1. UNCHANGED <<trace, stages, expanding, queue, groups, detail, verdict>>
    BY <1>4 DEF traceVars
  <2>2. StagesInv'
    BY <1>1, <2>1, StagesSame
  <2>3. WellFormed(trace)'
    BY <1>1, <2>1, SameVerdicts
  <2>4. expanding' => ExpandingInv'
    <3>1. Closed' = Closed /\ Superuser' = Superuser /\ GroupsVerdict' = GroupsVerdict
      BY <2>1, SameVerdicts
    <3> QED
      BY <1>1, <2>1, <3>1 DEF ExpandingInv
  <2>5. ResponseInv'
    BY <1>1, <2>1 DEF ResponseInv, Stopped, Answer, Superuser
  <2> QED
    BY <2>2, <2>3, <2>4, <2>5 DEF TraceInv
<1>5. CASE ExpandGroup
  <2>1. UNCHANGED <<trace, stages, expanding, detail, verdict>> /\ expanding
    BY <1>5 DEF ExpandGroup
  <2>2. Len(stages) = 1 /\ verdict = "NONE"
    BY <1>1, <2>1 DEF ExpandingInv
  <2>3. Len(stages) < 2
    BY <2>2
  <2>4. StagesInv'
    BY <1>1, <2>1, <2>3, StagesSame
  <2>5. WellFormed(trace)'
    BY <1>1, <2>1, SameVerdicts
  <2> QED
    BY <1>5, <2>1, <2>2, <2>4, <2>5, ExpandGroupKeeps DEF TraceInv, ResponseInv
<1>6. CASE BuildResponse
  <2>1. UNCHANGED <<trace, stages, expanding, queue, groups, detail>> /\ Stopped /\ verdict' = Answer
    BY <1>6 DEF BuildResponse, found
  <2>2. ~expanding
    <3> SUFFICES ASSUME expanding PROVE FALSE
      OBVIOUS
    <3>1. Len(stages) = 1 /\ stages[1] = "OK" /\ ~Superuser
      BY <1>1 DEF ExpandingInv
    <3> QED
      BY <2>1, <3>1 DEF Stopped
  <2>3. StagesInv'
    BY <1>1, <2>1, StagesSame
  <2>4. WellFormed(trace)'
    BY <1>1, <2>1, SameVerdicts
  <2>5. ResponseInv'
    <3>1. Stopped' = Stopped /\ Answer' = Answer
      BY <2>1 DEF Stopped, Answer, Superuser
    <3> QED
      BY <2>1, <3>1 DEF ResponseInv
  <2> QED
    BY <2>1, <2>2, <2>3, <2>4, <2>5 DEF TraceInv
<1>7. CASE ResolveUser
  <2>1. AtStage(1) /\ UNCHANGED <<trace, expanding, groups, detail, verdict>>
    BY <1>7 DEF ResolveUser, found
  <2>2. stages' = Append(stages, UserVerdict)
    BY <1>7 DEF ResolveUser, Stage, UserVerdict
  <2>3. Len(stages) = 1 - 1 /\ verdict = "NONE" /\ ~expanding
    BY <1>1, <1>3, <2>1, AtStageMeans
  <2> QED
    BY <2>1, <2>2, <2>3, VerdictsAre, StageEnds
<1>8. CASE ResolveGroups
  <2>1. AtStage(2) /\ ~Superuser /\ ~expanding /\ UNCHANGED <<trace, detail, verdict>>
    BY <1>8 DEF ResolveGroups
  <2>2. Len(stages) = 1 /\ verdict = "NONE" /\ stages[1] = "OK"
    <3>1. Len(stages) = 2 - 1 /\ verdict = "NONE" /\ stages[2 - 1] \notin {"DENIED", "ERROR"}
      <4>1. 2 \in 1..5 /\ 2 > 1
        OBVIOUS
      <4> QED
        BY <1>1, <2>1, <4>1, AtStageMeans
    <3>2. stages[1] = UserVerdict
      BY <1>1, <3>1 DEF StagesInv, Stage1Inv
    <3> QED
      BY <3>1, <3>2 DEF UserVerdict
  <2>3. CASE GroupsVerdict = "ERROR"
    <3>1. stages' = Append(stages, GroupsVerdict) /\ UNCHANGED <<expanding, groups>>
      BY <1>8, <2>3 DEF ResolveGroups, Stage, GroupsVerdict
    <3> QED
      BY <2>1, <2>2, <2>3, <3>1, VerdictsAre, StageEnds
  <2>4. CASE GroupsVerdict = "OK"
    <3>1. expanding' /\ queue' = trace.direct /\ groups' = trace.direct /\ UNCHANGED stages
      BY <1>8, <2>4 DEF ResolveGroups, GroupsVerdict
    <3>2. StagesInv'
      <4>1. Len(stages) < 2
        BY <2>2
      <4> QED
        BY <1>1, <2>1, <3>1, <4>1, StagesSame
    <3>3. ExpandingInv'
      <4>1. trace.direct \subseteq Group /\ \A s \in Closed : trace.direct \subseteq s
        BY <1>1 DEF WellFormed, Closed
      <4>2. Closed' = Closed /\ Superuser' = Superuser /\ GroupsVerdict' = GroupsVerdict
        BY <2>1, SameVerdicts
      <4> QED
        BY <2>1, <2>2, <2>4, <3>1, <4>1, <4>2 DEF ExpandingInv
    <3>4. WellFormed(trace)'
      BY <1>1, <2>1, SameVerdicts
    <3> QED
      BY <2>1, <2>2, <3>2, <3>3, <3>4 DEF TraceInv, ResponseInv
  <2> QED
    BY <2>3, <2>4 DEF GroupsVerdict
<1>9. CASE GroupsResolved
  <2>1. /\ expanding /\ queue = {} /\ ~expanding'
        /\ stages' = Append(stages, "OK") /\ UNCHANGED <<trace, groups, detail, verdict>>
    BY <1>9 DEF GroupsResolved, Stage
  <2>2. Len(stages) = 1 /\ verdict = "NONE" /\ stages[1] = "OK" /\ ~Superuser /\ GroupsVerdict = "OK"
    BY <1>1, <2>1 DEF ExpandingInv
  <2>3. groups = Effective
    BY <1>1, <2>1, GroupsFound
  <2> QED
    BY <2>1, <2>2, <2>3, VerdictsAre, StageEnds
<1>10. CASE CheckModelACL
  <2>1. AtStage(3) /\ UNCHANGED <<trace, expanding, groups, detail, verdict>>
    BY <1>10 DEF CheckModelACL, found
  <2>2. stages' = Append(stages, ModelVerdict)
    BY <1>10 DEF CheckModelACL, Stage, ModelVerdict
  <2>3. Len(stages) = 3 - 1 /\ verdict = "NONE" /\ stages[3 - 1] \notin {"DENIED", "ERROR"} /\ ~expanding
    <3>1. 3 \in 1..5 /\ 3 # 2 /\ 3 > 1
      OBVIOUS
    <3>2. ~expanding
      BY <1>3, <2>1, <3>1
    <3> QED
      BY <1>1, <2>1, <3>1, <3>2, AtStageMeans
  <2>4. stages[2] = "OK"
    BY <1>1, <2>3 DEF StagesInv, Stage2Inv, GroupsVerdict
  <2> QED
    BY <2>1, <2>2, <2>3, <2>4, VerdictsAre, StageEnds
<1>11. CASE FindRecordRules
  <2>1. AtStage(4) /\ UNCHANGED <<trace, expanding, groups, verdict>>
    BY <1>11 DEF FindRecordRules
  <2>2. stages' = Append(stages, RulesVerdict)
    BY <1>11 DEF FindRecordRules, Stage, RulesVerdict, Covering, OfGroups
  <2>3. detail' = [global |-> Covering \ OfGroups, group |-> OfGroups]
    BY <1>11 DEF FindRecordRules, Covering, OfGroups
  <2>4. Len(stages) = 4 - 1 /\ verdict = "NONE" /\ stages[4 - 1] \notin {"DENIED", "ERROR"} /\ ~expanding
    <3>1. 4 \in 1..5 /\ 4 # 2 /\ 4 > 1
      OBVIOUS
    <3>2. ~expanding
      BY <1>3, <2>1, <3>1
    <3> QED
      BY <1>1, <2>1, <3>1, <3>2, AtStageMeans
  <2>5. stages[3] = "OK"
    BY <1>1, <2>4 DEF StagesInv, Stage3Inv, ModelVerdict
  <2> QED
    BY <2>1, <2>2, <2>3, <2>4, <2>5, VerdictsAre, StageEnds
<1>12. CASE EvaluateDomain
  <2>1. AtStage(5) /\ UNCHANGED <<trace, expanding, groups, detail, verdict>> /\ stages[4] = "OK"
    BY <1>12 DEF EvaluateDomain, found
  <2>2. stages' = Append(stages, DomainVerdict)
    BY <1>12 DEF EvaluateDomain, Stage, DomainVerdict
  <2>3. Len(stages) = 5 - 1 /\ verdict = "NONE" /\ ~expanding
    <3>1. 5 \in 1..5 /\ 5 # 2 /\ 5 > 1
      OBVIOUS
    <3>2. ~expanding
      BY <1>3, <2>1, <3>1
    <3> QED
      BY <1>1, <2>1, <3>1, <3>2, AtStageMeans
  <2> QED
    BY <2>1, <2>2, <2>3, VerdictsAre, StageEnds
<1> QED
  BY <1>4, <1>5, <1>6, <1>7, <1>8, <1>9, <1>10, <1>11, <1>12 DEF TraceNext

\* Where the access rules and the record rules of the request are decided with
\* the effective groups, they decide as the definition of what is granted does,
\* and deny more where a domain is not accepted.
LEMMA RulesDecide ==
    ASSUME WellFormed(trace), groups = Effective,
           detail = [global |-> Covering \ OfGroups, group |-> OfGroups]
    PROVE  /\ RulesVerdict = "SKIPPED" => RulesGrant
           /\ RulesVerdict = "DENIED" => ~RulesGrant
           /\ RulesVerdict = "OK" =>
                /\ evaluateGlobalRules /\ evaluateGroupRules => RulesGrant
                /\ RulesGrant /\ AllAccepted => evaluateGlobalRules /\ evaluateGroupRules
<1> DEFINE Holds(r) == DomainHolds(r.domain, trace.record, trace.ctx)
           Passes(r) == evalRule(r.domain, trace.record, trace.ctx)
<1>1. \A r \in trace.rules : Passes(r) <=> Accepted(r.domain) /\ Holds(r)
  BY EvalRuleIsDomainHolds DEF WellFormed
<1>2. Covering \subseteq trace.rules /\ OfGroups \subseteq Covering
  BY DEF Covering, OfGroups
<1>3. detail.global = Covering \ OfGroups /\ detail.group = OfGroups
  OBVIOUS
<1>4. RulesGrant <=> /\ \A r \in Covering : r.groups = {} => Holds(r)
                     /\ OfGroups # {} => \E r \in Covering : r.groups \cap groups # {} /\ Holds(r)
  BY DEF RulesGrant, Covering, OfGroups, recordRulePermForOp
<1> HIDE DEF Holds, Passes
<1>5. \A r \in OfGroups : Applies(r) <=> r.groups \cap groups # {}
  BY DEF OfGroups, Applies
<1>6. \A r \in Covering : r.groups \cap groups # {} => r \in OfGroups
  BY DEF OfGroups
<1>7. \A r \in Covering : r \in Covering \ OfGroups <=> r.groups = {}
  BY DEF OfGroups
<1>8. /\ evaluateGlobalRules <=> \A r \in Covering : r.groups = {} => Passes(r)
      /\ \A r \in Covering : Passes(r) => Holds(r)
      /\ AllAccepted => \A r \in Covering : Passes(r) <=> Holds(r)
  <2>1. evaluateGlobalRules <=> \A r \in Covering \ OfGroups : Passes(r)
    BY <1>3 DEF evaluateGlobalRules, Passes
  <2>2. AllAccepted => \A r \in Covering : Accepted(r.domain)
    BY DEF AllAccepted, Covering
  <2> QED
    BY <1>1, <1>2, <1>7, <2>1, <2>2
<1>9. evaluateGroupRules <=>
         ((\E r \in OfGroups : Applies(r)) => \E r \in OfGroups : Applies(r) /\ Passes(r))
  BY <1>3 DEF evaluateGroupRules, Passes
<1>10. RulesVerdict = "SKIPPED" <=> Covering = {}
  BY DEF RulesVerdict
<1>11. RulesVerdict = "DENIED" <=> OfGroups # {} /\ \A r \in OfGroups : ~Applies(r)
  BY <1>2 DEF RulesVerdict
<1>12. RulesVerdict = "OK" => OfGroups = {} \/ \E r \in OfGroups : Applies(r)
  BY DEF RulesVerdict
<1>13. RulesVerdict = "SKIPPED" => RulesGrant
  BY <1>2, <1>4, <1>10
<1>14. RulesVerdict = "DENIED" => ~RulesGrant
  BY <1>4, <1>5, <1>6, <1>11
<1>15. ASSUME RulesVerdict = "OK"
       PROVE  /\ evaluateGlobalRules /\ evaluateGroupRules => RulesGrant
              /\ RulesGrant /\ AllAccepted => evaluateGlobalRules /\ evaluateGroupRules
  <2>1. CASE OfGroups = {}
    BY <1>4, <1>8, <1>9, <2>1
  <2>2. CASE \E r \in OfGroups : Applies(r)
    <3>1. evaluateGroupRules <=> \E r \in OfGroups : Applies(r) /\ Passes(r)
      BY <1>9, <2>2
    <3>2. /\ (\E r \in OfGroups : Applies(r) /\ Holds(r))
               <=> \E r \in Covering : r.groups \cap groups # {} /\ Holds(r)
          /\ evaluateGroupRules => \E r \in OfGroups : Applies(r) /\ Holds(r)
          /\ AllAccepted /\ (\E r \in OfGroups : Applies(r) /\ Holds(r)) => evaluateGroupRules
      BY <1>2, <1>5, <1>6, <1>8, <3>1
    <3>3. OfGroups # {}
      BY <2>2
    <3> QED
      BY <1>4, <1>8, <3>2, <3>3
  <2> QED
    BY <1>12, <1>15, <2>1, <2>2
<1> QED
  BY <1>13, <1>14, <1>15

\* The invariant says of the answer what VerdictMatchesRules asks.
LEMMA AnswerIsGranted ==
    ASSUME TraceInv, verdict # "NONE", Traceable
    PROVE  /\ verdict = "ALLOWED" => Granted
           /\ Granted /\ AllAccepted => verdict = "ALLOWED"
<1>1. StagesInv /\ WellFormed(trace) /\ Stopped /\ verdict = Answer
  BY DEF TraceInv, ResponseInv
<1>2. /\ stages \in Seq(Verdict) /\ Len(stages) \in 0..5
      /\ Stage1Inv /\ Stage2Inv /\ Stage3Inv /\ Stage4Inv /\ Stage5Inv
  BY <1>1 DEF StagesInv
<1>3. DOMAIN stages = 1..Len(stages) /\ Len(stages) # 0
  BY <1>1, <1>2, EmptySeq DEF Stopped
<1>4. /\ UserVerdict = "OK" <=> trace.user.found /\ trace.user.active
      /\ UserVerdict \in {"OK", "DENIED"} /\ GroupsVerdict = "OK"
      /\ ModelVerdict \in {"OK", "DENIED"} /\ DomainVerdict \in {"OK", "DENIED"}
      /\ DomainVerdict = "OK" <=> evaluateGlobalRules /\ evaluateGroupRules
  BY DEF Traceable, UserVerdict, GroupsVerdict, ModelVerdict, DomainVerdict
<1>5. stages[1] = UserVerdict
  BY <1>2, <1>3 DEF Stage1Inv
<1>6. verdict = "ALLOWED" <=> \A i \in 1..Len(stages) : stages[i] \notin {"DENIED", "ERROR"}
  BY <1>1, <1>3 DEF Answer
<1>7. CASE Len(stages) = 1
  <2>1. verdict = "ALLOWED" <=> UserVerdict = "OK"
    BY <1>4, <1>5, <1>6, <1>7
  <2>2. UserVerdict = "OK" => Superuser
    BY <1>1, <1>5, <1>7 DEF Stopped
  <2> QED
    BY <1>4, <2>1, <2>2 DEF Granted
<1>8. ASSUME Len(stages) >= 2
      PROVE  /\ stages[1] = "OK" /\ ~Superuser /\ stages[2] = "OK" /\ groups = Effective
             /\ trace.user.found /\ trace.user.active
  BY <1>2, <1>4, <1>5, <1>8 DEF Stage2Inv
<1>9. Len(stages) # 2
  <2> SUFFICES ASSUME Len(stages) = 2 PROVE FALSE
    OBVIOUS
  <2>1. stages[Len(stages)] = "OK" /\ ~Superuser
    BY <1>8
  <2> QED
    BY <1>1, <2>1 DEF Stopped
<1>10. ASSUME Len(stages) >= 3
       PROVE  /\ stages[3] = ModelVerdict
              /\ ModelVerdict = "OK" <=> \E a \in trace.accesses : a.perm /\ a.group \in Effective \cup {0}
  <2>1. groups = Effective
    BY <1>2, <1>8, <1>10
  <2>2. ModelVerdict = "OK" <=> \E a \in trace.accesses : ruleApplies(a) /\ a.perm
    BY DEF ModelVerdict, Traceable
  <2>3. \A a : ruleApplies(a) <=> a.group \in Effective \cup {0}
    BY <2>1 DEF ruleApplies
  <2>4. stages[3] = ModelVerdict
    BY <1>2, <1>10 DEF Stage3Inv
  <2> QED
    BY <2>2, <2>3, <2>4
<1>11. CASE Len(stages) = 3
  <2>1. stages[3] # "OK"
    <3>1. ~Superuser
      BY <1>8, <1>11
    <3> QED
      BY <1>1, <1>11, <3>1 DEF Stopped
  <2>2. stages[3] = "DENIED" /\ ModelVerdict # "OK"
    BY <1>4, <1>10, <1>11, <2>1
  <2>3. verdict # "ALLOWED"
    BY <1>6, <1>11, <2>2
  <2> QED
    BY <1>8, <1>10, <1>11, <2>2, <2>3 DEF Granted
<1>12. ASSUME Len(stages) >= 4
       PROVE  /\ \A i \in 1..3 : stages[i] = "OK" /\ stages[4] = RulesVerdict
              /\ Granted <=> RulesGrant
              /\ RulesVerdict = "SKIPPED" => RulesGrant
              /\ RulesVerdict = "DENIED" => ~RulesGrant
              /\ RulesVerdict = "OK" =>
                   /\ evaluateGlobalRules /\ evaluateGroupRules => RulesGrant
                   /\ RulesGrant /\ AllAccepted => evaluateGlobalRules /\ evaluateGroupRules
  <2>1. /\ stages[1] = "OK" /\ stages[2] = "OK" /\ ~Superuser /\ groups = Effective
        /\ trace.user.found /\ trace.user.active
    BY <1>2, <1>8, <1>12
  <2>2. /\ stages[3] = "OK" /\ stages[4] = RulesVerdict
        /\ detail = [global |-> Covering \ OfGroups, group |-> OfGroups]
    BY <1>2, <1>12 DEF Stage4Inv
  <2>3. \E a \in trace.accesses : a.perm /\ a.group \in Effective \cup {0}
    BY <1>2, <1>10, <1>12, <2>2
  <2>4. Granted <=> RulesGrant
    BY <2>1, <2>3 DEF Granted
  <2>5. /\ RulesVerdict = "SKIPPED" => RulesGrant
        /\ RulesVerdict = "DENIED" => ~RulesGrant
        /\ RulesVerdict = "OK" =>
             /\ evaluateGlobalRules /\ evaluateGroupRules => RulesGrant
             /\ RulesGrant /\ AllAccepted => evaluateGlobalRules /\ evaluateGroupRules
    BY <1>1, <2>1, <2>2, RulesDecide
  <2>6. \A i \in 1..3 : stages[i] = "OK"
    BY <2>1, <2>2
  <2> QED
    BY <2>2, <2>4, <2>5, <2>6
<1>13. CASE Len(stages) = 4
  <2>1. stages[4] \in {"SKIPPED", "DENIED"} /\ stages[4] = RulesVerdict
    <3>1. ~Superuser /\ stages[4] = RulesVerdict
      BY <1>8, <1>12, <1>13
    <3> QED
      BY <1>1, <1>13, <3>1 DEF Stopped, RulesVerdict
  <2>2. verdict = "ALLOWED" <=> stages[4] = "SKIPPED"
    <3>1. \A i \in 1..4 : i \in 1..3 \/ i = 4
      OBVIOUS
    <3> QED
      BY <1>6, <1>12, <1>13, <2>1, <3>1
  <2> QED
    BY <1>12, <1>13, <2>1, <2>2
<1>14. CASE Len(stages) = 5
  <2>1. stages[4] = "OK" /\ stages[5] = DomainVerdict
    BY <1>2, <1>14 DEF Stage5Inv
  <2>2. verdict = "ALLOWED" <=> DomainVerdict = "OK"
    <3>1. \A i \in 1..5 : i \in 1..3 \/ i = 4 \/ i = 5
      OBVIOUS
    <3>2. \A i \in 1..3 : stages[i] = "OK"
      BY <1>12, <1>14
    <3> QED
      BY <1>4, <1>6, <1>14, <2>1, <3>1, <3>2
  <2> QED
    BY <1>4, <1>12, <1>14, <2>1, <2>2
<1>15. Len(stages) \in {1, 2, 3, 4, 5}
  BY <1>2, <1>3
<1> QED
  BY <1>7, <1>9, <1>11, <1>13, <1>14, <1>15

\* The answer of the pipeline is what Odoo's rules grant, whatever the groups,
\* the access rules and the record rules of the request: the stages stop early,
\* expand the groups one by one and parse each domain (acl_service.go run).  It
\* never allows what they deny, and denies what they grant only where a domain
\* has an element that the parser refuses.
THEOREM VerdictIsGranted == TraceSpec => []VerdictMatchesRules
<1>1. TraceInit => TraceInv
  BY TraceInitHolds
<1>2. TraceInv /\ [TraceNext]_traceVars => TraceInv'
  BY TraceStep
<1>3. TraceInv => VerdictMatchesRules
  BY AnswerIsGranted DEF VerdictMatchesRules
<1> QED
  BY <1>1, <1>2, <1>3, PTL DEF TraceSpec
=============================================================================
