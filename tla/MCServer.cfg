SPECIFICATION PartsSpec
CONSTANTS
    Tenant = {t1, t2}
    Client = {c1, c2}
    Area = {"environments", "heartbeats", "keys", "errors", "alerts", "channels",
            "audit", "profiler", "schema", "budgets", "overview"}
    Pairs = {"heartbeats", "keys", "alerts", "schema", "budgets"}
    Names = {n1, n2}
    Types = {"production"}
    Statuses = {"active"}
    Signatures = {"s1", "s2"}
    Pages <- MCPages
    Recordings <- MCRecordings
    MaxEnvironments = 3
    MaxRows = 4
    Group = {1, 2, 3}
SYMMETRY Symmetry
INVARIANTS
    TenantIsolation
    PageWithinTotal
    NamesUniqueUnlessRaced
    VerdictMatchesRules
PROPERTIES
    RetentionKeepsTheNewest
CHECK_DEADLOCK FALSE
