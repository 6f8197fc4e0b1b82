---------------------------- MODULE SchemaSyncer ----------------------------
(***************************************************************************)
(* The agent's schema synchronisation (internal/agent/syncer): collect the *)
(* models, then the access rules, hash the payload, and push it unless the *)
(* last push that succeeded had the same hash.                             *)
(*                                                                         *)
(* A payload is the version of the models and the version of the rules it  *)
(* was collected at, and is its own hash.  A push that the agent gives up  *)
(* may still be stored by the server, then or later.                       *)
(***************************************************************************)
EXTENDS Integers, Sequences

CONSTANTS
    Version,          \* versions of the models and of the rules in Odoo
    MaxChanges,       \* bound: changes in Odoo
    MaxPushes,        \* bound: requests sent
    MaxSyncFaults     \* bound: failed collections, requests, and restarts

VARIABLES
    odoo,             \* versions in Odoo: <<models, rules>>
    changes,
    sync,             \* RunOnce: where it is, its payload and its request
    lastHash,         \* of the last push that succeeded
    inFlight,         \* requests the server has not answered
    pushes,           \* payloads of the requests sent so far
    stored,           \* requests whose snapshot is stored
    latest,           \* payload of the newest snapshot
    syncFaults,
    disturbed         \* a push the agent gave up was stored since lastHash, history

syncVars == <<odoo, changes, sync, lastHash, inFlight, pushes, stored, latest, syncFaults, disturbed>>

NoHash == <<>>
Idle == [at |-> "idle", payload |-> NoHash, request |-> 0]

SyncInit ==
    /\ odoo \in Version \X Version /\ changes = 0
    /\ sync = Idle /\ lastHash = NoHash
    /\ inFlight = {} /\ pushes = <<>> /\ stored = {} /\ latest = NoHash
    /\ syncFaults = 0 /\ disturbed = FALSE

SyncFault == syncFaults < MaxSyncFaults /\ syncFaults' = syncFaults + 1
cloud == <<inFlight, pushes, stored, latest>>

\* Modules are installed, fields added, rules edited.
OdooChanges ==
    /\ changes < MaxChanges /\ changes' = changes + 1
    /\ \E v \in Version : odoo' \in {<<v, odoo[2]>>, <<odoo[1], v>>} \ {odoo}
    /\ UNCHANGED <<sync, lastHash, cloud, syncFaults, disturbed>>
-----------------------------------------------------------------------------
(* RunOnce *)

CollectModels ==
    /\ sync.at = "idle"
    /\ sync' = [sync EXCEPT !.at = "rules", !.payload = <<odoo[1]>>]
    /\ UNCHANGED <<odoo, changes, lastHash, cloud, syncFaults, disturbed>>

\* The rules are merged into the models collected before.
CollectACLAndRules ==
    /\ sync.at = "rules"
    /\ sync' = [sync EXCEPT !.at = "compare", !.payload = Append(@, odoo[2])]
    /\ UNCHANGED <<odoo, changes, lastHash, cloud, syncFaults, disturbed>>

CollectFails ==
    /\ sync.at \in {"idle", "rules"} /\ SyncFault /\ sync' = Idle
    /\ UNCHANGED <<odoo, changes, lastHash, cloud, disturbed>>

\* "schema unchanged, skipping push"
Unchanged ==
    /\ sync.at = "compare" /\ sync.payload = lastHash
    /\ sync' = Idle
    /\ UNCHANGED <<odoo, changes, lastHash, cloud, syncFaults, disturbed>>

DoPost ==
    LET n == Len(pushes) + 1
    IN  /\ n <= MaxPushes
        /\ pushes' = Append(pushes, sync.payload)
        /\ inFlight' = inFlight \cup {n}
        /\ sync' = [sync EXCEPT !.at = IF @ = "compare" THEN "posted" ELSE "posted again", !.request = n]

\* Mutant of Push: the hash is recorded before the push has succeeded.
PushRecordedFirst ==
    /\ sync.at = "compare" /\ sync.payload # lastHash /\ DoPost
    /\ lastHash' = sync.payload
    /\ UNCHANGED <<odoo, changes, stored, latest, syncFaults, disturbed>>

Push ==
    /\ sync.at = "compare" /\ sync.payload # lastHash /\ DoPost
    /\ UNCHANGED <<odoo, changes, lastHash, stored, latest, syncFaults, disturbed>>

Posted == sync.at \in {"posted", "posted again"}

\* Auto-refresh on 401 and retry once, with the same body.
PushAgain ==
    /\ sync.at = "refreshed" /\ DoPost
    /\ UNCHANGED <<odoo, changes, lastHash, stored, latest, syncFaults, disturbed>>
PushUnauthorized ==
    /\ Posted /\ sync.request \in inFlight /\ SyncFault
    /\ inFlight' = inFlight \ {sync.request}
    /\ \/ sync.at = "posted" /\ sync' = [sync EXCEPT !.at = "refreshed"]
       \/ sync' = Idle
    /\ UNCHANGED <<odoo, changes, lastHash, pushes, stored, latest, disturbed>>

PushSucceeds ==
    /\ Posted /\ sync.request \in stored
    /\ lastHash' = sync.payload /\ sync' = Idle
    /\ UNCHANGED <<odoo, changes, cloud, syncFaults, disturbed>>

\* Timeout or a broken connection: the request may have been stored, or will be.
PushFails ==
    /\ Posted /\ SyncFault /\ sync' = Idle
    /\ disturbed' = (disturbed \/ sync.request \in stored)
    /\ UNCHANGED <<odoo, changes, lastHash, cloud>>

\* The agent is restarted and has no hash.
Restart ==
    /\ SyncFault /\ sync' = Idle /\ lastHash' = NoHash
    /\ UNCHANGED <<odoo, changes, cloud, disturbed>>
-----------------------------------------------------------------------------
(* The server *)

StoreSchema(r) ==
    /\ r \in inFlight /\ inFlight' = inFlight \ {r}
    /\ stored' = stored \cup {r} /\ latest' = pushes[r]
    /\ disturbed' = (sync.request # r)
    /\ UNCHANGED <<odoo, changes, sync, lastHash, pushes, syncFaults>>

\* The snapshot is refused or lost with its connection.
StoreFails(r) ==
    /\ r \in inFlight /\ sync.request # r /\ inFlight' = inFlight \ {r}
    /\ UNCHANGED <<odoo, changes, sync, lastHash, pushes, stored, latest, syncFaults, disturbed>>
-----------------------------------------------------------------------------
RunOnce ==
    \/ CollectModels \/ CollectACLAndRules \/ Unchanged
    \/ Push \/ PushAgain \/ PushSucceeds

Server == \E r \in inFlight : StoreSchema(r) \/ StoreFails(r)

SyncNext ==
    \/ OdooChanges \/ RunOnce \/ Server
    \/ CollectFails \/ PushUnauthorized \/ PushFails \/ Restart

-----------------------------------------------------------------------------
(* Properties *)

\* Once Odoo no longer changes, the server's newest snapshot is Odoo's schema,
\* models and rules together, in spite of snapshots collected across a change,
\* failed pushes and restarts.  The hash that skips a push is then that of the
\* newest snapshot, unless a push the agent had given up was stored since: only
\* then may a schema that changed back be skipped although the server holds
\* another (syncer.go RunLoop, RunOnce: "schema unchanged, skipping push").
SchemaArrives == sync # Idle ~> [](disturbed \/ latest = odoo)
=============================================================================
