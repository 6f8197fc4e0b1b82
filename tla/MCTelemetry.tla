----------------------------- MODULE MCTelemetry -----------------------------
(***************************************************************************)
(* The two flows from the agent to the server that must arrive in the end, *)
(* telemetry batches and schema snapshots.  They share no state and are    *)
(* explored one at a time.                                                 *)
(***************************************************************************)
EXTENDS TelemetryPipeline, SchemaSyncer

VARIABLE part

PartsInit ==
    /\ part \in {"telemetry", "schema"}
    /\ Init /\ SyncInit /\ (part = "telemetry" => odoo = <<0, 0>>)

PartsNext ==
    /\ UNCHANGED part
    /\ \/ part = "telemetry" /\ Next /\ UNCHANGED syncVars
       \/ part = "schema" /\ SyncNext /\ UNCHANGED vars

\* Before its first event the telemetry pipeline has no step to be fair to.
\* RunLoop ticks for ever, and the server handles the snapshots it received.
PartsSpec ==
    /\ PartsInit /\ [][PartsNext]_<<part, vars, syncVars>>
    /\ TelemetryFairness
    /\ WF_syncVars(part = "schema" /\ RunOnce) /\ WF_syncVars(part = "schema" /\ Server)
=============================================================================
