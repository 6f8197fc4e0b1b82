------------------------------ MODULE MCIngest ------------------------------
(***************************************************************************)
(* What the server does with the agents' data: the ingest worker with the  *)
(* budgets its batches are compared with, and the transactions on a row of *)
(* error_groups.  The two share no state and are explored one at a time.   *)
(***************************************************************************)
EXTENDS IngestWorker, ErrorGroups, TLC

CONSTANTS sale, stock, none, b1, b2

VARIABLE part

\* A batch of errors and ORM stats only, and one of profiler events that puts
\* one module at 33% of the time and the other at a third.
MCBatch ==
    {[rows |-> 2, events |-> <<>>],
     [rows |-> 0, events |-> <<[module |-> sale,  ms |-> 99],
                               [module |-> stock, ms |-> 60],
                               [module |-> none,  ms |-> 101],
                               [module |-> stock, ms |-> 40]>>]}
MCModuleOf == b1 :> sale @@ b2 :> stock

Symmetry == Permutations(Worker)

PartsInit ==
    /\ part \in {"worker", "row"}
    /\ IngestInit /\ RowInit
    /\ part = "worker" => viaWorker
    /\ part = "row" => /\ batch = [m \in Id |-> Malformed]
                       /\ budgets = [b \in Budget |-> NoBudget]

PartsNext ==
    /\ UNCHANGED part
    /\ \/ part = "worker" /\ IngestNext /\ UNCHANGED rowVars
       \/ part = "row" /\ RowNext /\ UNCHANGED allVars

PartsSpec == PartsInit /\ [][PartsNext]_<<part, allVars, rowVars>>
=============================================================================
