------------------------------ MODULE N1Tracker ------------------------------
(***************************************************************************)
(* Detection of N+1 queries in the agent (n1Tracker in                     *)
(* internal/agent/hook/ormcollector.go) and the sampler that decides which *)
(* query events are sent (internal/agent/sampler).  A query is its         *)
(* normalized signature, its timestamp in the log and whether it is slow.  *)
(* The log is written by several Odoo processes: timestamps may go back.   *)
(* EventCh is shared with the other collectors and emptied by the          *)
(* aggregator: whether it is full changes on its own.                      *)
(***************************************************************************)
EXTENDS Integers, Sequences, SequencesExt

CONSTANTS
    Signature,     \* normalized queries
    Window,        \* N1WindowSize
    Threshold,     \* N1Threshold
    PruneEvery,    \* checks between two full prunes (500)
    MaxTime,       \* bound: timestamps
    MaxChecks      \* bound: queries in the log

\* NewORMCollector replaces a window or threshold that is not positive.
ASSUME N1Assumption ==
    /\ Window \in Nat \ {0} /\ Threshold \in Nat \ {0} /\ PruneEvery \in Nat \ {0}
    /\ MaxTime \in Nat /\ MaxChecks \in Nat

VARIABLES
    recent,        \* t.recent, signature -> times
    config,        \* Sampler.config: its mode
    eventChFull,   \* EventCh holds EventChannelSize events
    seen,          \* queries so far, each with eventChFull as it came, history
    flagged,       \* Check's answers, history
    handedOn       \* indices of the events EventCh took, history

n1Vars == <<recent, config, eventChFull, seen, flagged, handedOn>>

Mode == {"full", "sampled", "aggregated_only"}

N1Init ==
    /\ recent = [s \in {} |-> <<>>] /\ config \in Mode
    /\ eventChFull = FALSE /\ seen = <<>> /\ flagged = <<>> /\ handedOn = {}

\* Mutant of Pruned: a time on the edge of the window is dropped too.
PrunedToEdge(times, cutoff) == SelectSeq(times, LAMBDA t : t > cutoff)

\* The times without the leading ones before the cutoff.
Pruned(times, cutoff) ==
    LET live == {i \in DOMAIN times : times[i] >= cutoff}
    IN  IF live = {} THEN <<>> ELSE SubSeq(times, Min(live), Len(times))

\* pruneStale: signatures without a recent time are removed.
PruneStale(r, cutoff) ==
    [s \in {x \in DOMAIN r : Pruned(r[x], cutoff) # <<>>} |-> Pruned(r[s], cutoff)]

\* The times that Check leaves for the signature, its own last.
Times(sig, ts) ==
    Append(IF sig \in DOMAIN recent THEN Pruned(recent[sig], ts - Window) ELSE <<>>, ts)

IsN1(sig, ts) == Len(Times(sig, ts)) >= Threshold

\* isCritical, then the mode; "sampled" may go either way.
Allow(n1, slow) ==
    IF n1 \/ slow \/ config = "full" THEN {TRUE}
    ELSE IF config = "aggregated_only" THEN {FALSE} ELSE BOOLEAN

\* handleEntry: Check, then Allow, then a send that does not wait: an event
\* that finds the channel full is dropped.
HandleQuery(sig, ts, slow) ==
    /\ Len(seen) < MaxChecks
    /\ LET updated == [s \in DOMAIN recent \cup {sig} |-> IF s = sig THEN Times(sig, ts) ELSE recent[s]]
       IN  recent' = IF (Len(seen) + 1) % PruneEvery = 0 THEN PruneStale(updated, ts - Window) ELSE updated
    /\ seen' = Append(seen, [sig |-> sig, ts |-> ts, full |-> eventChFull])
    /\ flagged' = Append(flagged, IsN1(sig, ts))
    /\ \E keep \in Allow(IsN1(sig, ts), slow) :
          handedOn' = IF keep /\ ~eventChFull THEN handedOn \cup {Len(seen) + 1} ELSE handedOn
    /\ UNCHANGED <<config, eventChFull>>

\* Another collector takes the last place, or the aggregator takes an event.
EventChMoves ==
    /\ eventChFull' = ~eventChFull
    /\ UNCHANGED <<recent, config, seen, flagged, handedOn>>

\* Pushed from the cloud with the feature flags.
UpdateConfig ==
    /\ config' \in Mode \ {config}
    /\ UNCHANGED <<recent, eventChFull, seen, flagged, handedOn>>

N1Next ==
    \/ \E sig \in Signature, ts \in 0..MaxTime, slow \in BOOLEAN : HandleQuery(sig, ts, slow)
    \/ UpdateConfig \/ EventChMoves

N1Spec == N1Init /\ [][N1Next]_n1Vars
-----------------------------------------------------------------------------
\* The queries up to the i-th with its signature in the window before it.
InWindow(i) == {j \in 1..i : seen[j].sig = seen[i].sig /\ seen[j].ts >= seen[i].ts - Window}

\* A query is flagged exactly when its signature was seen threshold times in
\* the window that ends with it, and its event is then sent whatever the
\* sampler's mode unless it finds EventCh full, while timestamps do not go
\* back; when they do, it may be flagged for older queries behind a newer one,
\* and a full prune may forget newer ones (ormcollector.go Check and
\* handleEntry, sampler.go isCritical).
FlaggedExactlyInOrder ==
    (\A i, j \in DOMAIN seen : i < j => seen[i].ts <= seen[j].ts) =>
        \A i \in DOMAIN seen :
            /\ flagged[i] <=> Cardinality(InWindow(i)) >= Threshold
            /\ flagged[i] => (i \in handedOn <=> ~seen[i].full)
=============================================================================
