---------------------------- MODULE RateLimiter ----------------------------
(***************************************************************************)
(* The agent-side rate limiter: two atomic counters and two atomic limits, *)
(* shared without a lock by the sender (Allow), the reset goroutine (Reset *)
(* every minute) and the feature-flag receiver (UpdateLimits).  Every step *)
(* is one atomic access, except that Allow's load of a limit and of its    *)
(* counter are one step: no other goroutine writes both.                   *)
(***************************************************************************)
EXTENDS Integers

CONSTANTS
    Size,               \* compressed batch sizes
    MaxBytesPerMinute,  \* configured limits; 0 = unlimited
    MaxBatchesPerMinute,
    FlagBytes,          \* max_bytes_per_minute values the server's flags carry
    MaxAdmitted,        \* bound: batches Allow admits in one behaviour
    MaxResets,          \* bound: ticks of the reset loop
    MaxUpdates          \* bound: flag updates

ASSUME LimiterAssumption ==
    /\ Size \subseteq Nat \ {0}
    /\ MaxBytesPerMinute \in Nat /\ MaxBatchesPerMinute \in Nat
    /\ FlagBytes \subseteq Nat \ {0}
    /\ MaxAdmitted \in Nat /\ MaxResets \in Nat /\ MaxUpdates \in Nat

VARIABLES
    maxBytes, maxBatches,           \* the limits in force
    currentBytes, currentBatches,   \* usage of the current minute
    pc,                             \* where the sender is in Allow
    compressedBytes, maxB, maxBat,  \* Allow's argument and the limits it loaded
    resetting,                      \* Reset is between its two stores
    updating,                       \* UpdateLimits is between its two stores
    resets, updates, admitted,      \* how often each was done, for the bounds
    sent                            \* history: batches admitted since the tick

limits   == <<maxBytes, maxBatches>>
counters == <<currentBytes, currentBatches>>
allow    == <<pc, compressedBytes, maxB, maxBat, admitted>>
limiterVars ==
    <<maxBytes, maxBatches, currentBytes, currentBatches, pc, compressedBytes,
      maxB, maxBat, resetting, updating, resets, updates, admitted, sent>>

\* NewRateLimiter; initRateLimiter makes one only if some limit is set.
LimiterInit ==
    /\ maxBytes = MaxBytesPerMinute /\ maxBatches = MaxBatchesPerMinute
    /\ currentBytes = 0 /\ currentBatches = 0
    /\ pc = "idle" /\ compressedBytes = 0 /\ maxB = 0 /\ maxBat = 0
    /\ resetting = FALSE /\ updating = FALSE
    /\ resets = 0 /\ updates = 0 /\ admitted = 0 /\ sent = 0
-----------------------------------------------------------------------------
(* Allow, called by the one sender *)

\* "Check bytes limit", passed: Allow goes on with the limit it loaded.  A
\* batch that would exceed it is refused, which changes nothing.
CheckBytes(n) ==
    /\ pc = "idle" /\ admitted < MaxAdmitted
    /\ maxBytes > 0 => currentBytes + n <= maxBytes
    /\ pc' = "bytes" /\ compressedBytes' = n /\ maxB' = maxBytes
    /\ UNCHANGED <<limits, counters, maxBat, resetting, updating, resets, updates,
                   admitted, sent>>

\* Mutant of CheckBatches: ">" where the code has ">=".
CheckBatchesOffByOne ==
    /\ pc = "bytes"
    /\ pc' = IF maxBatches > 0 /\ currentBatches > maxBatches
               THEN "idle" ELSE "record"
    /\ maxBat' = maxBatches
    /\ UNCHANGED <<limits, counters, compressedBytes, maxB, resetting, updating,
                   resets, updates, admitted, sent>>

\* "Check batch limit": return false, or go on to record the usage.
CheckBatches ==
    /\ pc = "bytes"
    /\ pc' = IF maxBatches > 0 /\ currentBatches >= maxBatches
               THEN "idle" ELSE "record"
    /\ maxBat' = maxBatches
    /\ UNCHANGED <<limits, counters, compressedBytes, maxB, resetting, updating,
                   resets, updates, admitted, sent>>

RecordBytes ==
    /\ pc = "record"
    /\ currentBytes' = currentBytes + compressedBytes
    /\ pc' = "count"
    /\ UNCHANGED <<limits, currentBatches, compressedBytes, maxB, maxBat,
                   resetting, updating, resets, updates, admitted, sent>>

\* The batch is counted and Allow returns true.
RecordBatch ==
    /\ pc = "count"
    /\ currentBatches' = currentBatches + 1
    /\ pc' = "idle"
    /\ admitted' = admitted + 1 /\ sent' = sent + 1
    /\ UNCHANGED <<limits, currentBytes, compressedBytes, maxB, maxBat, resetting,
                   updating, resets, updates>>
-----------------------------------------------------------------------------
(* Reset, called by resetLoop on every tick *)

ResetBytes ==
    /\ ~resetting /\ resets < MaxResets
    /\ currentBytes' = 0
    /\ resetting' = TRUE /\ resets' = resets + 1 /\ sent' = 0
    /\ UNCHANGED <<limits, currentBatches, allow, updating, updates>>

ResetBatches ==
    /\ resetting
    /\ currentBatches' = 0
    /\ resetting' = FALSE
    /\ UNCHANGED <<limits, currentBytes, allow, updating, resets, updates, sent>>
-----------------------------------------------------------------------------
(* UpdateLimits, called by the flag applier, which always passes 0 batches *)

UpdateBytes(b) ==
    /\ ~updating /\ updates < MaxUpdates
    /\ maxBytes' = b
    /\ updating' = TRUE /\ updates' = updates + 1
    /\ UNCHANGED <<maxBatches, counters, allow, resetting, resets, sent>>

UpdateBatches ==
    /\ updating
    /\ maxBatches' = 0
    /\ updating' = FALSE
    /\ UNCHANGED <<maxBytes, counters, allow, resetting, resets, updates, sent>>
-----------------------------------------------------------------------------
LimiterNext ==
    \/ \E n \in Size : CheckBytes(n)
    \/ CheckBatches \/ RecordBytes \/ RecordBatch
    \/ ResetBytes \/ ResetBatches
    \/ \E b \in FlagBytes : UpdateBytes(b)
    \/ UpdateBatches

LimiterSpec == LimiterInit /\ [][LimiterNext]_limiterVars
-----------------------------------------------------------------------------
(* Properties *)

\* The state has its type.
LimiterTypeOK ==
    /\ maxBytes \in FlagBytes \cup {MaxBytesPerMinute}
    /\ maxBatches \in {0, MaxBatchesPerMinute}
    /\ currentBytes \in Nat /\ currentBatches \in Nat
    /\ pc \in {"idle", "bytes", "record", "count"}
    /\ compressedBytes \in Size \cup {0}
    /\ maxB \in FlagBytes \cup {MaxBytesPerMinute, 0}
    /\ maxBat \in {0, MaxBatchesPerMinute}
    /\ resetting \in BOOLEAN /\ updating \in BOOLEAN
    /\ resets \in 0..MaxResets /\ updates \in 0..MaxUpdates
    /\ admitted \in Nat /\ sent \in Nat

\* What Allow records never takes a counter past the limit it was checked
\* against, whatever resets and limit updates come between the check and the
\* adds (ratelimiter.go: "for a single-sender agent this is fine").
RecordedWithinLimit ==
    [][/\ (RecordBytes /\ maxB > 0) => currentBytes' <= maxB
       /\ (RecordBatch /\ maxBat > 0) => currentBatches' <= maxBat]_limiterVars

\* A reset torn by the sender, which is between the two stores, lets at most
\* one more quota through: since the tick the agent sent at most twice the
\* configured number of batches, while no flag update has come.
TickAtMostDoubles ==
    (MaxBatchesPerMinute > 0 /\ updates = 0) =>
        sent <= 2 * MaxBatchesPerMinute
=============================================================================
