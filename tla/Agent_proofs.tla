---------------------------- MODULE Agent_proofs ----------------------------
(***************************************************************************)
(* Proofs about five parts of the agent: its ring buffer, for every        *)
(* capacity and every set of values; its rate limiter, for every limit,    *)
(* batch size and number of ticks and flag updates; its registration and   *)
(* credentials, for any number of goroutines, tokens, keys, restarts and   *)
(* failures; its N+1 detection, for every window, threshold and log; and   *)
(* its telemetry path, for any number of events, any channel sizes and any *)
(* number of attempts.                                                     *)
(***************************************************************************)
EXTENDS RingBuffer, RateLimiter, AgentIdentity, N1Tracker, TelemetryPipeline,
        FiniteSetTheorems, TLAPS
-----------------------------------------------------------------------------
(* The ring buffer: the bounds of its fields, that only written slots are  *)
(* handed out, and that it implements DropOldestQueue.                     *)

\* An index below the capacity is its own slot.
LEMMA ModSmall ==
    ASSUME NEW x \in 0..(Capacity - 1)
    PROVE  x % Capacity = x
BY CapacityAssumption

\* An index that ran past the end of items wraps round once.
LEMMA ModWrap ==
    ASSUME NEW x \in Capacity..(2 * Capacity - 1)
    PROVE  x % Capacity = x - Capacity
BY CapacityAssumption

\* The slot of the k-th entry (from 0, oldest first) in closed form.
SlotOf(h, n, k) == IF h - n + k < 0 THEN h - n + k + Capacity ELSE h - n + k

\* The code's index computation, the modulus of a sum with another modulus,
\* is the closed form SlotOf: no entry's slot wraps round more than once.
LEMMA SlotFormula ==
    ASSUME NEW h \in Slot, NEW n \in 0..Capacity, NEW k \in 0..(n - 1)
    PROVE  (((h - n + Capacity) % Capacity) + k) % Capacity = SlotOf(h, n, k)
<1> DEFINE t == (h - n + Capacity) % Capacity
<1>1. CASE h < n
  <2>1. h - n + Capacity \in 0..(Capacity - 1)
    BY <1>1, CapacityAssumption DEF Slot
  <2>2. t = h - n + Capacity
    BY <2>1, ModSmall
  <2>3. CASE h - n + k < 0
    <3>1. t + k \in 0..(Capacity - 1)
      BY <2>1, <2>2, <2>3, CapacityAssumption DEF Slot
    <3>2. (t + k) % Capacity = t + k
      BY <3>1, ModSmall
    <3> QED
      BY <2>2, <2>3, <3>2, CapacityAssumption DEF SlotOf, Slot
  <2>4. CASE ~(h - n + k < 0)
    <3>1. h - n + Capacity + k \in Capacity..(2 * Capacity - 1)
      BY <2>1, <2>4, CapacityAssumption DEF Slot
    <3>2. (h - n + Capacity + k) % Capacity = h - n + k
      BY <3>1, ModWrap, CapacityAssumption DEF Slot
    <3> QED
      BY <2>2, <2>4, <3>2, CapacityAssumption DEF SlotOf, Slot
  <2> QED
    BY <2>3, <2>4
<1>2. CASE ~(h < n)
  <2>1. h - n + Capacity \in Capacity..(2 * Capacity - 1)
    BY <1>2, CapacityAssumption DEF Slot
  <2>2. t = h - n
    BY <2>1, ModWrap, CapacityAssumption DEF Slot
  <2>3. t + k \in 0..(Capacity - 1)
    BY <1>2, <2>2, CapacityAssumption DEF Slot
  <2>4. (t + k) % Capacity = t + k
    BY <2>3, ModSmall
  <2> QED
    BY <1>2, <2>2, <2>4, CapacityAssumption DEF SlotOf, Slot
<1> QED
  BY <1>1, <1>2
-----------------------------------------------------------------------------
\* The fields of the buffer keep their types and bounds: Push and DrainAll
\* leave head a valid index and count between 0 and the capacity.
THEOREM TypeCorrect == RingSpec => []RingTypeOK
<1>1. New => RingTypeOK
  BY CapacityAssumption DEF New, RingTypeOK, Slot
<1>2. RingTypeOK /\ [RingNext]_ringVars => RingTypeOK'
  <2> SUFFICES ASSUME RingTypeOK, [RingNext]_ringVars
               PROVE  RingTypeOK'
    OBVIOUS
  <2>1. ASSUME NEW item \in Value, Push(item)
        PROVE  RingTypeOK'
    <3>1. head + 1 \in 0..Capacity
      BY CapacityAssumption DEF RingTypeOK, Slot
    <3>2. head' \in Slot
      BY <2>1, <3>1, CapacityAssumption DEF Push, Slot
    <3> QED
      BY <2>1, <3>2, CapacityAssumption DEF Push, RingTypeOK, Slot
  <2>2. CASE DrainAll
    BY <2>2, CapacityAssumption DEF DrainAll, RingTypeOK, Slot
  <2>3. CASE Peek
    BY <2>3 DEF Peek, RingTypeOK
  <2>4. CASE UNCHANGED ringVars
    BY <2>4 DEF ringVars, RingTypeOK
  <2> QED
    BY <2>1, <2>2, <2>3, <2>4 DEF RingNext
<1> QED
  BY <1>1, <1>2, PTL DEF RingSpec
-----------------------------------------------------------------------------
\* The slots DrainAll and Peek read, in closed form.
LEMMA OutFormula ==
    ASSUME NEW f, NEW h \in Slot, NEW n \in 0..Capacity
    PROVE  [i \in 1..n |-> f[(((h - n + Capacity) % Capacity) + (i - 1)) % Capacity]]
             = [i \in 1..n |-> f[SlotOf(h, n, i - 1)]]
<1>1. ASSUME NEW i \in 1..n
      PROVE  (((h - n + Capacity) % Capacity) + (i - 1)) % Capacity = SlotOf(h, n, i - 1)
  <2>1. i - 1 \in 0..(n - 1)
    BY CapacityAssumption
  <2> QED
    BY <2>1, SlotFormula
<1> QED
  BY <1>1

\* Push advances head by one slot and wraps it round at the end of items.
LEMMA HeadAdvance ==
    ASSUME NEW h \in Slot
    PROVE  (h + 1) % Capacity = IF h + 1 = Capacity THEN 0 ELSE h + 1
<1>1. CASE h + 1 = Capacity
  <2>1. Capacity \in Capacity..(2 * Capacity - 1)
    BY CapacityAssumption
  <2> QED
    BY <1>1, <2>1, ModWrap, CapacityAssumption
<1>2. CASE h + 1 # Capacity
  <2>1. h + 1 \in 0..(Capacity - 1)
    BY <1>2, CapacityAssumption DEF Slot
  <2> QED
    BY <1>2, <2>1, ModSmall
<1> QED
  BY <1>1, <1>2

\* A step of Push to a buffer with room leaves the slots of the entries alone
\* and writes the slot behind them.
LEMMA PushWithRoom ==
    ASSUME RingTypeOK, count < Capacity, NEW item, Push(item)
    PROVE  /\ count' = count + 1
           /\ \A k \in 0..(count - 1) :
                 items'[SlotOf(head', count', k)] = items[SlotOf(head, count, k)]
           /\ items'[SlotOf(head', count', count)] = item
<1>1. head' = IF head + 1 = Capacity THEN 0 ELSE head + 1
  BY HeadAdvance DEF Push, RingTypeOK
<1>2. count' = count + 1
  BY DEF Push
<1>3. ASSUME NEW k \in 0..(count - 1)
      PROVE  items'[SlotOf(head', count', k)] = items[SlotOf(head, count, k)]
  <2>1. SlotOf(head', count', k) = SlotOf(head, count, k)
    BY <1>1, <1>2, CapacityAssumption DEF SlotOf, RingTypeOK, Slot
  <2>2. SlotOf(head, count, k) \in Slot /\ SlotOf(head, count, k) # head
    BY CapacityAssumption DEF SlotOf, RingTypeOK, Slot
  <2> QED
    BY <2>1, <2>2 DEF Push, RingTypeOK
<1>4. SlotOf(head', count', count) = head
  BY <1>1, <1>2, CapacityAssumption DEF SlotOf, RingTypeOK, Slot
<1>5. items'[head] = item
  BY DEF Push, RingTypeOK
<1> QED
  BY <1>2, <1>3, <1>4, <1>5

\* A step of Push to a full buffer writes over the oldest entry: every other
\* entry moves one place towards the front, in the slot it already had.
LEMMA PushWhenFull ==
    ASSUME RingTypeOK, count = Capacity, NEW item, Push(item)
    PROVE  /\ count' = count
           /\ \A k \in 0..(count - 2) :
                 items'[SlotOf(head', count', k)] = items[SlotOf(head, count, k + 1)]
           /\ items'[SlotOf(head', count', count - 1)] = item
<1>1. head' = IF head + 1 = Capacity THEN 0 ELSE head + 1
  BY HeadAdvance DEF Push, RingTypeOK
<1>2. count' = count
  BY CapacityAssumption DEF Push
<1>3. ASSUME NEW k \in 0..(count - 2)
      PROVE  items'[SlotOf(head', count', k)] = items[SlotOf(head, count, k + 1)]
  <2>1. SlotOf(head', count', k) = SlotOf(head, count, k + 1)
    BY <1>1, <1>2, CapacityAssumption DEF SlotOf, RingTypeOK, Slot
  <2>2. SlotOf(head, count, k + 1) \in Slot /\ SlotOf(head, count, k + 1) # head
    BY CapacityAssumption DEF SlotOf, RingTypeOK, Slot
  <2> QED
    BY <2>1, <2>2 DEF Push, RingTypeOK
<1>4. SlotOf(head', count', count - 1) = head
  BY <1>1, <1>2, CapacityAssumption DEF SlotOf, RingTypeOK, Slot
<1>5. items'[head] = item
  BY DEF Push, RingTypeOK
<1> QED
  BY <1>2, <1>3, <1>4, <1>5
-----------------------------------------------------------------------------
\* The strengthening of LiveSlotsWritten that is inductive: the closed form
\* of the window of valid entries.
WindowWritten == \A k \in 0..(count - 1) : items[SlotOf(head, count, k)] \in Value

\* The slots DrainAll and Peek read are the live ones, wrapped round or not.
LEMMA WindowIsLive ==
    ASSUME RingTypeOK, WindowWritten
    PROVE  LiveSlotsWritten
<1>1. ASSUME NEW i \in 0..(count - 1)
      PROVE  (tail + i) % Capacity = SlotOf(head, count, i)
  BY SlotFormula DEF RingTypeOK, tail
<1> QED
  BY <1>1 DEF LiveSlotsWritten, LiveSlot, WindowWritten

\* Whatever DrainAll and Peek hand out was pushed: no slot of the window
\* between tail and head still holds the zero value New put there.
THEOREM OnlyWrittenSlotsAreRead == RingSpec => []LiveSlotsWritten
<1>1. New => WindowWritten
  BY DEF New, WindowWritten
<1>2. RingTypeOK /\ WindowWritten /\ [RingNext]_ringVars => WindowWritten'
  <2> SUFFICES ASSUME RingTypeOK, WindowWritten, [RingNext]_ringVars
               PROVE  WindowWritten'
    OBVIOUS
  <2>1. ASSUME NEW item \in Value, Push(item)
        PROVE  WindowWritten'
    <3>1. CASE count < Capacity
      <4>1. /\ count' = count + 1
            /\ \A k \in 0..(count - 1) :
                  items'[SlotOf(head', count', k)] = items[SlotOf(head, count, k)]
            /\ items'[SlotOf(head', count', count)] = item
        BY <2>1, <3>1, PushWithRoom
      <4>2. ASSUME NEW k \in 0..(count' - 1)
            PROVE  items'[SlotOf(head', count', k)] \in Value
        <5>1. CASE k = count
          BY <4>1, <5>1
        <5>2. CASE k # count
          <6>1. k \in 0..(count - 1)
            BY <4>1, <5>2 DEF RingTypeOK
          <6> QED
            BY <4>1, <6>1 DEF WindowWritten
        <5> QED
          BY <5>1, <5>2
      <4> QED
        BY <4>2 DEF WindowWritten
    <3>2. CASE count = Capacity
      <4>1. /\ count' = count
            /\ \A k \in 0..(count - 2) :
                  items'[SlotOf(head', count', k)] = items[SlotOf(head, count, k + 1)]
            /\ items'[SlotOf(head', count', count - 1)] = item
        BY <2>1, <3>2, PushWhenFull
      <4>2. ASSUME NEW k \in 0..(count' - 1)
            PROVE  items'[SlotOf(head', count', k)] \in Value
        <5>1. CASE k = count - 1
          BY <4>1, <5>1
        <5>2. CASE k # count - 1
          <6>1. k \in 0..(count - 2) /\ k + 1 \in 0..(count - 1)
            BY <4>1, <5>2 DEF RingTypeOK
          <6> QED
            BY <4>1, <6>1 DEF WindowWritten
        <5> QED
          BY <5>1, <5>2
      <4> QED
        BY <4>2 DEF WindowWritten
    <3> QED
      BY <3>1, <3>2, CapacityAssumption DEF RingTypeOK
  <2>2. CASE DrainAll
    BY <2>2 DEF DrainAll, WindowWritten
  <2>3. CASE Peek
    BY <2>3 DEF Peek, WindowWritten
  <2>4. CASE UNCHANGED ringVars
    BY <2>4 DEF ringVars, WindowWritten
  <2> QED
    BY <2>1, <2>2, <2>3, <2>4 DEF RingNext
<1>3. RingTypeOK /\ WindowWritten => LiveSlotsWritten
  BY WindowIsLive
<1> QED
  BY <1>1, <1>2, <1>3, TypeCorrect, PTL DEF RingSpec
-----------------------------------------------------------------------------
\* The circular buffer is a bounded FIFO queue that drops its oldest entry:
\* Push, DrainAll and Peek refine the steps of DropOldestQueue when its
\* entries are read off the ring from tail to head.
THEOREM RingImplementsQueue == RingSpec => ImplementsQueue
<1>1. New => Queue!AInit
  BY DEF New, Queue!AInit, Queue!NoEntries, Nil, Slice, out
<1>2. RingTypeOK /\ RingTypeOK' /\ [RingNext]_ringVars => [Queue!ANext]_(Queue!avars)
  <2> SUFFICES ASSUME RingTypeOK, RingTypeOK', [RingNext]_ringVars
               PROVE  [Queue!ANext]_(Queue!avars)
    OBVIOUS
  <2> DEFINE e == out.entries
  <2>1. e = [i \in 1..count |-> items[SlotOf(head, count, i - 1)]]
    BY OutFormula DEF RingTypeOK, out, tail, Slice
  <2>2. e' = [i \in 1..count' |-> items'[SlotOf(head', count', i - 1)]]
    BY OutFormula DEF RingTypeOK, out, tail, Slice
  <2>3. ASSUME NEW item \in Value, Push(item)
        PROVE  Queue!APush(item)
    <3>1. CASE count < Capacity
      <4>1. /\ count' = count + 1
            /\ \A k \in 0..(count - 1) :
                  items'[SlotOf(head', count', k)] = items[SlotOf(head, count, k)]
            /\ items'[SlotOf(head', count', count)] = item
        BY <2>3, <3>1, PushWithRoom
      <4>2. ASSUME NEW i \in 1..(count + 1)
            PROVE  items'[SlotOf(head', count', i - 1)]
                     = IF i = count + 1 THEN item ELSE e[i]
        <5>1. CASE i = count + 1
          <6>1. i - 1 = count
            BY <5>1 DEF RingTypeOK
          <6> QED
            BY <4>1, <5>1, <6>1
        <5>2. CASE i # count + 1
          <6>1. i \in 1..count /\ i - 1 \in 0..(count - 1)
            BY <5>2 DEF RingTypeOK
          <6> QED
            BY <2>1, <4>1, <5>2, <6>1
        <5> QED
          BY <5>1, <5>2
      <4>3. e' = [i \in 1..(count + 1) |-> IF i = count + 1 THEN item ELSE e[i]]
        BY <2>2, <4>1, <4>2
      <4> QED
        BY <2>3, <3>1, <4>1, <4>3 DEF Queue!APush, Queue!AppendEntry, Push
    <3>2. CASE count = Capacity
      <4>1. /\ count' = count
            /\ \A k \in 0..(count - 2) :
                  items'[SlotOf(head', count', k)] = items[SlotOf(head, count, k + 1)]
            /\ items'[SlotOf(head', count', count - 1)] = item
        BY <2>3, <3>2, PushWhenFull
      <4>2. ASSUME NEW i \in 1..count
            PROVE  items'[SlotOf(head', count', i - 1)]
                     = IF i = count THEN item ELSE e[i + 1]
        <5>1. CASE i = count
          BY <4>1, <5>1
        <5>2. CASE i # count
          <6>1. i + 1 \in 1..count /\ i - 1 \in 0..(count - 2) /\ (i - 1) + 1 = i
            BY <5>2 DEF RingTypeOK
          <6>2. (i + 1) - 1 = i
            BY DEF RingTypeOK
          <6>3. items'[SlotOf(head', count', i - 1)] = items[SlotOf(head, count, (i - 1) + 1)]
            BY <4>1, <6>1
          <6> QED
            BY <2>1, <5>2, <6>1, <6>2, <6>3
        <5> QED
          BY <5>1, <5>2
      <4>3. e' = [i \in 1..count |-> IF i = count THEN item ELSE e[i + 1]]
        BY <2>2, <4>1, <4>2
      <4> QED
        BY <2>3, <3>2, <4>1, <4>3 DEF Queue!APush, Queue!DropOldestAndAppend, Push
    <3> QED
      BY <3>1, <3>2, CapacityAssumption DEF RingTypeOK
  <2>4. CASE DrainAll
    <3>1. CASE count = 0
      BY <2>1, <2>2, <2>4, <3>1
      DEF DrainAll, Queue!ANext, Queue!ADrainAll, Queue!NoEntries, Nil, Slice
    <3>2. CASE count # 0
      <4>1. result' = [len |-> count, entries |-> e] /\ count' = 0
        BY <2>4, <3>2 DEF DrainAll, out, Slice
      <4>2. e' = [i \in {} |-> i]
        BY <2>2, <4>1
      <4> QED
        BY <4>1, <4>2 DEF Queue!ANext, Queue!ADrainAll, Queue!NoEntries
    <3> QED
      BY <3>1, <3>2
  <2>5. CASE Peek
    <3>1. e' = e
      BY <2>1, <2>2, <2>5 DEF Peek
    <3>2. result' = [len |-> count, entries |-> e]
      BY <2>1, <2>5 DEF Peek, Nil, out, Slice
    <3> QED
      BY <2>5, <3>1, <3>2 DEF Queue!ANext, Queue!APeek, Peek
  <2>6. CASE UNCHANGED ringVars
    <3>1. e' = e
      BY <2>1, <2>2, <2>6 DEF ringVars
    <3> QED
      BY <2>6, <3>1 DEF ringVars, Queue!avars
  <2> QED
    BY <2>3, <2>4, <2>5, <2>6 DEF RingNext, Queue!ANext
<1> QED
  BY <1>1, <1>2, TypeCorrect, PTL DEF RingSpec, ImplementsQueue, Queue!ASpec
-----------------------------------------------------------------------------
(* The rate limiter. *)

\* What a passed check still guarantees when its usage is recorded: between
\* the two only Reset writes the counters, and it lowers them.
CheckStillHolds ==
    /\ (pc \in {"bytes", "record"} /\ maxB > 0)
          => currentBytes + compressedBytes <= maxB
    /\ (pc \in {"record", "count"} /\ maxBat > 0) => currentBatches < maxBat

\* Before the first flag update the configured batch limit is in force, and
\* the batches sent since the tick are the ones counted, plus, once the batch
\* counter was reset too, at most one quota counted between the two stores.
QuotaSinceTick ==
    /\ updating => updates > 0
    /\ (MaxBatchesPerMinute > 0 /\ updates = 0) =>
          /\ maxBatches = MaxBatchesPerMinute
          /\ pc \in {"record", "count"} => maxBat = MaxBatchesPerMinute
          /\ currentBatches <= MaxBatchesPerMinute
          /\ resetting => sent <= currentBatches
          /\ sent <= currentBatches + MaxBatchesPerMinute

IInv == LimiterTypeOK /\ CheckStillHolds /\ QuotaSinceTick

\* The initial state of a new limiter satisfies the invariant.
LEMMA InitInv == LimiterInit => IInv
<1> SUFFICES ASSUME LimiterInit PROVE IInv
  OBVIOUS
<1>1. LimiterTypeOK
  <2>1. resetting \in BOOLEAN /\ updating \in BOOLEAN
    BY DEF LimiterInit
  <2>2. /\ resets \in 0..MaxResets /\ updates \in 0..MaxUpdates
        /\ currentBytes \in Nat /\ currentBatches \in Nat
        /\ admitted \in Nat /\ sent \in Nat
    BY LimiterAssumption DEF LimiterInit
  <2> QED
    BY <2>1, <2>2 DEF LimiterInit, LimiterTypeOK
<1>2. CheckStillHolds
  BY DEF LimiterInit, CheckStillHolds
<1>3. QuotaSinceTick
  BY LimiterAssumption DEF LimiterInit, QuotaSinceTick
<1> QED
  BY <1>1, <1>2, <1>3 DEF IInv

\* Every atomic access of the sender, the reset loop and the flag applier
\* keeps the types.
LEMMA StepType == ASSUME LimiterTypeOK, [LimiterNext]_limiterVars PROVE LimiterTypeOK'
<1> USE LimiterAssumption DEF LimiterTypeOK
<1>1. ASSUME NEW n \in Size, CheckBytes(n) PROVE LimiterTypeOK'
  BY <1>1 DEF CheckBytes, limits, counters
<1>2. CASE CheckBatches
  BY <1>2 DEF CheckBatches, limits, counters
<1>3. CASE RecordBytes
  BY <1>3 DEF RecordBytes, limits
<1>4. CASE RecordBatch
  BY <1>4 DEF RecordBatch, limits
<1>5. CASE ResetBytes
  BY <1>5 DEF ResetBytes, limits, allow
<1>6. CASE ResetBatches
  BY <1>6 DEF ResetBatches, limits, allow
<1>7. ASSUME NEW b \in FlagBytes, UpdateBytes(b) PROVE LimiterTypeOK'
  BY <1>7 DEF UpdateBytes, counters, allow
<1>8. CASE UpdateBatches
  BY <1>8 DEF UpdateBatches, counters, allow
<1>9. CASE UNCHANGED limiterVars
  BY <1>9 DEF limiterVars
<1> QED
  BY <1>1, <1>2, <1>3, <1>4, <1>5, <1>6, <1>7, <1>8, <1>9 DEF LimiterNext

\* Every atomic access keeps the two facts about the counters.
LEMMA StepInv == ASSUME IInv, [LimiterNext]_limiterVars PROVE IInv'
<1>0. LimiterTypeOK'
  BY StepType DEF IInv
<1> USE LimiterAssumption DEF IInv, LimiterTypeOK, CheckStillHolds, QuotaSinceTick
<1>1. ASSUME NEW n \in Size, CheckBytes(n) PROVE IInv'
  BY <1>0, <1>1 DEF CheckBytes, limits, counters
<1>2. CASE CheckBatches
  BY <1>0, <1>2 DEF CheckBatches, limits, counters
<1>3. CASE RecordBytes
  BY <1>0, <1>3 DEF RecordBytes, limits
<1>4. CASE RecordBatch
  BY <1>0, <1>4 DEF RecordBatch, limits
<1>5. CASE ResetBytes
  BY <1>0, <1>5 DEF ResetBytes, limits, allow
<1>6. CASE ResetBatches
  BY <1>0, <1>6 DEF ResetBatches, limits, allow
<1>7. ASSUME NEW b \in FlagBytes, UpdateBytes(b) PROVE IInv'
  BY <1>0, <1>7 DEF UpdateBytes, counters, allow
<1>8. CASE UpdateBatches
  BY <1>0, <1>8 DEF UpdateBatches, counters, allow
<1>9. CASE UNCHANGED limiterVars
  BY <1>0, <1>9 DEF limiterVars
<1> QED
  BY <1>1, <1>2, <1>3, <1>4, <1>5, <1>6, <1>7, <1>8, <1>9 DEF LimiterNext

\* The invariant holds in every reachable state of the limiter.
LEMMA InvHolds == LimiterSpec => []IInv
  BY InitInv, StepInv, PTL DEF LimiterSpec

\* Whatever resets and limit updates fall between Allow's checks and its adds,
\* the recorded usage stays within the limit that was checked.
THEOREM SingleSenderIsFine == LimiterSpec => RecordedWithinLimit
<1>1. ASSUME IInv
      PROVE  [/\ (RecordBytes /\ maxB > 0) => currentBytes' <= maxB
              /\ (RecordBatch /\ maxBat > 0) => currentBatches' <= maxBat]_limiterVars
  <2>1. (RecordBytes /\ maxB > 0) => currentBytes' <= maxB
    BY <1>1 DEF IInv, CheckStillHolds, RecordBytes
  <2>2. (RecordBatch /\ maxBat > 0) => currentBatches' <= maxBat
    BY <1>1, LimiterAssumption DEF IInv, LimiterTypeOK, CheckStillHolds, RecordBatch
  <2> QED
    BY <2>1, <2>2
<1> QED
  BY <1>1, InvHolds, PTL DEF RecordedWithinLimit

\* A torn reset lets at most one more quota of batches through per tick.
THEOREM TornResetIsBounded == LimiterSpec => []TickAtMostDoubles
<1>1. IInv => TickAtMostDoubles
  BY LimiterAssumption DEF IInv, LimiterTypeOK, QuotaSinceTick, TickAtMostDoubles
<1> QED
  BY <1>1, InvHolds, PTL
-----------------------------------------------------------------------------
(* Registration and credentials. *)

\* A call between the lookup of its token and the clearing of it.
Active(p) == call[p].at \in {"create", "clear"}

CallType ==
    [at : {"none", "lookup", "create", "clear", "reply", "failed"},
     token : Nat, key : Nat, attempt : Nat]

\* Types; tokens and keys are numbers that were issued, and a call has a token.
IdentityTypeOK ==
    /\ tokens \in Nat /\ regToken \in 0..tokens
    /\ created \in Nat /\ keys \subseteq 1..created
    /\ proc \in [state : {"down", "starting", "up"}, token : Nat, starts : Nat]
    /\ proc.token \in 0..tokens
    /\ cm.key \in 0..created /\ DOMAIN cm = {"key", "holder"} /\ file \in 0..created
    /\ call \in [Caller -> CallType]
    /\ \A p \in Caller : call[p].at # "none" => call[p].token \in 1..tokens
    /\ \A p \in Caller : call[p].key \in 0..created
    /\ \A g \in grants : g[1] \in 1..tokens

\* A token that gave a key and is not doubtful is cleared, or the call that got
\* the key is about to clear it and is the only one that goes by it.
GrantInv ==
    /\ \A p, q \in Caller : p # q /\ Active(p) /\ Active(q) /\ call[p].token = call[q].token
                              => call[p].token \in doubtful
    /\ \A g \in grants : g[1] \notin doubtful =>
          /\ \A p \in Caller : call[p].at = "create" => call[p].token # g[1]
          /\ regToken = g[1] => \E p \in Caller : call[p].at = "clear" /\ call[p].token = g[1]
    /\ TokenGrantsOneKey

\* Even while a refresh is under way, a key that is not in the file is one the
\* server rejects, and keeps rejecting.
FileInv ==
    proc.state = "up" /\ ~unsaved /\ ~twice => file = cm.key \/ cm.key \notin keys

IdentityInv == IdentityTypeOK /\ GrantInv /\ FileInv

\* The agent begins stopped, without token, key or file.
LEMMA IdentityInitInv == IdentityInit => IdentityInv
<1> SUFFICES ASSUME IdentityInit PROVE IdentityInv
  OBVIOUS
<1>1. NoCall \in CallType /\ NoCall.at = "none" /\ NoCall.key = 0
  BY DEF NoCall, CallType
<1>2. call \in [Caller -> CallType] /\ \A p \in Caller : call[p] = NoCall
  BY <1>1 DEF IdentityInit
<1>3. /\ cm.key = 0 /\ DOMAIN cm = {"key", "holder"} /\ proc.token = 0 /\ proc.state = "down"
      /\ proc \in [state : {"down", "starting", "up"}, token : Nat, starts : Nat]
  BY DEF IdentityInit
<1>4. IdentityTypeOK
  BY <1>1, <1>2, <1>3 DEF IdentityInit, IdentityTypeOK
<1>5. GrantInv
  BY <1>1, <1>2 DEF IdentityInit, GrantInv, Active, TokenGrantsOneKey
<1> QED
  BY <1>3, <1>4, <1>5 DEF IdentityInv, FileInv

\* A call may go on to any record of its type.
LEMMA CallGoes ==
    ASSUME IdentityTypeOK, NEW p \in Caller, NEW next \in CallType, Set(p, next),
           tokens' \in Nat, tokens <= tokens', created' \in Nat, created <= created',
           next.at # "none" => next.token \in 1..tokens', next.key \in 0..created'
    PROVE  /\ call' \in [Caller -> CallType] /\ call'[p] = next
           /\ \A q \in Caller : q # p => call'[q] = call[q]
           /\ \A q \in Caller : call'[q].at # "none" => call'[q].token \in 1..tokens'
           /\ \A q \in Caller : call'[q].key \in 0..created'
<1>1. call \in [Caller -> CallType] /\ tokens \in Nat /\ created \in Nat
  BY DEF IdentityTypeOK
<1>2. /\ call' \in [Caller -> CallType] /\ call'[p] = next
      /\ \A q \in Caller : q # p => call'[q] = call[q]
  BY <1>1 DEF Set
<1>3. /\ \A n : n \in 1..tokens => n \in 1..tokens'
      /\ \A n : n \in 0..created => n \in 0..created'
  BY <1>1
<1> QED
  BY <1>2, <1>3 DEF IdentityTypeOK

\* Every step of the dashboard, the server and the agent keeps the types.
LEMMA IdentityTypeStep == IdentityTypeOK /\ [IdentityNext]_identityVars => IdentityTypeOK'
<1> SUFFICES ASSUME IdentityTypeOK, [IdentityNext]_identityVars PROVE IdentityTypeOK'
  OBVIOUS
<1> DEFINE Proc == [state : {"down", "starting", "up"}, token : Nat, starts : Nat]
<1>0. /\ call \in [Caller -> CallType] /\ tokens \in Nat /\ created \in Nat /\ proc \in Proc
      /\ regToken \in 0..tokens /\ keys \subseteq 1..created /\ file \in 0..created
      /\ cm.key \in 0..created /\ DOMAIN cm = {"key", "holder"} /\ proc.token \in 0..tokens
  BY DEF IdentityTypeOK
<1>1. NoCall \in CallType /\ NoCall.at = "none" /\ NoCall.key = 0 /\ Main \in Caller
      /\ Worker \subseteq Caller
  BY DEF NoCall, CallType, Caller
<1>2. ASSUME NEW p \in Caller
      PROVE  /\ call[p].at \in {"none", "lookup", "create", "clear", "reply", "failed"}
             /\ call[p].key \in 0..created
             /\ call[p].at # "none" => call[p].token \in 1..tokens
  BY <1>0 DEF CallType, IdentityTypeOK
<1>3. ASSUME NEW p \in Caller, NEW at \in {"lookup", "create", "clear", "reply", "failed"}
      PROVE  /\ [call[p] EXCEPT !.at = at] \in CallType /\ [call[p] EXCEPT !.at = at].at = at
             /\ [call[p] EXCEPT !.at = at].token = call[p].token
             /\ [call[p] EXCEPT !.at = at].key = call[p].key
  BY <1>0 DEF CallType
<1>4. ASSUME NEW st \in {"down", "up"}
      PROVE  [proc EXCEPT !.state = st] \in Proc /\ [proc EXCEPT !.state = st].token = proc.token
  BY <1>0
\* The server's part of a call, and its end.
<1>5. ASSUME NEW p \in Caller, NEW next \in CallType, Set(p, next),
             next.at # "none" => next.token \in 1..tokens, next.key \in 0..created,
             regToken' \in 0..tokens, UNCHANGED <<tokens, created, keys, grants>>,
             proc' \in Proc, proc'.token = proc.token, file' \in 0..created,
             cm'.key \in 0..created, DOMAIN cm' = {"key", "holder"}
      PROVE  IdentityTypeOK'
  <2>1. /\ call' \in [Caller -> CallType]
        /\ \A q \in Caller : call'[q].at # "none" => call'[q].token \in 1..tokens'
        /\ \A q \in Caller : call'[q].key \in 0..created'
    <3>1. tokens' \in Nat /\ tokens <= tokens' /\ created' \in Nat /\ created <= created'
      BY <1>0, <1>5
    <3> QED
      BY <3>1, <1>5, CallGoes
  <2> QED
    BY <2>1, <1>0, <1>5 DEF IdentityTypeOK
<1>6. ASSUME NEW p \in Caller,
             \/ GetEnvironmentByRegistrationToken(p) \/ ClearRegistrationToken(p)
             \/ Refuse(p) \/ SelfRegisterFails(p) \/ CallerGone(p)
      PROVE  IdentityTypeOK'
  <2>1. /\ UNCHANGED <<tokens, created, keys, grants, proc, file, cm>> /\ regToken' \in 0..tokens
        /\ call[p].at # "none"
    BY <1>0, <1>6 DEF GetEnvironmentByRegistrationToken, ClearRegistrationToken, Refuse,
      SelfRegisterFails, CallerGone, server, identityHistory, ClearedToken, Calls
  <2>2. PICK next \in CallType : /\ Set(p, next) /\ next.key \in 0..created
                                 /\ next.at # "none" => next.token \in 1..tokens
    <3>1. \/ Set(p, NoCall) \/ Set(p, [call[p] EXCEPT !.at = "create"])
          \/ Set(p, [call[p] EXCEPT !.at = "reply"]) \/ Set(p, [call[p] EXCEPT !.at = "failed"])
      BY <1>6 DEF GetEnvironmentByRegistrationToken, ClearRegistrationToken, Refuse,
        SelfRegisterFails, CallerGone
    <3>2. CASE Set(p, NoCall)
      BY <3>2, <1>0, <1>1
    <3>3. ASSUME NEW at \in {"create", "reply", "failed"}, Set(p, [call[p] EXCEPT !.at = at])
          PROVE  \E next \in CallType : /\ Set(p, next) /\ next.key \in 0..created
                                        /\ next.at # "none" => next.token \in 1..tokens
      BY <3>3, <2>1, <1>2, <1>3
    <3> QED
      BY <3>1, <3>2, <3>3
  <2> QED
    BY <2>1, <2>2, <1>0, <1>5
<1>7. ASSUME NEW p \in Caller, CreateAPIKey(p) PROVE IdentityTypeOK'
  <2> DEFINE n == created + 1
             next == [call[p] EXCEPT !.at = "clear", !.key = n]
  <2>1. /\ call[p].at = "create" /\ created' = n /\ keys' = keys \cup {n} /\ Set(p, next)
        /\ grants' = grants \cup {<<call[p].token, n>>}
        /\ UNCHANGED <<regToken, tokens, proc, cm, file>>
    BY <1>7 DEF CreateAPIKey, Calls
  <2>2. n \in Nat /\ created <= n /\ n \in 1..n
    BY <1>0
  <2>3. next \in CallType /\ next.token = call[p].token /\ next.key = n
    BY <1>0, <2>2 DEF CallType
  <2>4. \A m : m \in 0..created => m \in 0..n
    BY <1>0
  <2>5. \A m : m \in 1..created => m \in 1..n
    BY <1>0
  <2>6. n \in 0..n /\ tokens <= tokens
    BY <1>0
  <2> HIDE DEF n, next
  <2>7. /\ call' \in [Caller -> CallType]
        /\ \A q \in Caller : call'[q].at # "none" => call'[q].token \in 1..tokens'
        /\ \A q \in Caller : call'[q].key \in 0..created'
    BY <2>1, <2>2, <2>3, <2>6, <1>0, <1>2, CallGoes
  <2>8. \A g \in grants' : g[1] \in 1..tokens
    BY <2>1, <1>2 DEF IdentityTypeOK
  <2> QED
    BY <2>1, <2>2, <2>4, <2>5, <2>7, <2>8, <1>0 DEF IdentityTypeOK
<1>8. ASSUME call' = call, keys' \subseteq keys, UNCHANGED <<created, grants>>,
             tokens' \in Nat, tokens <= tokens', regToken' \in 0..tokens',
             proc' \in Proc, proc'.token \in 0..tokens', cm'.key \in 0..created,
             DOMAIN cm' = {"key", "holder"}, file' \in 0..created
      PROVE  IdentityTypeOK'
  <2>1. \A n : n \in 1..tokens => n \in 1..tokens'
    BY <1>0, <1>8
  <2> QED
    BY <2>1, <1>0, <1>8 DEF IdentityTypeOK
<1>9. CASE RegisterAgent
  <2>1. /\ tokens' = tokens + 1 /\ regToken' = tokens + 1
        /\ UNCHANGED <<keys, created, proc, cm, file, call, grants>>
    BY <1>9 DEF RegisterAgent, identityHistory
  <2>2. tokens' \in Nat /\ tokens <= tokens' /\ regToken' \in 0..tokens' /\ proc.token \in 0..tokens'
    BY <2>1, <1>0
  <2> QED
    BY <2>1, <2>2, <1>0, <1>8
<1>10. CASE \/ TokenExpires \/ RevokeAPIKey
            \/ \E w \in Worker : Send(w) \/ Accepted(w)
            \/ UNCHANGED identityVars
  <2>1. /\ UNCHANGED <<tokens, created, proc, cm, file, call, grants>>
        /\ regToken' \in {regToken, 0} /\ keys' \subseteq keys
    BY <1>10 DEF TokenExpires, RevokeAPIKey, Send, Accepted, server, identityHistory, identityVars
  <2>2. tokens' \in Nat /\ tokens <= tokens' /\ regToken' \in 0..tokens'
    BY <2>1, <1>0
  <2> QED
    BY <2>1, <2>2, <1>0, <1>8
<1>11. CASE Start
  <2>1. PICK t \in 0..tokens : proc' = [state |-> "starting", token |-> t, starts |-> proc.starts + 1]
    BY <1>11 DEF Start
  <2>2. UNCHANGED <<server, cm, file, call, grants>>
    BY <1>11 DEF Start, identityHistory
  <2>3. proc' \in Proc /\ proc'.token \in 0..tokens
    BY <2>1, <1>0
  <2>4. tokens <= tokens
    BY <1>0
  <2> QED
    BY <2>2, <2>3, <2>4, <1>0, <1>8 DEF server
<1>12. CASE StartConfigured \/ StartCached \/ Stop
  <2>1. UNCHANGED <<server, file, call, grants>>
    BY <1>12 DEF StartConfigured, StartCached, Stop, identityHistory
  <2>2. PICK st \in {"down", "up"} : proc' = [proc EXCEPT !.state = st]
    BY <1>12 DEF StartConfigured, StartCached, Stop, Up
  <2>3. \E k \in 0..created : cm' = [key |-> k, holder |-> NoOne]
    BY <1>0, <1>12 DEF StartConfigured, StartCached, Stop, Up
  <2>4. cm'.key \in 0..created /\ DOMAIN cm' = {"key", "holder"}
    BY <2>3
  <2>5. proc' \in Proc /\ proc'.token \in 0..tokens /\ tokens <= tokens
    BY <2>2, <1>0, <1>4
  <2> QED
    BY <2>1, <2>4, <2>5, <1>0, <1>8 DEF server
<1>13. ASSUME NEW p \in Caller, proc.token # 0
       PROVE  LET next == [at |-> "lookup", token |-> proc.token, key |-> 0, attempt |-> 1] IN
              /\ next \in CallType /\ next.token \in 1..tokens /\ next.key \in 0..created
  BY <1>0, <1>13 DEF CallType
<1>14. CASE StartRegisters
  <2>1. file' = 0 /\ UNCHANGED <<server, cm, grants>>
    BY <1>14 DEF StartRegisters, identityHistory
  <2>2. CASE proc.token = 0
    <3>1. proc' = [proc EXCEPT !.state = "down"] /\ call' = call
      BY <2>2, <1>14 DEF StartRegisters
    <3>2. proc' \in Proc /\ proc'.token \in 0..tokens /\ tokens <= tokens /\ 0 \in 0..created
      BY <3>1, <1>0, <1>4
    <3> QED
      BY <3>1, <3>2, <2>1, <1>0, <1>8 DEF server
  <2>3. CASE proc.token # 0
    <3>1. UNCHANGED proc /\ Set(Main, [at |-> "lookup", token |-> proc.token, key |-> 0, attempt |-> 1])
      BY <2>3, <1>14 DEF StartRegisters
    <3>2. PICK next \in CallType : Set(Main, next) /\ next.token \in 1..tokens /\ next.key \in 0..created
      BY <3>1, <2>3, <1>1, <1>13
    <3>3. 0 \in 0..created
      BY <1>0
    <3> QED
      BY <3>1, <3>2, <3>3, <2>1, <1>0, <1>1, <1>5 DEF server
  <2> QED
    BY <2>2, <2>3
<1>15. CASE RegisterWithRetry
  <2>1. UNCHANGED <<server, cm, file, grants>> /\ call[Main].at = "failed"
    BY <1>15 DEF RegisterWithRetry, identityHistory, Calls
  <2>2. CASE call[Main].attempt < MaxRetries
    <3> DEFINE next == [call[Main] EXCEPT !.at = "lookup", !.attempt = @ + 1]
    <3>1. UNCHANGED proc /\ Set(Main, next)
      BY <2>2, <1>15 DEF RegisterWithRetry
    <3>2. next \in CallType /\ next.token = call[Main].token /\ next.key = call[Main].key
      <4> DEFINE c == call[Main]
      <4>1. c \in CallType
        BY <1>0, <1>1
      <4> HIDE DEF c
      <4>2. c.attempt + 1 \in Nat /\ "lookup" \in {"none", "lookup", "create", "clear", "reply", "failed"}
        BY <4>1 DEF CallType
      <4>3. [c EXCEPT !.at = "lookup", !.attempt = @ + 1] = [c EXCEPT !.at = "lookup", !.attempt = c.attempt + 1]
        BY <4>1 DEF CallType
      <4>4. LET n == [c EXCEPT !.at = "lookup", !.attempt = @ + 1] IN
            n \in CallType /\ n.token = c.token /\ n.key = c.key
        BY <4>1, <4>2, <4>3 DEF CallType
      <4> QED
        BY <4>4 DEF c
    <3> HIDE DEF next
    <3>3. next.token \in 1..tokens /\ next.key \in 0..created
      BY <3>2, <2>1, <1>1, <1>2
    <3> QED
      BY <3>1, <3>2, <3>3, <2>1, <1>0, <1>1, <1>5 DEF server
  <2>3. CASE ~(call[Main].attempt < MaxRetries)
    <3>1. proc' = [proc EXCEPT !.state = "down"] /\ Set(Main, NoCall)
      BY <2>3, <1>15 DEF RegisterWithRetry
    <3>2. proc' \in Proc /\ proc'.token = proc.token /\ 0 \in 0..created
      BY <3>1, <1>0, <1>4
    <3> QED
      BY <3>1, <3>2, <2>1, <1>0, <1>1, <1>5 DEF server
  <2> QED
    BY <2>2, <2>3
<1>16. CASE StartRegistered
  <2>1. UNCHANGED <<server, grants>> /\ Set(Main, NoCall) /\ file' \in {file, call[Main].key}
    BY <1>16 DEF StartRegistered, SaveCredentials
  <2>2. proc' = [proc EXCEPT !.state = "up"] /\ cm' = [key |-> call[Main].key, holder |-> NoOne]
    BY <1>16 DEF StartRegistered, Up
  <2>3. proc' \in Proc /\ proc'.token = proc.token /\ 0 \in 0..created
    BY <2>2, <1>0, <1>4
  <2>4. cm'.key \in 0..created /\ DOMAIN cm' = {"key", "holder"} /\ file' \in 0..created
    BY <2>1, <2>2, <1>0, <1>1, <1>2
  <2> QED
    BY <2>1, <2>3, <2>4, <1>0, <1>1, <1>5 DEF server
<1>17. ASSUME NEW w \in Worker, RefreshOnUnauthorized(w) PROVE IdentityTypeOK'
  <2>1. UNCHANGED <<server, proc, grants>>
    BY <1>17 DEF RefreshOnUnauthorized
  <2>2. CASE proc.token = 0
    <3>1. UNCHANGED <<cm, file, call>> /\ tokens <= tokens
      BY <2>2, <1>0, <1>17 DEF RefreshOnUnauthorized
    <3> QED
      BY <3>1, <2>1, <1>0, <1>8 DEF server
  <2>3. CASE proc.token # 0
    <3>1. /\ cm' = [cm EXCEPT !.holder = w] /\ file' = 0
          /\ Set(w, [at |-> "lookup", token |-> proc.token, key |-> 0, attempt |-> 1])
      BY <2>3, <1>17 DEF RefreshOnUnauthorized
    <3>2. PICK next \in CallType : Set(w, next) /\ next.token \in 1..tokens /\ next.key \in 0..created
      BY <3>1, <2>3, <1>1, <1>13
    <3>3. cm'.key = cm.key /\ DOMAIN cm' = {"key", "holder"} /\ 0 \in 0..created
      BY <3>1, <1>0
    <3> QED
      BY <3>1, <3>2, <3>3, <2>1, <1>0, <1>1, <1>5 DEF server
  <2> QED
    BY <2>2, <2>3
<1>18. ASSUME NEW w \in Worker, Refreshed(w) \/ RefreshFails(w) PROVE IdentityTypeOK'
  <2>1. UNCHANGED <<server, proc, grants>> /\ Set(w, NoCall) /\ file' \in {file, call[w].key}
    BY <1>18 DEF Refreshed, RefreshFails, RefreshedFile, SaveCredentials, identityHistory
  <2>2. cm' = [key |-> call[w].key, holder |-> NoOne] \/ cm' = [cm EXCEPT !.holder = NoOne]
    BY <1>18 DEF Refreshed, RefreshFails
  <2>3. cm'.key \in {cm.key, call[w].key} /\ DOMAIN cm' = {"key", "holder"}
    BY <2>2, <1>0
  <2>4. cm'.key \in 0..created /\ file' \in 0..created /\ 0 \in 0..created
    BY <2>1, <2>3, <1>0, <1>1, <1>2
  <2> QED
    BY <2>1, <2>3, <2>4, <1>0, <1>1, <1>5 DEF server
<1> QED
  BY <1>6, <1>7, <1>9, <1>10, <1>11, <1>12, <1>14, <1>15, <1>16, <1>17, <1>18
     DEF IdentityNext, SelfRegister

\* What keeps the account of grants: a call that is between lookup and clearing
\* stays as it was, and leaves only with its token cleared or doubtful.
LEMMA GrantFrame ==
    ASSUME IdentityTypeOK, GrantInv, grants' = grants, doubtful \subseteq doubtful',
           \A g \in grants : regToken' = g[1] => regToken = g[1],
           \A p \in Caller : Active(p)' => call'[p] = call[p],
           \A p \in Caller : call[p].at = "clear" =>
              call'[p] = call[p] \/ regToken' = 0 \/ call[p].token \in doubtful'
    PROVE  GrantInv'
<1>1. \A p, q \in Caller : p # q /\ Active(p)' /\ Active(q)' /\ call'[p].token = call'[q].token
                              => call'[p].token \in doubtful'
  BY DEF GrantInv, Active
<1>2. ASSUME NEW g \in grants', g[1] \notin doubtful'
      PROVE  /\ \A p \in Caller : call'[p].at = "create" => call'[p].token # g[1]
             /\ regToken' = g[1] => \E p \in Caller : call'[p].at = "clear" /\ call'[p].token = g[1]
  <2>1. g \in grants /\ g[1] \notin doubtful /\ g[1] # 0
    <3>1. g[1] \in 1..tokens /\ tokens \in Nat
      BY DEF IdentityTypeOK
    <3> QED
      BY <1>2, <3>1
  <2>2. \A p \in Caller : call'[p].at = "create" => call'[p].token # g[1]
    BY <2>1 DEF GrantInv, Active
  <2>3. ASSUME regToken' = g[1]
        PROVE  \E p \in Caller : call'[p].at = "clear" /\ call'[p].token = g[1]
    <3>1. PICK p \in Caller : call[p].at = "clear" /\ call[p].token = g[1]
      BY <2>1, <2>3 DEF GrantInv
    <3>2. call'[p] = call[p]
      BY <3>1, <2>1, <2>3, <1>2
    <3> QED
      BY <3>1, <3>2
  <2> QED
    BY <2>2, <2>3
<1> QED
  BY <1>1, <1>2 DEF GrantInv, TokenGrantsOneKey, Active

\* Every step keeps the account of grants.
LEMMA GrantStep == IdentityTypeOK /\ GrantInv /\ [IdentityNext]_identityVars => GrantInv'
<1> SUFFICES ASSUME IdentityTypeOK, GrantInv, [IdentityNext]_identityVars PROVE GrantInv'
  OBVIOUS
<1>0. /\ call \in [Caller -> CallType] /\ Main \in Caller /\ Worker \subseteq Caller
      /\ tokens \in Nat /\ \A g \in grants : g[1] \in 1..tokens
  BY DEF IdentityTypeOK, Caller
<1>1. NoCall.at = "none" /\ \A t : [at |-> "lookup", token |-> t, key |-> 0, attempt |-> 1].at = "lookup"
  BY DEF NoCall
<1>2. ASSUME NEW p \in Caller, NEW next, Set(p, next)
      PROVE  call'[p] = next /\ \A q \in Caller : q # p => call'[q] = call[q]
  BY <1>0, <1>2 DEF Set
<1>3. ASSUME NEW p \in Caller, NEW at \in {"none", "lookup", "create", "clear", "reply", "failed"}
      PROVE  [call[p] EXCEPT !.at = at].at = at /\ [call[p] EXCEPT !.at = at].token = call[p].token
  BY <1>0 DEF CallType
\* Calls that are no longer, or not yet, between lookup and clearing.
<1>4. ASSUME NEW p \in Caller, NEW next, Set(p, next), next.at \notin {"create", "clear"},
             call[p].at # "clear", UNCHANGED <<grants, doubtful, regToken>>
      PROVE  GrantInv'
  <2>1. \A q \in Caller : Active(q)' => call'[q] = call[q]
    BY <1>2, <1>4 DEF Active
  <2>2. \A q \in Caller : call[q].at = "clear" => call'[q] = call[q]
    BY <1>2, <1>4
  <2> QED
    BY <2>1, <2>2, <1>4, GrantFrame
<1>5. ASSUME UNCHANGED <<grants, doubtful, call>>, regToken' \in {regToken, 0, tokens + 1} PROVE GrantInv'
  <2>1. \A g \in grants : regToken' = g[1] => regToken = g[1]
    <3>1. \A g \in grants : g[1] # 0 /\ g[1] # tokens + 1
      BY <1>0
    <3> QED
      BY <3>1, <1>5
  <2> QED
    BY <2>1, <1>5, GrantFrame
<1>6. CASE \/ RegisterAgent \/ TokenExpires \/ RevokeAPIKey \/ Start \/ StartConfigured \/ StartCached
           \/ Stop \/ UNCHANGED identityVars \/ \E w \in Worker : Send(w) \/ Accepted(w)
  BY <1>5, <1>6 DEF RegisterAgent, TokenExpires, RevokeAPIKey, Start, StartConfigured, StartCached,
    Stop, Send, Accepted, identityVars, identityHistory, server
<1>7. ASSUME NEW p \in Caller, Refuse(p) \/ CallerGone(p) PROVE GrantInv'
  <2>1. call[p].at # "clear" /\ UNCHANGED <<grants, doubtful, regToken>>
    BY <1>7 DEF Refuse, CallerGone, Calls, server, identityHistory
  <2>2. Set(p, NoCall) \/ Set(p, [call[p] EXCEPT !.at = "failed"])
    BY <1>7 DEF Refuse, CallerGone
  <2>3. PICK next : Set(p, next) /\ next.at \notin {"create", "clear"}
    BY <2>2, <1>1, <1>3
  <2> QED
    BY <2>1, <2>3, <1>4
<1>8. CASE StartRegisters \/ RegisterWithRetry \/ StartRegistered
  <2>1. call[Main].at # "clear" /\ UNCHANGED <<grants, doubtful, regToken>>
    BY <1>8, <1>1 DEF StartRegisters, Starting, RegisterWithRetry, StartRegistered, Calls, server, identityHistory
  <2>2. call' = call \/ \E next : Set(Main, next) /\ next.at \notin {"create", "clear"}
    <3>1. CASE StartRegisters \/ StartRegistered
      BY <3>1, <1>1 DEF StartRegisters, StartRegistered
    <3>2. CASE RegisterWithRetry
      <4>1. [call[Main] EXCEPT !.at = "lookup", !.attempt = @ + 1].at = "lookup"
        BY <1>0 DEF CallType
      <4> QED
        BY <3>2, <4>1, <1>1 DEF RegisterWithRetry
    <3> QED
      BY <1>8, <3>1, <3>2
  <2> QED
    BY <2>1, <2>2, <1>0, <1>4, <1>5
<1>9. ASSUME NEW w \in Worker, RefreshOnUnauthorized(w) \/ Refreshed(w) \/ RefreshFails(w)
      PROVE  GrantInv'
  <2>1. call[w].at # "clear" /\ UNCHANGED <<grants, doubtful, regToken>>
    BY <1>9, <1>1 DEF RefreshOnUnauthorized, Refreshed, RefreshFails, Calls, server, identityHistory
  <2>2. call' = call \/ \E next : Set(w, next) /\ next.at \notin {"create", "clear"}
    BY <1>9, <1>1 DEF RefreshOnUnauthorized, Refreshed, RefreshFails
  <2> QED
    BY <2>1, <2>2, <1>0, <1>4, <1>5
<1>10. ASSUME NEW p \in Caller, GetEnvironmentByRegistrationToken(p) PROVE GrantInv'
  <2> DEFINE t == call[p].token
  <2>1. /\ call[p].at = "lookup" /\ t = regToken /\ Set(p, [call[p] EXCEPT !.at = "create"])
        /\ UNCHANGED <<grants, regToken>> /\ doubtful \subseteq doubtful'
        /\ (\E q \in Caller : Active(q) /\ call[q].token = t) => t \in doubtful'
    BY <1>10 DEF GetEnvironmentByRegistrationToken, Calls, server, Active
  <2>2. /\ call'[p].at = "create" /\ call'[p].token = t
        /\ \A q \in Caller : q # p => call'[q] = call[q]
    <3>1. call'[p] = [call[p] EXCEPT !.at = "create"] /\ \A q \in Caller : q # p => call'[q] = call[q]
      BY <2>1, <1>2
    <3> QED
      BY <3>1, <1>3
  <2> HIDE DEF t
  <2>3. \A q \in Caller : q # p /\ Active(q)' /\ call'[q].token = t => t \in doubtful'
    BY <2>1, <2>2 DEF Active
  <2>4. \A q, r \in Caller : q # r /\ Active(q)' /\ Active(r)' /\ call'[q].token = call'[r].token
                              => call'[q].token \in doubtful'
    <3> SUFFICES ASSUME NEW q \in Caller, NEW r \in Caller, q # r, Active(q)', Active(r)',
                        call'[q].token = call'[r].token
                 PROVE  call'[q].token \in doubtful'
      OBVIOUS
    <3>1. CASE q = p \/ r = p
      BY <3>1, <2>2, <2>3
    <3>2. CASE q # p /\ r # p
      BY <3>2, <2>1, <2>2 DEF GrantInv, Active
    <3> QED
      BY <3>1, <3>2
  <2>5. ASSUME NEW g \in grants', g[1] \notin doubtful'
        PROVE  /\ \A q \in Caller : call'[q].at = "create" => call'[q].token # g[1]
               /\ regToken' = g[1] => \E q \in Caller : call'[q].at = "clear" /\ call'[q].token = g[1]
    <3>1. g \in grants /\ g[1] \notin doubtful
      BY <2>1, <2>5
    <3>2. g[1] # t
      BY <3>1, <2>1, <2>5 DEF GrantInv, Active
    <3> QED
      BY <3>1, <3>2, <2>1, <2>2 DEF GrantInv
  <2> QED
    BY <2>1, <2>4, <2>5 DEF GrantInv, TokenGrantsOneKey, Active
<1>11. ASSUME NEW p \in Caller, CreateAPIKey(p) PROVE GrantInv'
  <2> DEFINE t == call[p].token
             n == created + 1
             next == [call[p] EXCEPT !.at = "clear", !.key = n]
  <2>1. /\ call[p].at = "create" /\ Set(p, next) /\ UNCHANGED <<regToken, doubtful>>
        /\ grants' = grants \cup {<<t, n>>}
    BY <1>11 DEF CreateAPIKey, Calls
  <2>2. next.at = "clear" /\ next.token = t
    BY <1>0 DEF CallType
  <2> HIDE DEF t, n, next
  <2>3. /\ call'[p].at = "clear" /\ call'[p].token = t
        /\ \A q \in Caller : q # p => call'[q] = call[q]
    BY <2>1, <2>2, <1>2
  <2>4. \A q \in Caller : (Active(q)' <=> Active(q)) /\ call'[q].token = call[q].token
    BY <2>1, <2>3 DEF Active, t
  <2>5. \A q, r \in Caller : q # r /\ Active(q)' /\ Active(r)' /\ call'[q].token = call'[r].token
                              => call'[q].token \in doubtful'
    BY <2>1, <2>4 DEF GrantInv
  <2>6. \A g \in grants : g[1] = t => t \in doubtful
    BY <2>1 DEF GrantInv, t
  <2>7. t \notin doubtful => \A q \in Caller : q # p /\ Active(q) => call[q].token # t
    BY <2>1 DEF GrantInv, Active, t
  <2>8. \A g \in grants' : g \in grants \/ (g = <<t, n>> /\ g[1] = t)
    BY <2>1
  <2>9. ASSUME NEW g \in grants', g[1] \notin doubtful'
        PROVE  /\ \A q \in Caller : call'[q].at = "create" => call'[q].token # g[1]
               /\ regToken' = g[1] => \E q \in Caller : call'[q].at = "clear" /\ call'[q].token = g[1]
    <3>1. CASE g[1] = t
      BY <3>1, <2>1, <2>3, <2>7, <2>9 DEF Active
    <3>2. CASE g[1] # t
      <4>1. g \in grants /\ g[1] \notin doubtful
        BY <3>2, <2>1, <2>8, <2>9
      <4> QED
        BY <4>1, <3>2, <2>1, <2>3 DEF GrantInv
    <3> QED
      BY <3>1, <3>2
  <2>10. TokenGrantsOneKey'
    BY <2>1, <2>6, <2>8 DEF GrantInv, TokenGrantsOneKey
  <2> QED
    BY <2>5, <2>9, <2>10 DEF GrantInv, Active
<1>12. ASSUME NEW p \in Caller, ClearRegistrationToken(p) \/ SelfRegisterFails(p) PROVE GrantInv'
  <2>1. /\ grants' = grants /\ doubtful \subseteq doubtful' /\ regToken' \in {regToken, 0}
        /\ call[p].at = "clear" => regToken' = 0 \/ call[p].token \in doubtful'
    BY <1>12 DEF ClearRegistrationToken, SelfRegisterFails, identityHistory, server, ClearedToken, Calls
  <2>2. PICK at \in {"reply", "failed"} : Set(p, [call[p] EXCEPT !.at = at])
    BY <1>12 DEF ClearRegistrationToken, SelfRegisterFails
  <2>3. call'[p].at = at /\ \A q \in Caller : q # p => call'[q] = call[q]
    <3>1. call'[p] = [call[p] EXCEPT !.at = at] /\ \A q \in Caller : q # p => call'[q] = call[q]
      BY <2>2, <1>2
    <3> QED
      BY <3>1, <1>3
  <2>4. /\ \A q \in Caller : Active(q)' => call'[q] = call[q]
        /\ \A q \in Caller : call[q].at = "clear" =>
              call'[q] = call[q] \/ regToken' = 0 \/ call[q].token \in doubtful'
    BY <2>1, <2>3 DEF Active
  <2>5. \A g \in grants : regToken' = g[1] => regToken = g[1]
    BY <2>1, <1>0
  <2> QED
    BY <2>1, <2>4, <2>5, GrantFrame
<1> QED
  BY <1>6, <1>7, <1>8, <1>9, <1>10, <1>11, <1>12 DEF IdentityNext, SelfRegister

\* Every step keeps the file and the key in memory together, or the key dead.
LEMMA FileStep == IdentityTypeOK /\ FileInv /\ [IdentityNext]_identityVars => FileInv'
<1> SUFFICES ASSUME IdentityTypeOK, FileInv, [IdentityNext]_identityVars PROVE FileInv'
  OBVIOUS
<1>0. cm.key \in 0..created /\ created \in Nat /\ DOMAIN cm = {"key", "holder"}
      /\ proc \in [state : {"down", "starting", "up"}, token : Nat, starts : Nat]
  BY DEF IdentityTypeOK
<1>1. ASSUME UNCHANGED <<proc, cm, file, unsaved, twice>>, keys' \subseteq keys \cup {created + 1}
      PROVE  FileInv'
  BY <1>0, <1>1 DEF FileInv
<1>2. CASE \/ RegisterAgent \/ TokenExpires \/ RevokeAPIKey \/ UNCHANGED identityVars
           \/ \E p \in Caller : SelfRegister(p)
           \/ \E w \in Worker : Send(w) \/ Accepted(w)
  BY <1>1, <1>2 DEF RegisterAgent, TokenExpires, RevokeAPIKey, identityVars, identityHistory, server,
    SelfRegister, GetEnvironmentByRegistrationToken, CreateAPIKey, ClearRegistrationToken, Refuse,
    SelfRegisterFails, CallerGone, Send, Accepted
<1>3. CASE Start \/ StartRegisters \/ RegisterWithRetry \/ Stop
  <2>1. proc'.state # "up"
    BY <1>0, <1>3 DEF Start, StartRegisters, Starting, RegisterWithRetry, Stop
  <2> QED
    BY <2>1 DEF FileInv
<1>4. CASE StartConfigured
  BY <1>4 DEF StartConfigured, FileInv
<1>5. CASE StartCached
  BY <1>5 DEF StartCached, Up, FileInv
<1>6. CASE StartRegistered
  BY <1>6 DEF StartRegistered, Up, SaveCredentials, FileInv
<1>7. ASSUME NEW w \in Worker, RefreshOnUnauthorized(w) PROVE FileInv'
  <2>1. UNCHANGED <<keys, proc, unsaved>> /\ used[w] \notin keys
    BY <1>7 DEF RefreshOnUnauthorized, server, AgentAPIKeyAuth
  <2>2. CASE proc.token = 0
    BY <2>1, <2>2, <1>1, <1>7 DEF RefreshOnUnauthorized
  <2>3. CASE proc.token # 0
    <3>1. cm' = [cm EXCEPT !.holder = w] /\ (~twice' => used[w] = cm.key)
      BY <2>3, <1>7 DEF RefreshOnUnauthorized
    <3>2. cm'.key = cm.key
      BY <3>1, <1>0
    <3> QED
      BY <3>1, <3>2, <2>1 DEF FileInv
  <2> QED
    BY <2>2, <2>3
<1>8. ASSUME NEW w \in Worker, Refreshed(w) PROVE FileInv'
  <2>1. cm'.key = call[w].key /\ (file' = call[w].key \/ unsaved')
    BY <1>8 DEF Refreshed, RefreshedFile, SaveCredentials
  <2> QED
    BY <2>1 DEF FileInv
<1>9. ASSUME NEW w \in Worker, RefreshFails(w) PROVE FileInv'
  <2>1. UNCHANGED <<keys, proc, file, unsaved, twice>> /\ cm' = [cm EXCEPT !.holder = NoOne]
    BY <1>9 DEF RefreshFails, server, identityHistory
  <2>2. cm'.key = cm.key
    BY <2>1, <1>0
  <2> QED
    BY <2>1, <2>2 DEF FileInv
<1> QED
  BY <1>2, <1>3, <1>4, <1>5, <1>6, <1>7, <1>8, <1>9 DEF IdentityNext

\* The invariant holds in every reachable state of the registration.
LEMMA IdentityInvHolds == IdentitySpec => []IdentityInv
<1>1. IdentityInv /\ [IdentityNext]_identityVars => IdentityInv'
  BY IdentityTypeStep, GrantStep, FileStep DEF IdentityInv
<1> QED
  BY <1>1, IdentityInitInv, PTL DEF IdentitySpec

\* SelfRegister, without a transaction around its three statements: a token
\* gives two keys only to calls that had both looked it up before it was
\* cleared, or when its clearing failed, for any number of callers and restarts.
THEOREM TokensGrantOneKey == IdentitySpec => []TokenGrantsOneKey
<1>1. IdentityInv => TokenGrantsOneKey
  BY DEF IdentityInv, GrantInv
<1> QED
  BY <1>1, IdentityInvHolds, PTL

\* RefreshOnUnauthorized and loadOrRegister: a running agent whose key is good
\* finds it again after a restart, but for the three exceptions the property
\* names.
THEOREM RestartFindsKey == IdentitySpec => []RestartFindsKeyUnlessRefreshedTwice
<1>1. IdentityInv => RestartFindsKeyUnlessRefreshedTwice
  BY DEF IdentityInv, FileInv, RestartFindsKeyUnlessRefreshedTwice, AgentAPIKeyAuth
<1> QED
  BY <1>1, IdentityInvHolds, PTL
-----------------------------------------------------------------------------
(* N+1 detection. *)

\* The times kept for a signature, none when it is not in the map.
Kept(r, s) == IF s \in DOMAIN r THEN r[s] ELSE <<>>

\* The times of a list at or after a cutoff, and the queries of a signature.
Live(times, c) == {k \in 1..Len(times) : times[k] >= c}
Asked(q, s, c) == {j \in 1..Len(q) : q[j].sig = s /\ q[j].ts >= c}

InOrder(times) == \A i, j \in 1..Len(times) : i < j => times[i] <= times[j]
LogInOrder(q) == \A i, j \in 1..Len(q) : i < j => q[i].ts <= q[j].ts

Query == [sig : Signature, ts : 0..MaxTime, full : BOOLEAN]

N1TypeOK ==
    /\ seen \in Seq(Query)
    /\ flagged \in Seq(BOOLEAN) /\ Len(flagged) = Len(seen)
    /\ eventChFull \in BOOLEAN /\ handedOn \subseteq 1..Len(seen)
    /\ DOMAIN recent \subseteq Signature
    /\ \A s \in Signature : Kept(recent, s) \in Seq(Nat)

\* Every kept time is the time of a query.
KeptWereSeen ==
    \A s \in Signature : \A k \in 1..Len(Kept(recent, s)) :
        \E j \in 1..Len(seen) : seen[j].ts = Kept(recent, s)[k]

\* In an ordered log the times kept are in order, and from any cutoff a later
\* query can have, as many as there were queries.
KeptCount ==
    LogInOrder(seen) =>
        \A s \in Signature :
           /\ InOrder(Kept(recent, s))
           /\ \A c \in Int : (\A j \in 1..Len(seen) : seen[j].ts - Window <= c) =>
                Cardinality(Live(Kept(recent, s), c)) = Cardinality(Asked(seen, s, c))

Answered ==
    LogInOrder(seen) =>
        \A i \in 1..Len(seen) :
           /\ flagged[i] <=> Cardinality(InWindow(i)) >= Threshold
           /\ flagged[i] => (i \in handedOn <=> ~seen[i].full)

N1Inv == N1TypeOK /\ KeptWereSeen /\ KeptCount /\ Answered

\* The first live index exists.
LEMMA MinFacts ==
    ASSUME NEW S \in SUBSET Nat, S # {}
    PROVE  Min(S) \in S /\ \A y \in S : Min(S) <= y
<1>1. PICK m \in S : \A n \in S : ~(<<n, m>> \in OpToRel(<, Nat))
  BY NatLessThanWellFounded, WFMin, Zenon
<1>2. \A n \in S : ~(n < m)
  BY <1>1 DEF OpToRel
<1>3. \A n \in S : m <= n
  BY <1>2
<1>4. \E x \in S : \A y \in S : x =< y
  BY <1>3
<1> QED
  BY <1>4 DEF Min

\* Live times are finitely many.
LEMMA LiveFinite ==
    ASSUME NEW times \in Seq(Nat), NEW c \in Int
    PROVE  IsFiniteSet(Live(times, c)) /\ Cardinality(Live(times, c)) \in Nat
<1>1. Len(times) \in Nat
  OBVIOUS
<1>2. IsFiniteSet(1..Len(times)) /\ Live(times, c) \in SUBSET (1..Len(times))
  BY <1>1, FS_Interval DEF Live
<1> QED
  BY <1>2, FS_Subset, FS_CardinalityType

\* The end of a sequence, from position m on.
LEMMA TailFacts ==
    ASSUME NEW s \in Seq(Nat), NEW m \in 1..Len(s)
    PROVE  /\ SubSeq(s, m, Len(s)) \in Seq(Nat)
           /\ Len(SubSeq(s, m, Len(s))) = Len(s) - m + 1
           /\ \A k \in 1..Len(SubSeq(s, m, Len(s))) :
                SubSeq(s, m, Len(s))[k] = s[m + k - 1]
<1>1. Len(s) \in Nat /\ \A i \in 1..Len(s) : s[i] \in Nat
  OBVIOUS
<1>2. Len(SubSeq(s, m, Len(s))) = Len(s) - m + 1
  BY <1>1
<1>3. \A k \in 1..(Len(s) - m + 1) : SubSeq(s, m, Len(s))[k] = s[m + k - 1]
  BY <1>1
<1>4. SubSeq(s, m, Len(s)) \in Seq(Nat)
  BY <1>1
<1> QED
  BY <1>2, <1>3, <1>4

\* Dropping the leading times before a cutoff loses no time a later cutoff
\* would count, and in an ordered list leaves only times at or after it.
LEMMA PrunedFacts ==
    ASSUME NEW times \in Seq(Nat), NEW c \in Int
    PROVE  /\ Pruned(times, c) \in Seq(Nat)
           /\ \A k \in 1..Len(Pruned(times, c)) :
                \E i \in 1..Len(times) : Pruned(times, c)[k] = times[i]
           /\ InOrder(times) => /\ InOrder(Pruned(times, c))
                                /\ \A k \in 1..Len(Pruned(times, c)) : Pruned(times, c)[k] >= c
           /\ \A d \in Int : c <= d =>
                Cardinality(Live(Pruned(times, c), d)) = Cardinality(Live(times, d))
<1> DEFINE L == {i \in DOMAIN times : times[i] >= c}
<1>1. /\ Len(times) \in Nat /\ DOMAIN times = 1..Len(times)
      /\ \A i \in 1..Len(times) : times[i] \in Nat
  OBVIOUS
<1>2. CASE L = {}
  <2>1. Pruned(times, c) = <<>>
    BY <1>2 DEF Pruned
  <2>2. /\ Pruned(times, c) \in Seq(Nat) /\ Len(Pruned(times, c)) = 0
    <3>1. <<>> \in Seq(Nat) /\ Len(<<>>) = 0
      OBVIOUS
    <3> QED
      BY <2>1, <3>1, Zenon
  <2>3. 1..Len(Pruned(times, c)) = {}
    BY <2>2
  <2>4. ASSUME NEW d \in Int, c <= d
        PROVE  Live(Pruned(times, c), d) = {} /\ Live(times, d) = {}
    <3>1. \A i \in 1..Len(times) : ~(times[i] >= c)
      BY <1>1, <1>2
    <3>2. \A i \in 1..Len(times) : ~(times[i] >= d)
      BY <1>1, <2>4, <3>1
    <3> QED
      BY <2>3, <3>2 DEF Live
  <2> QED
    BY <2>2, <2>3, <2>4 DEF InOrder
<1>3. CASE L # {}
  <2>1. L \in SUBSET Nat
    BY <1>1
  <2>2. PICK m \in L : m = Min(L) /\ \A y \in L : m <= y
    BY <1>3, <2>1, MinFacts
  <2>3. m \in 1..Len(times) /\ times[m] >= c
    BY <1>1, <2>2
  <2> DEFINE P == SubSeq(times, m, Len(times))
  <2>4. Pruned(times, c) = P
    BY <1>3, <2>2 DEF Pruned
  <2>5. /\ P \in Seq(Nat) /\ Len(P) = Len(times) - m + 1
        /\ \A k \in 1..Len(P) : P[k] = times[m + k - 1]
    BY <2>3, TailFacts
  <2> HIDE DEF P
  <2>6. \A k \in 1..Len(P) : m + k - 1 \in 1..Len(times) /\ m <= m + k - 1
    BY <1>1, <2>3, <2>5, SMTT(30)
  <2>7. InOrder(times) => InOrder(P) /\ \A k \in 1..Len(P) : P[k] >= c
    <3> SUFFICES ASSUME InOrder(times)
                 PROVE  InOrder(P) /\ \A k \in 1..Len(P) : P[k] >= c
      OBVIOUS
    <3>1. ASSUME NEW i \in 1..Len(P), NEW j \in 1..Len(P), i < j PROVE P[i] <= P[j]
      <4>1. m + i - 1 < m + j - 1
        BY <2>3, <2>5, <3>1
      <4>2. times[m + i - 1] <= times[m + j - 1]
        BY <2>6, <4>1 DEF InOrder
      <4> QED
        BY <2>5, <4>2
    <3>2. ASSUME NEW k \in 1..Len(P) PROVE P[k] >= c
      <4>1. m + k - 1 \in 1..Len(times) /\ (m = m + k - 1 \/ m < m + k - 1)
        BY <2>3, <2>5, <2>6
      <4>2. times[m] <= times[m + k - 1]
        BY <1>1, <2>3, <4>1 DEF InOrder
      <4>3. times[m] \in Nat /\ times[m + k - 1] \in Nat /\ P[k] = times[m + k - 1]
        BY <1>1, <2>3, <2>5, <4>1
      <4> QED
        BY <2>3, <4>2, <4>3
    <3> QED
      BY <3>1, <3>2 DEF InOrder
  <2>8. ASSUME NEW d \in Int, c <= d
        PROVE  Cardinality(Live(P, d)) = Cardinality(Live(times, d))
    <3> DEFINE f == [k \in Live(P, d) |-> m + k - 1]
    <3>1. \A k \in Live(P, d) : f[k] \in Live(times, d)
      BY <2>5, <2>6 DEF Live
    <3>2. f \in Injection(Live(P, d), Live(times, d))
      <4>1. f \in [Live(P, d) -> Live(times, d)]
        BY <3>1
      <4>2. \A a, b \in Live(P, d) : f[a] = f[b] => a = b
        BY <2>3 DEF Live
      <4> QED
        BY <4>1, <4>2 DEF Injection, IsInjective
    <3>3. ASSUME NEW i \in Live(times, d) PROVE \E k \in Live(P, d) : f[k] = i
      <4>1. i \in 1..Len(times) /\ times[i] >= d /\ times[i] \in Nat
        BY <1>1 DEF Live
      <4>2. i \in L
        BY <1>1, <2>8, <4>1
      <4>3. i >= m
        BY <2>2, <2>3, <4>1, <4>2
      <4>4. i - m + 1 \in 1..Len(P) /\ m + (i - m + 1) - 1 = i
        BY <1>1, <2>3, <2>5, <4>1, <4>3, SMTT(30)
      <4>5. i - m + 1 \in Live(P, d)
        BY <2>5, <4>1, <4>4 DEF Live
      <4> QED
        BY <4>4, <4>5
    <3>4. f \in Surjection(Live(P, d), Live(times, d))
      BY <3>2, <3>3 DEF Surjection, Injection
    <3>5. ExistsBijection(Live(P, d), Live(times, d))
      BY <3>2, <3>4 DEF ExistsBijection, Bijection
    <3>6. IsFiniteSet(Live(P, d))
      BY <2>5, LiveFinite
    <3> QED
      BY <3>5, <3>6, FS_Bijection
  <2>9. \A k \in 1..Len(P) : \E i \in 1..Len(times) : P[k] = times[i]
    BY <2>5, <2>6
  <2> QED
    BY <2>4, <2>5, <2>7, <2>8, <2>9
<1> QED
  BY <1>2, <1>3

\* Appending a time: one more live time for every cutoff it reaches.
LEMMA AppendedFacts ==
    ASSUME NEW times \in Seq(Nat), NEW ts \in Nat
    PROVE  /\ Append(times, ts) \in Seq(Nat) /\ Len(Append(times, ts)) = Len(times) + 1
           /\ \A k \in 1..Len(times) : Append(times, ts)[k] = times[k]
           /\ Append(times, ts)[Len(times) + 1] = ts
           /\ (InOrder(times) /\ \A k \in 1..Len(times) : times[k] <= ts) =>
                InOrder(Append(times, ts))
           /\ \A c \in Int : Cardinality(Live(Append(times, ts), c)) =
                IF ts >= c THEN Cardinality(Live(times, c)) + 1 ELSE Cardinality(Live(times, c))
<1> DEFINE q == Append(times, ts)
<1>1. /\ q \in Seq(Nat) /\ Len(q) = Len(times) + 1 /\ Len(times) \in Nat
      /\ \A k \in 1..Len(times) : q[k] = times[k]
      /\ q[Len(times) + 1] = ts
  OBVIOUS
<1> HIDE DEF q
<1>2. /\ \A k \in 1..Len(q) : k \in 1..Len(times) \/ k = Len(times) + 1
      /\ \A k \in 1..Len(times) : k \in 1..Len(q) /\ k # Len(times) + 1
      /\ Len(times) + 1 \in 1..Len(q)
  BY <1>1
<1>3. ASSUME InOrder(times), \A k \in 1..Len(times) : times[k] <= ts
      PROVE  InOrder(q)
  <2> SUFFICES ASSUME NEW i \in 1..Len(q), NEW j \in 1..Len(q), i < j PROVE q[i] <= q[j]
    BY DEF InOrder
  <2>1. i \in 1..Len(times)
    BY <1>1
  <2>2. CASE j \in 1..Len(times)
    BY <1>1, <1>3, <2>1, <2>2 DEF InOrder
  <2>3. CASE j = Len(times) + 1
    BY <1>1, <1>3, <2>1, <2>3
  <2> QED
    BY <1>2, <2>2, <2>3
<1>4. ASSUME NEW c \in Int
      PROVE  Cardinality(Live(q, c)) =
               IF ts >= c THEN Cardinality(Live(times, c)) + 1 ELSE Cardinality(Live(times, c))
  <2>1. IsFiniteSet(Live(times, c)) /\ Len(times) + 1 \notin Live(times, c)
    BY <1>2, LiveFinite DEF Live
  <2>2. ts >= c => Live(q, c) = Live(times, c) \cup {Len(times) + 1}
    BY <1>1, <1>2 DEF Live
  <2>3. ~(ts >= c) => Live(q, c) = Live(times, c)
    BY <1>1, <1>2 DEF Live
  <2>4. Cardinality(Live(times, c) \cup {Len(times) + 1}) = Cardinality(Live(times, c)) + 1
    BY <2>1, FS_AddElement
  <2> QED
    BY <2>2, <2>3, <2>4
<1> QED
  BY <1>1, <1>3, <1>4 DEF q

\* The same for the log: one more query of its own signature.
LEMMA AskedFacts ==
    ASSUME NEW q \in Seq(Query), NEW x \in Query
    PROVE  /\ Append(q, x) \in Seq(Query) /\ Len(Append(q, x)) = Len(q) + 1
           /\ Len(q) \in Nat
           /\ \A k \in 1..Len(q) : Append(q, x)[k] = q[k]
           /\ Append(q, x)[Len(q) + 1] = x
           /\ \A s \in Signature, c \in Int :
                /\ IsFiniteSet(Asked(q, s, c))
                /\ Cardinality(Asked(Append(q, x), s, c)) =
                     IF x.sig = s /\ x.ts >= c THEN Cardinality(Asked(q, s, c)) + 1
                     ELSE Cardinality(Asked(q, s, c))
<1> DEFINE p == Append(q, x)
<1>1. /\ p \in Seq(Query) /\ Len(p) = Len(q) + 1 /\ Len(q) \in Nat
      /\ \A k \in 1..Len(q) : p[k] = q[k]
      /\ p[Len(q) + 1] = x
  OBVIOUS
<1> HIDE DEF p
<1>2. /\ \A k \in 1..Len(p) : k \in 1..Len(q) \/ k = Len(q) + 1
      /\ \A k \in 1..Len(q) : k \in 1..Len(p) /\ k # Len(q) + 1
      /\ Len(q) + 1 \in 1..Len(p)
  BY <1>1
<1>3. ASSUME NEW s \in Signature, NEW c \in Int
      PROVE  /\ IsFiniteSet(Asked(q, s, c))
             /\ Cardinality(Asked(p, s, c)) =
                  IF x.sig = s /\ x.ts >= c THEN Cardinality(Asked(q, s, c)) + 1
                  ELSE Cardinality(Asked(q, s, c))
  <2>1. IsFiniteSet(1..Len(q)) /\ Asked(q, s, c) \in SUBSET (1..Len(q))
    <3>1. Len(q) \in Int /\ 1 \in Int
      BY <1>1
    <3>2. IsFiniteSet(1..Len(q))
      BY <3>1, FS_Interval, Zenon
    <3>3. Asked(q, s, c) \in SUBSET (1..Len(q))
      BY DEF Asked
    <3> QED
      BY <3>2, <3>3
  <2>2. IsFiniteSet(Asked(q, s, c)) /\ Len(q) + 1 \notin Asked(q, s, c)
    BY <1>2, <2>1, FS_Subset DEF Asked
  <2>3. (x.sig = s /\ x.ts >= c) => Asked(p, s, c) = Asked(q, s, c) \cup {Len(q) + 1}
    BY <1>1, <1>2 DEF Asked
  <2>4. ~(x.sig = s /\ x.ts >= c) => Asked(p, s, c) = Asked(q, s, c)
    BY <1>1, <1>2 DEF Asked
  <2>5. Cardinality(Asked(q, s, c) \cup {Len(q) + 1}) = Cardinality(Asked(q, s, c)) + 1
    BY <2>2, FS_AddElement
  <2> QED
    BY <2>2, <2>3, <2>4, <2>5
<1> QED
  BY <1>1, <1>3 DEF p

\* What Check leaves in the map: the signature's own list pruned and extended,
\* every list pruned once more when a full prune is due.
LEMMA CheckFacts ==
    ASSUME N1TypeOK, NEW sig \in Signature, NEW ts \in 0..MaxTime, NEW slow \in BOOLEAN,
           HandleQuery(sig, ts, slow), NEW s \in Signature
    PROVE  LET q == IF s = sig THEN Times(sig, ts) ELSE Kept(recent, s)
           IN  /\ DOMAIN recent' \subseteq Signature
               /\ Times(sig, ts) = Append(Pruned(Kept(recent, sig), ts - Window), ts)
               /\ Kept(recent', s) = q \/ Kept(recent', s) = Pruned(q, ts - Window)
<1> DEFINE q == IF s = sig THEN Times(sig, ts) ELSE Kept(recent, s)
           u == [x \in DOMAIN recent \cup {sig} |-> IF x = sig THEN Times(sig, ts) ELSE recent[x]]
<1>1. Pruned(<<>>, ts - Window) = <<>>
  <2>1. DOMAIN <<>> = {}
    OBVIOUS
  <2>2. {i \in DOMAIN <<>> : <<>>[i] >= ts - Window} = {}
    BY <2>1
  <2> QED
    BY <2>2 DEF Pruned
<1>2. Times(sig, ts) = Append(Pruned(Kept(recent, sig), ts - Window), ts)
  BY <1>1 DEF Times, Kept
<1>3. DOMAIN u = DOMAIN recent \cup {sig} /\ Kept(u, s) = q
  BY DEF Kept
<1>4. recent' = u \/ recent' = PruneStale(u, ts - Window)
  BY DEF HandleQuery
<1> HIDE DEF u, q
<1>5. CASE recent' = u
  <2>1. DOMAIN recent' \subseteq Signature
    BY <1>3, <1>5 DEF N1TypeOK
  <2>2. Kept(recent', s) = q
    BY <1>3, <1>5
  <2> QED
    BY <1>2, <2>1, <2>2 DEF q
<1>6. CASE recent' = PruneStale(u, ts - Window)
  <2>1. /\ DOMAIN recent' = {x \in DOMAIN u : Pruned(u[x], ts - Window) # <<>>}
        /\ \A x \in DOMAIN recent' : recent'[x] = Pruned(u[x], ts - Window)
    BY <1>6 DEF PruneStale
  <2>2. DOMAIN recent' \subseteq Signature
    BY <1>3, <2>1 DEF N1TypeOK
  <2>3. Kept(recent', s) = Pruned(q, ts - Window)
    <3>1. CASE s \in DOMAIN u
      BY <1>3, <2>1, <3>1 DEF Kept
    <3>2. CASE s \notin DOMAIN u
      <4>1. q = <<>> /\ Kept(recent', s) = <<>>
        BY <1>3, <2>1, <3>2 DEF Kept
      <4> QED
        BY <1>1, <4>1
    <3> QED
      BY <3>1, <3>2
  <2> QED
    BY <1>2, <2>2, <2>3 DEF q
<1> QED
  BY <1>4, <1>5, <1>6

\* The list of a signature after its own check, before a full prune.
LEMMA CheckedTimes ==
    ASSUME N1Inv, NEW sig \in Signature, NEW ts \in 0..MaxTime, NEW slow \in BOOLEAN,
           HandleQuery(sig, ts, slow), NEW s \in Signature,
           NEW q, s = sig => q = Times(sig, ts), s # sig => q = Kept(recent, s)
    PROVE  /\ q \in Seq(Nat)
           /\ \A k \in 1..Len(q) : \E j \in 1..Len(seen') : seen'[j].ts = q[k]
           /\ LogInOrder(seen') =>
                /\ LogInOrder(seen)
                /\ InOrder(q)
                /\ s = sig => \A k \in 1..Len(q) : q[k] >= ts - Window
                /\ \A c \in Int : ts - Window <= c =>
                     Cardinality(Live(q, c)) = Cardinality(Asked(seen', s, c))
<1> USE N1Assumption DEF N1Inv
<1> DEFINE x == [sig |-> sig, ts |-> ts, full |-> eventChFull]
           cut == ts - Window
<1>1. /\ x \in Query /\ x.sig = sig /\ x.ts = ts /\ cut \in Int /\ ts \in Nat
      /\ seen \in Seq(Query) /\ seen' = Append(seen, x)
  BY DEF Query, HandleQuery, N1TypeOK
<1> HIDE DEF x
<1>2. /\ Len(seen') = Len(seen) + 1 /\ Len(seen) \in Nat
      /\ \A k \in 1..Len(seen) : seen'[k] = seen[k]
      /\ seen'[Len(seen) + 1] = x
      /\ \A c \in Int :
           Cardinality(Asked(seen', s, c)) =
             IF sig = s /\ ts >= c THEN Cardinality(Asked(seen, s, c)) + 1
             ELSE Cardinality(Asked(seen, s, c))
  BY <1>1, AskedFacts
<1>3. /\ \A j \in 1..Len(seen) : j \in 1..Len(seen') /\ j < Len(seen) + 1
      /\ Len(seen) + 1 \in 1..Len(seen')
  BY <1>2
<1>4. \A j \in 1..Len(seen) : seen[j].ts \in Nat
  <2>1. \A j \in 1..Len(seen) : seen[j] \in Query
    BY <1>1
  <2>2. \A y \in Query : y.ts \in Nat
    BY DEF Query
  <2> QED
    BY <2>1, <2>2
<1>5. LogInOrder(seen') => LogInOrder(seen) /\ \A j \in 1..Len(seen) : seen[j].ts <= ts
  <2> SUFFICES ASSUME LogInOrder(seen')
               PROVE  LogInOrder(seen) /\ \A j \in 1..Len(seen) : seen[j].ts <= ts
    OBVIOUS
  <2>1. LogInOrder(seen)
    BY <1>2, <1>3 DEF LogInOrder
  <2>2. \A j \in 1..Len(seen) : seen[j].ts <= ts
    BY <1>1, <1>2, <1>3 DEF LogInOrder
  <2> QED
    BY <2>1, <2>2
<1>6. /\ Kept(recent, s) \in Seq(Nat)
      /\ \A k \in 1..Len(Kept(recent, s)) :
           \E j \in 1..Len(seen) : seen[j].ts = Kept(recent, s)[k]
      /\ LogInOrder(seen) =>
           /\ InOrder(Kept(recent, s))
           /\ \A c \in Int : (\A j \in 1..Len(seen) : seen[j].ts - Window <= c) =>
                Cardinality(Live(Kept(recent, s), c)) = Cardinality(Asked(seen, s, c))
  BY DEF N1TypeOK, KeptWereSeen, KeptCount
<1>7. LogInOrder(seen') =>
        \A c \in Int : cut <= c => \A j \in 1..Len(seen) : seen[j].ts - Window <= c
  BY <1>1, <1>4, <1>5
<1>8. CASE s # sig
  <2>1. q = Kept(recent, s)
    BY <1>8
  <2>2. \A k \in 1..Len(q) : \E j \in 1..Len(seen') : seen'[j].ts = q[k]
    BY <1>2, <1>3, <1>6, <2>1
  <2>3. LogInOrder(seen') =>
          \A c \in Int : cut <= c => Cardinality(Live(q, c)) = Cardinality(Asked(seen', s, c))
    BY <1>2, <1>5, <1>6, <1>7, <1>8, <2>1
  <2>4. /\ q \in Seq(Nat)
        /\ LogInOrder(seen') => LogInOrder(seen) /\ InOrder(q)
    BY <1>5, <1>6, <2>1
  <2> QED
    BY <1>8, <2>2, <2>3, <2>4
<1>9. CASE s = sig
  <2> DEFINE p == Pruned(Kept(recent, s), cut)
  <2>1. q = Append(p, ts)
    BY <1>9, CheckFacts
  <2>2. /\ p \in Seq(Nat)
        /\ \A k \in 1..Len(p) : \E i \in 1..Len(Kept(recent, s)) : p[k] = Kept(recent, s)[i]
        /\ InOrder(Kept(recent, s)) => InOrder(p) /\ \A k \in 1..Len(p) : p[k] >= cut
        /\ \A d \in Int : cut <= d =>
             Cardinality(Live(p, d)) = Cardinality(Live(Kept(recent, s), d))
    BY <1>1, <1>6, PrunedFacts
  <2> HIDE DEF p, cut
  <2>3. /\ Append(p, ts) \in Seq(Nat) /\ Len(Append(p, ts)) = Len(p) + 1
        /\ \A k \in 1..Len(p) : Append(p, ts)[k] = p[k]
        /\ Append(p, ts)[Len(p) + 1] = ts
        /\ (InOrder(p) /\ \A k \in 1..Len(p) : p[k] <= ts) => InOrder(Append(p, ts))
        /\ \A c \in Int : Cardinality(Live(Append(p, ts), c)) =
             IF ts >= c THEN Cardinality(Live(p, c)) + 1 ELSE Cardinality(Live(p, c))
    BY <1>1, <2>2, AppendedFacts
  <2>4. /\ q \in Seq(Nat) /\ Len(q) = Len(p) + 1 /\ Len(p) \in Nat
        /\ \A k \in 1..Len(p) : q[k] = p[k]
        /\ q[Len(p) + 1] = ts
        /\ (InOrder(p) /\ \A k \in 1..Len(p) : p[k] <= ts) => InOrder(q)
        /\ \A c \in Int : Cardinality(Live(q, c)) =
             IF ts >= c THEN Cardinality(Live(p, c)) + 1 ELSE Cardinality(Live(p, c))
    <3>1. Len(p) \in Nat
      BY <2>2
    <3> QED
      BY <2>1, <2>3, <3>1
  <2>5. \A k \in 1..Len(q) : k \in 1..Len(p) \/ k = Len(p) + 1
    BY <2>4
  <2>6. \A k \in 1..Len(p) : \E j \in 1..Len(seen) : seen[j].ts = p[k]
    BY <1>6, <2>2
  <2>7. \A k \in 1..Len(q) : \E j \in 1..Len(seen') : seen'[j].ts = q[k]
    <3> SUFFICES ASSUME NEW k \in 1..Len(q)
                 PROVE  \E j \in 1..Len(seen') : seen'[j].ts = q[k]
      OBVIOUS
    <3>1. CASE k \in 1..Len(p)
      BY <1>2, <1>3, <2>4, <2>6, <3>1
    <3>2. CASE k = Len(p) + 1
      BY <1>1, <1>2, <1>3, <2>4, <3>2
    <3> QED
      BY <2>5, <3>1, <3>2
  <2>8. ASSUME LogInOrder(seen')
        PROVE  /\ LogInOrder(seen) /\ InOrder(q)
               /\ \A k \in 1..Len(q) : q[k] >= cut
               /\ \A c \in Int : cut <= c =>
                    Cardinality(Live(q, c)) = Cardinality(Asked(seen', s, c))
    <3>1. LogInOrder(seen) /\ InOrder(Kept(recent, s))
      BY <1>5, <1>6, <2>8
    <3>2. InOrder(p) /\ \A k \in 1..Len(p) : p[k] >= cut
      BY <2>2, <3>1
    <3>3. \A k \in 1..Len(p) : p[k] <= ts
      BY <1>5, <2>6, <2>8
    <3>4. InOrder(q)
      BY <2>4, <3>2, <3>3
    <3>5. ts >= cut
      BY <1>1 DEF cut
    <3>6. \A k \in 1..Len(q) : q[k] >= cut
      BY <2>4, <2>5, <3>2, <3>5
    <3>7. ASSUME NEW c \in Int, cut <= c
          PROVE  Cardinality(Live(q, c)) = Cardinality(Asked(seen', s, c))
      <4>1. Cardinality(Live(p, c)) = Cardinality(Live(Kept(recent, s), c))
        BY <2>2, <3>7
      <4>2. Cardinality(Live(Kept(recent, s), c)) = Cardinality(Asked(seen, s, c))
        BY <1>6, <1>7, <2>8, <3>1, <3>7
      <4> QED
        BY <1>2, <1>9, <2>4, <4>1, <4>2
    <3> QED
      BY <3>1, <3>4, <3>6, <3>7
  <2> QED
    BY <1>9, <2>4, <2>7, <2>8 DEF cut
<1> QED
  BY <1>8, <1>9

\* The same for the signature that was checked.
LEMMA OwnTimes ==
    ASSUME N1Inv, NEW sig \in Signature, NEW ts \in 0..MaxTime, NEW slow \in BOOLEAN,
           HandleQuery(sig, ts, slow), NEW q, q = Times(sig, ts)
    PROVE  /\ q \in Seq(Nat)
           /\ \A k \in 1..Len(q) : \E j \in 1..Len(seen') : seen'[j].ts = q[k]
           /\ LogInOrder(seen') =>
                /\ LogInOrder(seen)
                /\ InOrder(q)
                /\ \A k \in 1..Len(q) : q[k] >= ts - Window
                /\ \A c \in Int : ts - Window <= c =>
                     Cardinality(Live(q, c)) = Cardinality(Asked(seen', sig, c))
<1>1. sig # sig => q = Kept(recent, sig)
  OBVIOUS
<1> QED
  BY <1>1, CheckedTimes

\* Check and Allow preserve the invariant, and the answer counts the window.
LEMMA HandleQueryStep ==
    ASSUME N1Inv, NEW sig \in Signature, NEW ts \in 0..MaxTime, NEW slow \in BOOLEAN,
           HandleQuery(sig, ts, slow)
    PROVE  N1Inv'
<1> USE N1Assumption
<1>0. N1TypeOK /\ KeptWereSeen /\ KeptCount /\ Answered
  BY DEF N1Inv
<1> DEFINE n == Len(seen) + 1
           x == [sig |-> sig, ts |-> ts, full |-> eventChFull]
<1>1. /\ x \in Query /\ x.sig = sig /\ x.ts = ts /\ ts - Window \in Int /\ ts \in Nat
      /\ seen \in Seq(Query) /\ seen' = Append(seen, x)
      /\ flagged' = Append(flagged, IsN1(sig, ts))
      /\ flagged \in Seq(BOOLEAN) /\ Len(flagged) = Len(seen)
  BY <1>0 DEF Query, HandleQuery, N1TypeOK
<1> HIDE DEF x
<1>2. /\ seen' \in Seq(Query) /\ Len(seen') = n /\ Len(seen) \in Nat
      /\ \A k \in 1..Len(seen) : seen'[k] = seen[k]
      /\ seen'[n] = x
  BY <1>1, AskedFacts
<1>3. /\ \A j \in 1..Len(seen) : j \in 1..n /\ j # n
      /\ n \in 1..n /\ \A j \in 1..n : j \in 1..Len(seen) \/ j = n
  BY <1>2
<1>4. /\ flagged' \in Seq(BOOLEAN) /\ Len(flagged') = n
      /\ \A k \in 1..Len(seen) : flagged'[k] = flagged[k]
      /\ flagged'[n] = IsN1(sig, ts)
  <2>1. IsN1(sig, ts) \in BOOLEAN
    BY DEF IsN1
  <2> HIDE DEF n
  <2>2. \A b \in BOOLEAN : /\ Append(flagged, b) \in Seq(BOOLEAN)
                           /\ Len(Append(flagged, b)) = Len(flagged) + 1
                           /\ \A k \in 1..Len(flagged) : Append(flagged, b)[k] = flagged[k]
                           /\ Append(flagged, b)[Len(flagged) + 1] = b
    BY <1>1
  <2>3. Len(flagged) = Len(seen) /\ Len(flagged) + 1 = n
    BY <1>1 DEF n
  <2> QED
    BY <1>1, <2>1, <2>2, <2>3, Zenon
<1>5. ASSUME NEW s \in Signature
      PROVE  /\ Kept(recent', s) \in Seq(Nat)
             /\ \A k \in 1..Len(Kept(recent', s)) :
                  \E j \in 1..Len(seen') : seen'[j].ts = Kept(recent', s)[k]
             /\ LogInOrder(seen') =>
                  /\ InOrder(Kept(recent', s))
                  /\ \A c \in Int : ts - Window <= c =>
                       Cardinality(Live(Kept(recent', s), c)) = Cardinality(Asked(seen', s, c))
  <2>1. PICK q : q = IF s = sig THEN Times(sig, ts) ELSE Kept(recent, s)
    OBVIOUS
  <2>2. /\ q \in Seq(Nat)
        /\ \A k \in 1..Len(q) : \E j \in 1..Len(seen') : seen'[j].ts = q[k]
        /\ LogInOrder(seen') =>
             /\ InOrder(q)
             /\ \A c \in Int : ts - Window <= c =>
                  Cardinality(Live(q, c)) = Cardinality(Asked(seen', s, c))
    <3>1. CASE s = sig
      <4>1. q = Times(sig, ts)
        BY <2>1, <3>1
      <4>2. /\ q \in Seq(Nat)
            /\ \A k \in 1..Len(q) : \E j \in 1..Len(seen') : seen'[j].ts = q[k]
            /\ LogInOrder(seen') =>
                 /\ InOrder(q)
                 /\ \A c \in Int : ts - Window <= c =>
                      Cardinality(Live(q, c)) = Cardinality(Asked(seen', sig, c))
        BY <4>1, OwnTimes
      <4> QED
        BY <3>1, <4>2
    <3>2. CASE s # sig
      <4>1. q = Kept(recent, s)
        BY <2>1, <3>2
      <4> QED
        BY <3>2, <4>1, CheckedTimes
    <3> QED
      BY <3>1, <3>2
  <2>3. Kept(recent', s) = q \/ Kept(recent', s) = Pruned(q, ts - Window)
    BY <1>0, <2>1, CheckFacts
  <2>4. CASE Kept(recent', s) = q
    BY <2>2, <2>4
  <2>5. CASE Kept(recent', s) = Pruned(q, ts - Window)
    <3> DEFINE p == Pruned(q, ts - Window)
    <3>1. /\ p \in Seq(Nat)
          /\ \A k \in 1..Len(p) : \E i \in 1..Len(q) : p[k] = q[i]
          /\ InOrder(q) => InOrder(p)
          /\ \A d \in Int : ts - Window <= d => Cardinality(Live(p, d)) = Cardinality(Live(q, d))
      BY <1>1, <2>2, PrunedFacts
    <3> HIDE DEF p
    <3>2. Kept(recent', s) = p
      BY <2>5 DEF p
    <3>3. \A k \in 1..Len(p) : \E j \in 1..Len(seen') : seen'[j].ts = p[k]
      BY <2>2, <3>1
    <3>4. LogInOrder(seen') => \A c \in Int : ts - Window <= c =>
            Cardinality(Live(p, c)) = Cardinality(Asked(seen', s, c))
      BY <2>2, <3>1
    <3> QED
      BY <2>2, <3>1, <3>2, <3>3, <3>4
  <2> QED
    BY <2>3, <2>4, <2>5
<1>6. N1TypeOK'
  <2>1. DOMAIN recent' \subseteq Signature
    BY <1>0, CheckFacts
  <2> QED
    <3>1. handedOn' \subseteq 1..n /\ eventChFull' \in BOOLEAN
      BY <1>0, <1>3 DEF HandleQuery, N1TypeOK
    <3> QED
      BY <1>2, <1>4, <1>5, <2>1, <3>1 DEF N1TypeOK
<1>7. KeptWereSeen'
  BY <1>5 DEF KeptWereSeen
<1>8. KeptCount'
  <2>1. \A c \in Int : (\A j \in 1..Len(seen') : seen'[j].ts - Window <= c) => ts - Window <= c
    BY <1>1, <1>2, <1>3
  <2> QED
    BY <1>5, <2>1 DEF KeptCount
<1>9. Answered'
  <2> SUFFICES ASSUME LogInOrder(seen'), NEW i \in 1..n
               PROVE  /\ flagged'[i] <=> Cardinality(InWindow(i)') >= Threshold
                      /\ flagged'[i] => (i \in handedOn' <=> ~seen'[i].full)
    BY <1>2 DEF Answered
  <2>1. LogInOrder(seen)
    BY CheckedTimes
  <2>2. /\ \A k \in 1..Len(seen) : k \in handedOn' <=> k \in handedOn
        /\ IsN1(sig, ts) => (n \in handedOn' <=> ~eventChFull)
    <3>1. /\ handedOn' = handedOn \/ handedOn' = handedOn \cup {n}
          /\ IsN1(sig, ts) => handedOn' = IF ~eventChFull THEN handedOn \cup {n} ELSE handedOn
      BY DEF HandleQuery, Allow
    <3>2. n \notin handedOn
      BY <1>0, <1>2 DEF N1TypeOK
    <3> HIDE DEF n
    <3> QED
      BY <1>3, <3>1, <3>2
  <2>3. CASE i \in 1..Len(seen)
    <3>1. \A j \in 1..i : j \in 1..Len(seen)
      BY <1>2, <2>3
    <3>2. InWindow(i)' = InWindow(i)
      BY <1>2, <2>3, <3>1 DEF InWindow
    <3>3. flagged'[i] = flagged[i] /\ seen'[i] = seen[i]
      BY <1>2, <1>4, <2>3
    <3>4. /\ flagged[i] <=> Cardinality(InWindow(i)) >= Threshold
          /\ flagged[i] => (i \in handedOn <=> ~seen[i].full)
      BY <1>0, <2>1, <2>3 DEF Answered
    <3> QED
      BY <2>2, <2>3, <3>2, <3>3, <3>4, Zenon
  <2>4. CASE i = n
    <3>1. PICK q : q = Times(sig, ts)
      OBVIOUS
    <3>2. /\ q \in Seq(Nat)
          /\ \A k \in 1..Len(q) : q[k] >= ts - Window
          /\ \A c \in Int : ts - Window <= c =>
               Cardinality(Live(q, c)) = Cardinality(Asked(seen', sig, c))
      BY <3>1, OwnTimes
    <3>8. Cardinality(Live(q, ts - Window)) = Cardinality(Asked(seen', sig, ts - Window))
      BY <1>1, <3>2
    <3>3. Live(q, ts - Window) = 1..Len(q)
      BY <3>2 DEF Live
    <3>4. Len(q) \in Nat /\ Cardinality(1..Len(q)) = Len(q)
      <4>1. Len(q) \in Nat
        BY <3>2
      <4>2. /\ 1 \in Int /\ Len(q) \in Int
            /\ (IF 1 > Len(q) THEN 0 ELSE Len(q) - 1 + 1) = Len(q)
        BY <4>1
      <4>3. Cardinality(1..Len(q)) = IF 1 > Len(q) THEN 0 ELSE Len(q) - 1 + 1
        BY <4>2, FS_Interval, Zenon
      <4> QED
        BY <4>1, <4>2, <4>3
    <3>5. InWindow(i)' = Asked(seen', sig, ts - Window)
      BY <1>1, <1>2, <2>4 DEF InWindow, Asked
    <3>6. Cardinality(InWindow(i)') = Len(q)
      BY <3>8, <3>3, <3>4, <3>5
    <3>7. IsN1(sig, ts) <=> Cardinality(InWindow(i)') >= Threshold
      BY <3>1, <3>6 DEF IsN1
    <3> HIDE DEF n
    <3>10. seen'[i].full = eventChFull
      BY <1>2, <2>4 DEF x
    <3>9. flagged'[i] = IsN1(sig, ts) /\ (IsN1(sig, ts) => (i \in handedOn' <=> ~seen'[i].full))
      BY <1>4, <2>2, <2>4, <3>10, Zenon
    <3> QED
      BY <3>7, <3>9, Zenon
  <2> QED
    BY <1>3, <2>3, <2>4
<1> QED
  BY <1>6, <1>7, <1>8, <1>9 DEF N1Inv

\* Nothing is kept before the first query.
LEMMA N1InitInv == N1Init => N1Inv
<1> SUFFICES ASSUME N1Init PROVE N1Inv
  OBVIOUS
<1> USE N1Assumption DEF N1Init
<1>1. DOMAIN recent = {} /\ Len(seen) = 0 /\ Len(flagged) = 0
  OBVIOUS
<1>2. \A s : Kept(recent, s) = <<>>
  BY <1>1 DEF Kept
<1>3. <<>> \in Seq(Nat) /\ Len(<<>>) = 0
  OBVIOUS
<1>4. N1TypeOK
  <2>1. \A s \in Signature : Kept(recent, s) \in Seq(Nat)
    BY <1>2, <1>3, Zenon
  <2>2. eventChFull \in BOOLEAN /\ handedOn = {}
    OBVIOUS
  <2>3. seen \in Seq(Query) /\ flagged \in Seq(BOOLEAN)
    OBVIOUS
  <2> QED
    BY <1>1, <2>1, <2>2, <2>3 DEF N1TypeOK
<1>5. \A s : Len(Kept(recent, s)) = 0
  BY <1>2, <1>3, Zenon
<1>6. KeptWereSeen
  BY <1>5 DEF KeptWereSeen
<1>7. KeptCount
  <2>1. \A s, c : Live(Kept(recent, s), c) = {} /\ Asked(seen, s, c) = {}
    BY <1>1, <1>5 DEF Live, Asked
  <2>2. \A s : InOrder(Kept(recent, s))
    BY <1>5 DEF InOrder
  <2> QED
    BY <2>1, <2>2 DEF KeptCount
<1>8. Answered
  BY <1>1 DEF Answered
<1> QED
  BY <1>4, <1>6, <1>7, <1>8 DEF N1Inv

\* Check, pruneStale, isCritical: for every window, threshold and prune period,
\* in a log whose timestamps do not go back a query is flagged exactly when its
\* signature was seen threshold times in the window ending with it, and the
\* event of a flagged query is sent exactly when EventCh had room for it.
THEOREM N1FlagsExact == N1Spec => []FlaggedExactlyInOrder
<1>1. N1Inv /\ [N1Next]_n1Vars => N1Inv'
  <2> SUFFICES ASSUME N1Inv, [N1Next]_n1Vars PROVE N1Inv'
    OBVIOUS
  <2>1. ASSUME NEW sig \in Signature, NEW ts \in 0..MaxTime, NEW slow \in BOOLEAN,
               HandleQuery(sig, ts, slow)
        PROVE  N1Inv'
    BY <2>1, HandleQueryStep
  <2>2. CASE UpdateConfig \/ EventChMoves \/ UNCHANGED n1Vars
    <3>1. UNCHANGED <<recent, seen, flagged, handedOn>>
      BY <2>2 DEF UpdateConfig, EventChMoves, n1Vars
    <3>2. eventChFull \in BOOLEAN => eventChFull' \in BOOLEAN
      BY <2>2 DEF UpdateConfig, EventChMoves, n1Vars
    <3> QED
      BY <3>1, <3>2 DEF N1Inv, N1TypeOK, KeptWereSeen, KeptCount, Answered, InWindow
  <2> QED
    BY <2>1, <2>2 DEF N1Next
<1>2. N1Inv => FlaggedExactlyInOrder
  <2> SUFFICES ASSUME N1Inv PROVE FlaggedExactlyInOrder
    OBVIOUS
  <2>1. DOMAIN seen = 1..Len(seen)
    BY DEF N1Inv, N1TypeOK
  <2> QED
    BY <2>1 DEF FlaggedExactlyInOrder, N1Inv, Answered, LogInOrder
<1> QED
  BY <1>1, <1>2, N1InitInv, PTL DEF N1Spec
-----------------------------------------------------------------------------
(* The telemetry path: every event is accounted for, and retries and late  *)
(* handlers reorder only what cannot be helped.  The inductive invariant   *)
(* TeleInv is the order of the places an event passes through: everything  *)
(* in one place was collected before everything in the places behind it,   *)
(* and a batch that was ever posted is the one being posted, is in the     *)
(* stream, or was given up.                                                *)

Requests == [events : SUBSET Nat, attempt : 1..MaxAttempts, adds : 0..XAddTries]
Entries == [events : SUBSET Nat, attempt : 1..MaxAttempts, copy : 1..XAddTries]

TypeOK ==
    /\ offered \in Nat
    /\ eventCh \in Seq(Nat) /\ window \in SUBSET Nat
    /\ sendCh \in Seq(SUBSET Nat) /\ batch \in SUBSET Nat
    /\ requests \in SUBSET Requests /\ stream \in Seq(Entries)
    /\ dropped \in SUBSET Nat /\ attempt \in Nat

\* A batch is inside sendBatch exactly while it is being posted.
SenderOK ==
    /\ Posting => attempt \in 1..MaxAttempts /\ batch # {}
    /\ ~Posting => batch = {}
    /\ {} \notin ToSet(sendCh)

Accounted == 1..offered = Held \cup Streamed \cup dropped

\* The channels hold what they hold in the order it was collected.
ChannelsInOrder ==
    /\ \A i, j \in 1..Len(eventCh) : i < j => eventCh[i] < eventCh[j]
    /\ \A i, j \in 1..Len(sendCh) : i < j => Before(sendCh[i], sendCh[j])

\* batch, SendCh, window, EventCh: each place is ahead of the next.
PlacesInOrder ==
    /\ Before(window, ToSet(eventCh))
    /\ Before(Queued, window) /\ Before(Queued, ToSet(eventCh))
    /\ Before(batch, Queued) /\ Before(batch, window) /\ Before(batch, ToSet(eventCh))

\* The batches of which a POST was made or an entry added.
Added == {e.events : e \in ToSet(stream)}
Posted == Added \cup {r.events : r \in requests}

Ordered(S, T) == S = T \/ Before(S, T) \/ Before(T, S)

\* A posted batch is older than everything that is still in the agent, the
\* batch being posted excepted, which is the newest one posted.
PostedInOrder ==
    /\ \A S \in Posted :
         /\ S # {} /\ S \subseteq 1..offered
         /\ Before(S, Queued) /\ Before(S, window) /\ Before(S, ToSet(eventCh))
         /\ S = batch \/ Before(S, batch)
         /\ S = batch \/ S \subseteq dropped \/ S \in Added
    /\ \A S, T \in Posted : Ordered(S, T)

\* An entry and a request are of one POST.
SamePost(e, r) == e.events = r.events /\ e.attempt = r.attempt

\* Of one POST there is one request, whose copies are numbered; the batch being
\* posted had no POST after the one under way.
PostsNumbered ==
    /\ \A q, r \in requests : SamePost(q, r) => q = r
    /\ \A e \in ToSet(stream), r \in requests : SamePost(e, r) => e.copy <= r.adds
    /\ \A r \in requests : r.adds > 0 => r.events \in Added
    /\ \A r \in requests : r.events = batch => r.attempt <= attempt
    /\ \A e \in ToSet(stream) : e.events = batch => e.attempt <= attempt

\* No two entries are the same copy of the same POST.
EntriesDistinct ==
    \A i, j \in 1..Len(stream) : stream[i] = stream[j] => i = j

\* A position before i holds batch S.
CameBefore(q, i, S) == \E k \in 1..(i - 1) : q[k].events = S

\* Batch S may come somewhere after batch T, which is at position i.
MayFollow(q, lost, T, S, i) ==
    \/ Before(T, S)
    \/ Before(S, T) /\ (S \subseteq lost \/ CameBefore(q, i, S))

StreamSorted ==
    \A i, j \in 1..Len(stream) :
        (i < j /\ stream[i].events # stream[j].events) =>
            MayFollow(stream, dropped, stream[i].events, stream[j].events, i)

TeleInv ==
    /\ TypeOK /\ SenderOK /\ Accounted /\ ChannelsInOrder /\ PlacesInOrder
    /\ PostedInOrder /\ PostsNumbered /\ EntriesDistinct /\ StreamSorted
-----------------------------------------------------------------------------
(* Channels as sequences *)

\* The elements of a sequence, by its positions.
LEMMA SetOfSeq ==
    ASSUME NEW T, NEW s \in Seq(T)
    PROVE  /\ Len(s) \in Nat /\ DOMAIN s = 1..Len(s)
           /\ ToSet(s) = {s[i] : i \in 1..Len(s)} /\ ToSet(s) \subseteq T
<1>1. Len(s) \in Nat /\ DOMAIN s = 1..Len(s) /\ \A i \in 1..Len(s) : s[i] \in T
  OBVIOUS
<1> QED
  BY <1>1 DEF ToSet

\* A send adds its element behind the others.
LEMMA SendFacts ==
    ASSUME NEW T, NEW s \in Seq(T), NEW x \in T
    PROVE  /\ Append(s, x) \in Seq(T) /\ Len(Append(s, x)) = Len(s) + 1
           /\ \A i \in 1..Len(s) : Append(s, x)[i] = s[i]
           /\ Append(s, x)[Len(s) + 1] = x
           /\ ToSet(Append(s, x)) = ToSet(s) \cup {x}
<1>1. /\ Append(s, x) \in Seq(T) /\ Len(Append(s, x)) = Len(s) + 1
      /\ \A i \in 1..Len(s) : Append(s, x)[i] = s[i]
      /\ Append(s, x)[Len(s) + 1] = x
  OBVIOUS
<1> DEFINE t == Append(s, x)
<1> HIDE DEF t
<1>2. /\ t \in Seq(T) /\ Len(t) = Len(s) + 1
      /\ \A i \in 1..Len(s) : t[i] = s[i]
      /\ t[Len(s) + 1] = x
  BY <1>1 DEF t
<1>3. /\ ToSet(s) = {s[i] : i \in 1..Len(s)} /\ Len(s) \in Nat
      /\ ToSet(t) = {t[i] : i \in 1..Len(t)}
  BY <1>2, SetOfSeq
<1>4. ToSet(t) \subseteq ToSet(s) \cup {x}
  <2>1. \A i \in 1..Len(t) : i \in 1..Len(s) \/ i = Len(s) + 1
    BY <1>2, <1>3
  <2> QED
    BY <1>2, <1>3, <2>1
<1>5. ToSet(s) \cup {x} \subseteq ToSet(t)
  <2>1. 1..Len(s) \subseteq 1..Len(t) /\ Len(s) + 1 \in 1..Len(t)
    BY <1>2, <1>3
  <2> QED
    BY <1>2, <1>3, <2>1
<1> QED
  BY <1>1, <1>4, <1>5 DEF t

\* The same for a sequence of batches.
LEMMA BatchSent ==
    ASSUME NEW s \in Seq(SUBSET Nat), NEW b \in SUBSET Nat
    PROVE  /\ Append(s, b) \in Seq(SUBSET Nat) /\ Len(Append(s, b)) = Len(s) + 1
           /\ \A i \in 1..Len(s) : Append(s, b)[i] = s[i]
           /\ Append(s, b)[Len(s) + 1] = b
           /\ ToSet(Append(s, b)) = ToSet(s) \cup {b}
<1>1. \A T : s \in Seq(T) /\ b \in T => ToSet(Append(s, b)) = ToSet(s) \cup {b}
  BY SendFacts
<1>2. ToSet(Append(s, b)) = ToSet(s) \cup {b}
  BY <1>1, Zenon
<1> QED
  BY <1>2

\* A receive takes the oldest element.
LEMMA ReceiveFacts ==
    ASSUME NEW T, NEW s \in Seq(T), s # <<>>
    PROVE  /\ Head(s) \in T /\ Tail(s) \in Seq(T)
           /\ Len(s) \in Nat /\ Len(s) >= 1 /\ Len(Tail(s)) = Len(s) - 1
           /\ Head(s) = s[1]
           /\ \A i \in 1..(Len(s) - 1) : Tail(s)[i] = s[i + 1]
           /\ ToSet(s) = {Head(s)} \cup ToSet(Tail(s))
<1>1. /\ Head(s) \in T /\ Tail(s) \in Seq(T)
      /\ Len(s) \in Nat /\ Len(s) >= 1 /\ Len(Tail(s)) = Len(s) - 1
      /\ Head(s) = s[1]
  OBVIOUS
<1>2. \A i \in 1..(Len(s) - 1) : Tail(s)[i] = s[i + 1]
  BY <1>1
<1> DEFINE t == Tail(s)
<1> HIDE DEF t
<1>3. /\ t \in Seq(T) /\ Len(t) = Len(s) - 1
      /\ \A i \in 1..(Len(s) - 1) : t[i] = s[i + 1]
  BY <1>1, <1>2 DEF t
<1>4. /\ ToSet(s) = {s[i] : i \in 1..Len(s)}
      /\ ToSet(t) = {t[i] : i \in 1..(Len(s) - 1)}
  BY <1>3, SetOfSeq
<1>5. \A i \in 1..Len(s) : i = 1 \/ (i - 1 \in 1..(Len(s) - 1) /\ (i - 1) + 1 = i)
  BY <1>1
<1>6. ToSet(s) \subseteq {s[1]} \cup ToSet(t)
  <2> SUFFICES ASSUME NEW i \in 1..Len(s), i # 1 PROVE s[i] \in ToSet(t)
    BY <1>4
  <2>1. i - 1 \in 1..(Len(s) - 1) /\ t[i - 1] = s[i]
    BY <1>3, <1>5
  <2> QED
    BY <1>4, <2>1
<1>7. {s[1]} \cup ToSet(t) \subseteq ToSet(s)
  <2>1. \A i \in 1..(Len(s) - 1) : i + 1 \in 1..Len(s)
    BY <1>1
  <2>2. 1 \in 1..Len(s)
    BY <1>1
  <2> QED
    BY <1>3, <1>4, <2>1, <2>2
<1> QED
  BY <1>1, <1>2, <1>6, <1>7 DEF t

\* The elements of EventCh after a receive come after the one received.
LEMMA EventsStayInOrder ==
    ASSUME NEW s \in Seq(Nat), s # <<>>,
           \A i, j \in 1..Len(s) : i < j => s[i] < s[j]
    PROVE  /\ \A i, j \in 1..Len(Tail(s)) : i < j => Tail(s)[i] < Tail(s)[j]
           /\ Before({Head(s)}, ToSet(Tail(s)))
<1>1. /\ Tail(s) \in Seq(Nat) /\ Head(s) = s[1]
      /\ Len(s) \in Nat /\ Len(s) >= 1 /\ Len(Tail(s)) = Len(s) - 1
      /\ \A i \in 1..(Len(s) - 1) : Tail(s)[i] = s[i + 1]
  BY ReceiveFacts
<1>2. \A i \in 1..(Len(s) - 1) : i + 1 \in 1..Len(s) /\ 1 < i + 1 /\ 1 \in 1..Len(s)
  BY <1>1
<1>3. ToSet(Tail(s)) = {Tail(s)[i] : i \in 1..(Len(s) - 1)}
  BY <1>1, SetOfSeq
<1>4. Before({Head(s)}, ToSet(Tail(s)))
  <2> SUFFICES ASSUME NEW i \in 1..(Len(s) - 1) PROVE s[1] < s[i + 1]
    BY <1>1, <1>3 DEF Before
  <2> QED
    BY <1>2
<1>5. ASSUME NEW i \in 1..Len(Tail(s)), NEW j \in 1..Len(Tail(s)), i < j
      PROVE  Tail(s)[i] < Tail(s)[j]
  <2>1. Tail(s)[i] = s[i + 1] /\ Tail(s)[j] = s[j + 1]
    BY <1>1
  <2>2. i + 1 \in 1..Len(s) /\ j + 1 \in 1..Len(s) /\ i + 1 < j + 1
    BY <1>1, <1>5
  <2> QED
    BY <2>1, <2>2
<1> QED
  BY <1>4, <1>5

\* The same for SendCh, whose elements are batches.
LEMMA BatchesStayInOrder ==
    ASSUME NEW s \in Seq(SUBSET Nat), s # <<>>,
           \A i, j \in 1..Len(s) : i < j => Before(s[i], s[j])
    PROVE  /\ \A i, j \in 1..Len(Tail(s)) : i < j => Before(Tail(s)[i], Tail(s)[j])
           /\ Before(Head(s), UNION ToSet(Tail(s)))
<1>1. /\ Tail(s) \in Seq(SUBSET Nat) /\ Head(s) = s[1]
      /\ Len(s) \in Nat /\ Len(s) >= 1 /\ Len(Tail(s)) = Len(s) - 1
      /\ \A i \in 1..(Len(s) - 1) : Tail(s)[i] = s[i + 1]
  BY ReceiveFacts
<1>2. \A i \in 1..(Len(s) - 1) : i + 1 \in 1..Len(s) /\ 1 < i + 1 /\ 1 \in 1..Len(s)
  BY <1>1
<1>3. ToSet(Tail(s)) = {Tail(s)[i] : i \in 1..(Len(s) - 1)}
  BY <1>1, SetOfSeq
<1>4. Before(Head(s), UNION ToSet(Tail(s)))
  <2>1. ASSUME NEW i \in 1..(Len(s) - 1) PROVE Before(Head(s), Tail(s)[i])
    BY <1>1, <1>2
  <2> QED
    BY <1>3, <2>1 DEF Before
<1>5. ASSUME NEW i \in 1..Len(Tail(s)), NEW j \in 1..Len(Tail(s)), i < j
      PROVE  Before(Tail(s)[i], Tail(s)[j])
  <2>1. Tail(s)[i] = s[i + 1] /\ Tail(s)[j] = s[j + 1]
    BY <1>1
  <2>2. i + 1 \in 1..Len(s) /\ j + 1 \in 1..Len(s) /\ i + 1 < j + 1
    BY <1>1, <1>5
  <2> QED
    BY <2>1, <2>2
<1> QED
  BY <1>4, <1>5
-----------------------------------------------------------------------------
(* The stream *)

\* What is known of the entries of the stream.
LEMMA StreamFacts ==
    ASSUME TeleInv
    PROVE  /\ stream \in Seq(Entries) /\ Len(stream) \in Nat
           /\ ToSet(stream) = {stream[i] : i \in 1..Len(stream)}
           /\ ToSet(stream) \subseteq Entries
           /\ \A i \in 1..Len(stream) :
                stream[i] \in ToSet(stream) /\ stream[i].events \in Added
           /\ Streamed = UNION Added /\ Added \subseteq Posted
           /\ Posted \subseteq SUBSET Nat
<1>1. stream \in Seq(Entries) /\ requests \in SUBSET Requests
  BY DEF TeleInv, TypeOK
<1>2. /\ Len(stream) \in Nat /\ ToSet(stream) = {stream[i] : i \in 1..Len(stream)}
      /\ ToSet(stream) \subseteq Entries
  BY <1>1, SetOfSeq
<1>3. Streamed = UNION Added /\ Added \subseteq Posted
  BY DEF Streamed, Added, Posted
<1>4. Posted \subseteq SUBSET Nat
  <2>1. \A e \in ToSet(stream) : e.events \in SUBSET Nat
    BY <1>2 DEF Entries
  <2>2. \A r \in requests : r.events \in SUBSET Nat
    BY <1>1 DEF Requests
  <2> QED
    BY <2>1, <2>2 DEF Posted, Added
<1> QED
  BY <1>1, <1>2, <1>3, <1>4 DEF Added

\* One XADD of a POST's handler.
LEMMA AddStep ==
    ASSUME TeleInv, NEW r \in requests, HandleIngestBatch(r)
    PROVE  TeleInv'
<1> USE TelemetryAssumption DEF TeleInv
<1> DEFINE e == Entry(r)
           u == [r EXCEPT !.adds = @ + 1]
<1>1. /\ r \in Requests /\ r.adds < XAddTries
      /\ stream' = Append(stream, e) /\ requests' = (requests \ {r}) \cup {u}
      /\ UNCHANGED <<offered, eventCh, window, aggregator, sendCh, sender, batch,
                     attempt, dropped>>
  BY DEF HandleIngestBatch, TypeOK, aggVars
<1>2. /\ r.events \in SUBSET Nat /\ r.attempt \in 1..MaxAttempts
      /\ r.adds \in Nat /\ r.adds + 1 \in 1..XAddTries
      /\ r = [events |-> r.events, attempt |-> r.attempt, adds |-> r.adds]
  BY <1>1 DEF Requests
<1>3. /\ e \in Entries
      /\ e.events = r.events /\ e.attempt = r.attempt /\ e.copy = r.adds + 1
  BY <1>2 DEF Entry, Entries
<1>4. /\ u \in Requests
      /\ u.events = r.events /\ u.attempt = r.attempt /\ u.adds = r.adds + 1
  BY <1>2 DEF Requests
<1> HIDE DEF e, u
<1>5. /\ stream \in Seq(Entries) /\ Len(stream) \in Nat
      /\ ToSet(stream) = {stream[i] : i \in 1..Len(stream)}
      /\ ToSet(stream) \subseteq Entries
      /\ \A i \in 1..Len(stream) :
           stream[i] \in ToSet(stream) /\ stream[i].events \in Added
      /\ Streamed = UNION Added /\ Added \subseteq Posted /\ Posted \subseteq SUBSET Nat
  BY StreamFacts
<1>6. /\ stream' \in Seq(Entries) /\ Len(stream') = Len(stream) + 1
      /\ \A i \in 1..Len(stream) : stream'[i] = stream[i]
      /\ stream'[Len(stream) + 1] = e
      /\ ToSet(stream') = ToSet(stream) \cup {e}
  <2> DEFINE q == Append(stream, e)
  <2>1. /\ q \in Seq(Entries) /\ Len(q) = Len(stream) + 1
        /\ \A i \in 1..Len(stream) : q[i] = stream[i]
        /\ q[Len(stream) + 1] = e
        /\ ToSet(q) = ToSet(stream) \cup {e}
    BY <1>3, <1>5, SendFacts
  <2>2. stream' = q
    BY <1>1
  <2> HIDE DEF q
  <2> QED
    BY <2>1, <2>2
<1>7. /\ Added' = Added \cup {r.events} /\ Posted' = Posted /\ r.events \in Posted
  <2>1. Added' = Added \cup {r.events}
    BY <1>3, <1>6 DEF Added
  <2>2. {x.events : x \in requests'} = {x.events : x \in requests}
    <3>1. {x.events : x \in requests'} \subseteq {x.events : x \in requests}
      BY <1>1, <1>4
    <3>2. {x.events : x \in requests} \subseteq {x.events : x \in requests'}
      <4> SUFFICES ASSUME NEW x \in requests PROVE \E y \in requests' : y.events = x.events
        OBVIOUS
      <4>1. CASE x = r
        BY <1>1, <1>4, <4>1
      <4>2. CASE x # r
        BY <1>1, <4>2
      <4> QED
        BY <4>1, <4>2
    <3> QED
      BY <3>1, <3>2
  <2>3. r.events \in {x.events : x \in requests}
    OBVIOUS
  <2> QED
    BY <2>1, <2>2, <2>3 DEF Posted
<1>8. UNCHANGED <<Queued, Posting>> /\ Streamed' = Streamed \cup r.events
  <2>1. Streamed' = UNION Added'
    BY DEF Streamed, Added
  <2> QED
    BY <1>1, <1>5, <1>7, <2>1 DEF Queued, Posting
<1>9. TypeOK'
  BY <1>1, <1>4, <1>6 DEF TypeOK
<1>10. SenderOK' /\ ChannelsInOrder' /\ PlacesInOrder'
  BY <1>1, <1>8 DEF SenderOK, ChannelsInOrder, PlacesInOrder
<1>11. Accounted'
  <2>1. r.events \subseteq 1..offered
    BY <1>7 DEF PostedInOrder
  <2>2. r.events \subseteq Held \cup Streamed \cup dropped
    BY <2>1 DEF Accounted
  <2>3. Held' = Held
    BY <1>1, <1>8 DEF Held
  <2> QED
    BY <1>1, <1>8, <2>2, <2>3 DEF Accounted
<1>12. PostedInOrder'
  BY <1>1, <1>7, <1>8 DEF PostedInOrder
<1>13. PostsNumbered'
  <2>1. ASSUME NEW x \in requests', NEW y \in requests', SamePost(x, y)
        PROVE  x = y
    <3>1. \A z \in requests : SamePost(z, r) => z = r
      BY DEF PostsNumbered
    <3>2. \A z \in requests \ {r} : ~SamePost(z, u) /\ ~SamePost(u, z)
      BY <1>4, <3>1 DEF SamePost
    <3> QED
      BY <1>1, <2>1, <3>2 DEF PostsNumbered
  <2>2. ASSUME NEW x \in ToSet(stream'), NEW y \in requests', SamePost(x, y)
        PROVE  x.copy <= y.adds
    <3>1. CASE x \in ToSet(stream) /\ y \in requests
      BY <2>2, <3>1 DEF PostsNumbered
    <3>2. CASE x \in ToSet(stream) /\ y = u
      <4>1. SamePost(x, r)
        BY <1>4, <2>2, <3>2 DEF SamePost
      <4>2. x.copy <= r.adds
        BY <3>2, <4>1 DEF PostsNumbered
      <4>3. x \in Entries
        BY <1>5, <3>2
      <4>4. x.copy \in 1..XAddTries
        BY <4>3 DEF Entries
      <4> QED
        BY <1>2, <1>4, <3>2, <4>2, <4>4
    <3>3. CASE x = e /\ y \in requests \ {r}
      <4>1. SamePost(y, r)
        BY <1>3, <2>2, <3>3 DEF SamePost
      <4> QED
        BY <3>3, <4>1 DEF PostsNumbered
    <3>4. CASE x = e /\ y = u
      BY <1>2, <1>3, <1>4, <3>4
    <3> QED
      BY <1>1, <1>6, <3>1, <3>2, <3>3, <3>4
  <2>3. \A x \in requests' : x.adds > 0 => x.events \in Added'
    BY <1>1, <1>4, <1>7 DEF PostsNumbered
  <2>4. \A x \in requests' : x.events = batch => x.attempt <= attempt
    BY <1>1, <1>4 DEF PostsNumbered
  <2>5. \A x \in ToSet(stream') : x.events = batch => x.attempt <= attempt
    BY <1>3, <1>6 DEF PostsNumbered
  <2> QED
    BY <1>1, <2>1, <2>2, <2>3, <2>4, <2>5 DEF PostsNumbered
<1>14. EntriesDistinct'
  <2>1. e \notin ToSet(stream)
    <3> SUFFICES ASSUME e \in ToSet(stream) PROVE FALSE
      OBVIOUS
    <3>1. SamePost(e, r)
      BY <1>3 DEF SamePost
    <3>2. r.adds + 1 <= r.adds
      BY <1>3, <3>1 DEF PostsNumbered
    <3> QED
      BY <1>2, <3>2
  <2>2. \A i \in 1..(Len(stream) + 1) : i \in 1..Len(stream) \/ i = Len(stream) + 1
    BY <1>5
  <2> QED
    BY <1>5, <1>6, <2>1, <2>2 DEF EntriesDistinct
<1>15. StreamSorted'
  <2> SUFFICES ASSUME NEW i \in 1..(Len(stream) + 1), NEW j \in 1..(Len(stream) + 1),
                      i < j, stream'[i].events # stream'[j].events
               PROVE  MayFollow(stream', dropped', stream'[i].events, stream'[j].events, i)
    BY <1>6 DEF StreamSorted
  <2>1. i \in 1..Len(stream) /\ (j \in 1..Len(stream) \/ j = Len(stream) + 1)
    BY <1>5
  <2>0. \A k \in 1..(i - 1) : k \in 1..Len(stream) /\ stream'[k] = stream[k]
    BY <1>5, <1>6, <2>1
  <2>2. CASE j \in 1..Len(stream)
    <3>1. /\ stream'[i] = stream[i] /\ stream'[j] = stream[j]
          /\ MayFollow(stream, dropped, stream[i].events, stream[j].events, i)
      BY <1>6, <2>1, <2>2 DEF StreamSorted
    <3>2. \A S : CameBefore(stream, i, S) => CameBefore(stream', i, S)
      BY <2>0 DEF CameBefore
    <3> QED
      BY <1>1, <3>1, <3>2 DEF MayFollow
  <2>3. CASE j = Len(stream) + 1
    <3> DEFINE T == stream[i].events
               S == r.events
    <3>1. /\ stream'[i] = stream[i] /\ stream'[j].events = S /\ T # S
          /\ T \in Posted /\ S \in Posted
      BY <1>3, <1>5, <1>6, <1>7, <2>1, <2>3
    <3>2. Before(T, S) \/ Before(S, T)
      BY <3>1 DEF PostedInOrder, Ordered
    <3>3. ASSUME Before(S, T), ~Before(T, S)
          PROVE  S \subseteq dropped \/ CameBefore(stream', i, S)
      <4>1. S # batch
        BY <3>1, <3>3 DEF PostedInOrder
      <4>2. S \subseteq dropped \/ S \in Added
        BY <3>1, <4>1 DEF PostedInOrder
      <4>3. ASSUME S \in Added, ~(S \subseteq dropped) PROVE CameBefore(stream', i, S)
        <5>1. PICK k \in 1..Len(stream) : stream[k].events = S
          BY <1>5, <4>3 DEF Added
        <5>2. k # i
          BY <3>1, <5>1
        <5>3. CASE i < k
          <6>1. MayFollow(stream, dropped, T, S, i)
            BY <2>1, <3>1, <5>1, <5>3 DEF StreamSorted
          <6>2. CameBefore(stream, i, S)
            BY <3>3, <4>3, <6>1 DEF MayFollow
          <6> QED
            BY <2>0, <6>2 DEF CameBefore
        <5>4. CASE k < i
          <6>1. k \in 1..(i - 1) /\ stream'[k].events = S
            BY <2>0, <5>1, <5>4
          <6> QED
            BY <6>1 DEF CameBefore
        <5> QED
          BY <2>1, <5>1, <5>2, <5>3, <5>4
      <4> QED
        BY <4>2, <4>3
    <3> QED
      BY <1>1, <3>1, <3>2, <3>3 DEF MayFollow
  <2> QED
    BY <2>1, <2>2, <2>3
<1> QED
  BY <1>9, <1>10, <1>11, <1>12, <1>13, <1>14, <1>15
-----------------------------------------------------------------------------
(* Collectors and aggregator *)

\* The sender and the server do not notice what the others do.
LEMMA SenderFrame ==
    ASSUME TeleInv, UNCHANGED sndVars, {} \notin ToSet(sendCh'), dropped \subseteq dropped'
    PROVE  /\ SenderOK' /\ PostsNumbered' /\ EntriesDistinct' /\ StreamSorted'
           /\ Streamed' = Streamed /\ batch' = batch
           /\ Added' = Added /\ Posted' = Posted
<1>1. UNCHANGED <<sender, batch, attempt, requests, stream>>
  BY DEF sndVars
<1>2. StreamSorted'
  <2>1. \A T, S, i : MayFollow(stream, dropped, T, S, i) => MayFollow(stream, dropped', T, S, i)
    BY DEF MayFollow
  <2> QED
    BY <1>1, <2>1 DEF TeleInv, StreamSorted
<1>3. Added' = Added /\ Posted' = Posted /\ Streamed' = Streamed
  BY <1>1 DEF Added, Posted, Streamed
<1> QED
  BY <1>1, <1>2, <1>3 DEF TeleInv, SenderOK, PostsNumbered, EntriesDistinct, Posting

\* The n-th event offered is newer than every event in the agent.
LEMMA HandleEntryStep ==
    ASSUME TeleInv, HandleEntry
    PROVE  TeleInv'
<1> USE DEF TeleInv
<1>1. /\ offered \in Nat /\ offered' = offered + 1
      /\ UNCHANGED <<window, sendCh, sndVars>> /\ dropped \subseteq dropped'
  BY DEF HandleEntry, TypeOK
<1>2. /\ SenderOK' /\ PostsNumbered' /\ EntriesDistinct' /\ StreamSorted'
      /\ Streamed' = Streamed /\ batch' = batch /\ Added' = Added /\ Posted' = Posted /\ Queued' = Queued
  BY <1>1, SenderFrame DEF SenderOK, Queued
<1>3. 1..(offered + 1) = (1..offered) \cup {offered + 1}
  BY <1>1
<1>4. /\ ToSet(eventCh) \subseteq 1..offered /\ window \subseteq 1..offered
      /\ Queued \subseteq 1..offered /\ batch \subseteq 1..offered
      /\ Streamed \subseteq 1..offered
  BY DEF Accounted, Held
<1>5. \A m \in 1..offered : m < offered + 1
  BY <1>1
<1>6. CASE eventCh' = Append(eventCh, offered + 1) /\ dropped' = dropped
  <2>1. /\ eventCh' \in Seq(Nat) /\ Len(eventCh') = Len(eventCh) + 1
        /\ \A i \in 1..Len(eventCh) : eventCh'[i] = eventCh[i]
        /\ eventCh'[Len(eventCh) + 1] = offered + 1
        /\ ToSet(eventCh') = ToSet(eventCh) \cup {offered + 1}
    <3> DEFINE q == Append(eventCh, offered + 1)
    <3>1. eventCh \in Seq(Nat) /\ offered + 1 \in Nat
      BY <1>1 DEF TypeOK
    <3>2. /\ q \in Seq(Nat) /\ Len(q) = Len(eventCh) + 1
          /\ \A i \in 1..Len(eventCh) : q[i] = eventCh[i]
          /\ q[Len(eventCh) + 1] = offered + 1
          /\ ToSet(q) = ToSet(eventCh) \cup {offered + 1}
      BY <3>1, SendFacts
    <3>3. eventCh' = q
      BY <1>6
    <3> HIDE DEF q
    <3> QED
      BY <3>2, <3>3
  <2>2. /\ Len(eventCh) \in Nat
        /\ ToSet(eventCh) = {eventCh[i] : i \in 1..Len(eventCh)}
    BY SetOfSeq DEF TypeOK
  <2>3. TypeOK'
    BY <1>1, <1>6, <2>1 DEF TypeOK, sndVars
  <2>4. Accounted'
    BY <1>1, <1>2, <1>3, <1>6, <2>1 DEF Accounted, Held
  <2>5. ChannelsInOrder'
    <3>1. ASSUME NEW i \in 1..(Len(eventCh) + 1), NEW j \in 1..(Len(eventCh) + 1), i < j
          PROVE  eventCh'[i] < eventCh'[j]
      <4>1. i \in 1..Len(eventCh) /\ (j \in 1..Len(eventCh) \/ j = Len(eventCh) + 1)
        BY <2>2, <3>1
      <4>2. CASE j \in 1..Len(eventCh)
        BY <2>1, <3>1, <4>1, <4>2 DEF ChannelsInOrder
      <4>3. CASE j = Len(eventCh) + 1
        <5>1. eventCh[i] \in 1..offered
          BY <1>4, <2>2, <4>1
        <5> QED
          BY <1>5, <2>1, <4>1, <4>3, <5>1
      <4> QED
        BY <4>1, <4>2, <4>3
    <3> QED
      BY <1>1, <2>1, <3>1 DEF ChannelsInOrder
  <2>6. PlacesInOrder'
    <3>1. \A S \in SUBSET (1..offered) :
            Before(S, ToSet(eventCh)) => Before(S, ToSet(eventCh'))
      BY <1>5, <2>1 DEF Before
    <3>2. /\ Before(window, ToSet(eventCh')) /\ Before(Queued, ToSet(eventCh'))
          /\ Before(batch, ToSet(eventCh'))
      BY <1>4, <3>1 DEF PlacesInOrder
    <3> QED
      BY <1>1, <1>2, <3>2 DEF PlacesInOrder, sndVars
  <2>7. PostedInOrder'
    <3>1. \A S \in Posted : Before(S, ToSet(eventCh')) /\ S \subseteq 1..(offered + 1)
      BY <1>3, <1>5, <2>1 DEF PostedInOrder, Before
    <3> QED
      BY <1>1, <1>2, <1>6, <3>1 DEF PostedInOrder
  <2> QED
    BY <1>2, <2>3, <2>4, <2>5, <2>6, <2>7
<1>7. CASE eventCh' = eventCh /\ dropped' = dropped \cup {offered + 1}
  <2>1. TypeOK'
    BY <1>1, <1>7 DEF TypeOK, sndVars
  <2>2. Accounted'
    BY <1>1, <1>2, <1>3, <1>7 DEF Accounted, Held
  <2>3. ChannelsInOrder' /\ PlacesInOrder'
    BY <1>1, <1>2, <1>7 DEF ChannelsInOrder, PlacesInOrder, sndVars
  <2>4. PostedInOrder'
    BY <1>1, <1>2, <1>3, <1>7 DEF PostedInOrder
  <2> QED
    BY <1>2, <2>1, <2>2, <2>3, <2>4
<1> QED
  BY <1>6, <1>7 DEF HandleEntry

\* The oldest event of EventCh joins the window.
LEMMA IngestStep ==
    ASSUME TeleInv, Ingest
    PROVE  TeleInv'
<1> USE DEF TeleInv
<1>1. /\ eventCh \in Seq(Nat) /\ eventCh # <<>>
      /\ window' = window \cup {Head(eventCh)} /\ eventCh' = Tail(eventCh)
      /\ UNCHANGED <<offered, sendCh, sndVars, dropped>>
  BY DEF Ingest, TypeOK
<1>2. /\ SenderOK' /\ PostsNumbered' /\ EntriesDistinct' /\ StreamSorted'
      /\ Streamed' = Streamed /\ batch' = batch /\ Added' = Added /\ Posted' = Posted /\ Queued' = Queued
  BY <1>1, SenderFrame DEF SenderOK, Queued
<1>3. /\ Head(eventCh) \in Nat /\ eventCh' \in Seq(Nat)
      /\ ToSet(eventCh) = {Head(eventCh)} \cup ToSet(eventCh')
  BY <1>1, ReceiveFacts
<1>4. /\ \A i, j \in 1..Len(eventCh') : i < j => eventCh'[i] < eventCh'[j]
      /\ Before({Head(eventCh)}, ToSet(eventCh'))
  BY <1>1, EventsStayInOrder DEF ChannelsInOrder
<1>5. TypeOK'
  BY <1>1, <1>3 DEF TypeOK, sndVars
<1>6. Accounted'
  BY <1>1, <1>2, <1>3 DEF Accounted, Held
<1>7. ChannelsInOrder'
  BY <1>1, <1>4 DEF ChannelsInOrder
<1>8. PlacesInOrder'
  <2>1. \A S : Before(S, window) /\ Before(S, ToSet(eventCh)) =>
                 Before(S, window') /\ Before(S, ToSet(eventCh'))
    BY <1>1, <1>3 DEF Before
  <2>2. Before(window', ToSet(eventCh'))
    BY <1>1, <1>3, <1>4 DEF PlacesInOrder, Before
  <2> QED
    BY <1>1, <1>2, <2>1, <2>2 DEF PlacesInOrder, sndVars
<1>9. PostedInOrder'
  <2>1. \A S : Before(S, window) /\ Before(S, ToSet(eventCh)) =>
                 Before(S, window') /\ Before(S, ToSet(eventCh'))
    BY <1>1, <1>3 DEF Before
  <2> QED
    BY <1>1, <1>2, <2>1 DEF PostedInOrder
<1> QED
  BY <1>2, <1>5, <1>6, <1>7, <1>8, <1>9

\* The window becomes the newest batch of SendCh, or is dropped.
LEMMA FlushStep ==
    ASSUME TeleInv, FlushAndSend, UNCHANGED <<offered, eventCh, sndVars>>
    PROVE  TeleInv'
<1> USE DEF TeleInv
<1>0. window' = {} /\ UNCHANGED <<offered, eventCh, sndVars>>
  BY DEF FlushAndSend
<1>1. CASE sendCh' = sendCh /\ dropped' = dropped \cup window
  <2>1. /\ SenderOK' /\ PostsNumbered' /\ EntriesDistinct' /\ StreamSorted'
        /\ Streamed' = Streamed /\ batch' = batch /\ Added' = Added /\ Posted' = Posted /\ Queued' = Queued
    BY <1>0, <1>1, SenderFrame DEF SenderOK, Queued
  <2>2. TypeOK'
    BY <1>0, <1>1 DEF TypeOK, sndVars
  <2>3. Accounted'
    BY <1>0, <1>1, <2>1 DEF Accounted, Held
  <2>4. ChannelsInOrder'
    BY <1>0, <1>1 DEF ChannelsInOrder
  <2>5. PlacesInOrder'
    BY <1>0, <1>1, <2>1 DEF PlacesInOrder, Before, sndVars
  <2>6. PostedInOrder'
    <3>1. \A S : Before(S, {})
      BY DEF Before
    <3> QED
      BY <1>0, <1>1, <2>1, <3>1 DEF PostedInOrder
  <2> QED
    BY <2>1, <2>2, <2>3, <2>4, <2>5, <2>6
<1>2. CASE window # {} /\ sendCh' = Append(sendCh, window) /\ dropped' = dropped
  <2>1. sendCh \in Seq(SUBSET Nat) /\ window \in SUBSET Nat
    BY DEF TypeOK
  <2>2. /\ sendCh' \in Seq(SUBSET Nat) /\ Len(sendCh') = Len(sendCh) + 1
        /\ \A i \in 1..Len(sendCh) : sendCh'[i] = sendCh[i]
        /\ sendCh'[Len(sendCh) + 1] = window
        /\ ToSet(sendCh') = ToSet(sendCh) \cup {window}
    BY <1>2, <2>1, BatchSent
  <2>3. /\ Len(sendCh) \in Nat
        /\ ToSet(sendCh) = {sendCh[i] : i \in 1..Len(sendCh)}
    BY <2>1, SetOfSeq
  <2>4. Queued' = Queued \cup window
    BY <2>2 DEF Queued
  <2>5. /\ SenderOK' /\ PostsNumbered' /\ EntriesDistinct' /\ StreamSorted'
        /\ Streamed' = Streamed /\ batch' = batch /\ Added' = Added /\ Posted' = Posted
    BY <1>0, <1>2, <2>2, SenderFrame DEF SenderOK
  <2>6. TypeOK'
    BY <1>0, <1>2, <2>2 DEF TypeOK, sndVars
  <2>7. Accounted'
    BY <1>0, <1>2, <2>4, <2>5 DEF Accounted, Held
  <2>8. ChannelsInOrder'
    <3>1. ASSUME NEW i \in 1..(Len(sendCh) + 1), NEW j \in 1..(Len(sendCh) + 1), i < j
          PROVE  Before(sendCh'[i], sendCh'[j])
      <4>1. i \in 1..Len(sendCh) /\ (j \in 1..Len(sendCh) \/ j = Len(sendCh) + 1)
        BY <2>3, <3>1
      <4>2. CASE j \in 1..Len(sendCh)
        BY <2>2, <3>1, <4>1, <4>2 DEF ChannelsInOrder
      <4>3. CASE j = Len(sendCh) + 1
        <5>1. sendCh[i] \subseteq Queued
          BY <2>3, <4>1 DEF Queued
        <5>2. Before(sendCh[i], window)
          BY <5>1 DEF PlacesInOrder, Before
        <5> QED
          BY <2>2, <4>1, <4>3, <5>2
      <4> QED
        BY <4>1, <4>2, <4>3
    <3> QED
      BY <1>0, <2>2, <3>1 DEF ChannelsInOrder
  <2>9. PlacesInOrder'
    <3>1. \A S : Before(S, window) /\ Before(S, Queued) => Before(S, Queued')
      BY <2>4 DEF Before
    <3>2. Before(Queued', ToSet(eventCh))
      BY <2>4 DEF PlacesInOrder, Before
    <3>3. \A S : Before(S, {}) /\ Before({}, S)
      BY DEF Before
    <3> QED
      BY <1>0, <2>5, <3>1, <3>2, <3>3 DEF PlacesInOrder, sndVars
  <2>10. PostedInOrder'
    <3>1. \A S : Before(S, window) /\ Before(S, Queued) => Before(S, Queued')
      BY <2>4 DEF Before
    <3>2. \A S : Before(S, {})
      BY DEF Before
    <3> QED
      BY <1>0, <1>2, <2>5, <3>1, <3>2 DEF PostedInOrder
  <2> QED
    BY <2>5, <2>6, <2>7, <2>8, <2>9, <2>10
<1> QED
  BY <1>1, <1>2 DEF FlushAndSend
-----------------------------------------------------------------------------
(* Sender *)

\* sendBatch starts with the oldest batch of SendCh, of which no POST was made
\* yet, or gives it up.
LEMMA TakeBatchStep ==
    ASSUME TeleInv, NEW permit \in BOOLEAN, TakeBatch(permit)
    PROVE  TeleInv'
<1> USE TelemetryAssumption DEF TeleInv
<1>1. /\ sendCh \in Seq(SUBSET Nat) /\ sendCh # <<>> /\ sendCh' = Tail(sendCh)
      /\ sender \in {"recv", "drain"}
      /\ UNCHANGED <<offered, eventCh, window, stream>> /\ dropped \subseteq dropped'
  BY DEF TakeBatch, TypeOK, aggVars
<1>2. PICK h \in SUBSET Nat : h = Head(sendCh)
  BY <1>1, ReceiveFacts
<1>3. /\ sendCh' \in Seq(SUBSET Nat)
      /\ ToSet(sendCh) = {h} \cup ToSet(sendCh')
  BY <1>1, <1>2, ReceiveFacts
<1>4. /\ \A i, j \in 1..Len(sendCh') : i < j => Before(sendCh'[i], sendCh'[j])
      /\ Before(h, Queued')
  BY <1>1, <1>2, BatchesStayInOrder DEF ChannelsInOrder, Queued
<1>5. Queued = h \cup Queued' /\ Streamed' = Streamed /\ Added' = Added
  BY <1>1, <1>3 DEF Queued, Streamed, Added
<1>6. h # {} /\ {} \notin ToSet(sendCh') /\ batch = {}
  BY <1>1, <1>3 DEF SenderOK, Posting
<1>7. ChannelsInOrder' /\ EntriesDistinct'
  BY <1>1, <1>4 DEF ChannelsInOrder, EntriesDistinct
<1>8. StreamSorted'
  <2>1. \A T, S, i : MayFollow(stream, dropped, T, S, i) => MayFollow(stream, dropped', T, S, i)
    BY <1>1 DEF MayFollow
  <2> QED
    BY <1>1, <2>1 DEF StreamSorted
<1>9. /\ Before(window, ToSet(eventCh))
      /\ Before(Queued', window) /\ Before(Queued', ToSet(eventCh))
      /\ Before(h, window) /\ Before(h, ToSet(eventCh)) /\ Before(h, Queued')
  BY <1>4, <1>5 DEF PlacesInOrder, Before
<1>10. \A S \in Posted : /\ Before(S, h) /\ Before(S, Queued') /\ S # h /\ S # {}
                         /\ S \subseteq dropped \/ S \in Added
  <2> SUFFICES ASSUME NEW S \in Posted
               PROVE  /\ Before(S, h) /\ Before(S, Queued') /\ S # h /\ S # {}
                      /\ S \subseteq dropped \/ S \in Added
    OBVIOUS
  <2>1. S # {} /\ Before(S, h) /\ Before(S, Queued')
    BY <1>5 DEF PostedInOrder, Before
  <2>2. S # h
    <3>1. PICK m \in h : m \in Nat
      BY <1>2, <1>6
    <3> QED
      BY <2>1, <3>1 DEF Before
  <2> QED
    BY <1>6, <2>1, <2>2 DEF PostedInOrder
<1>11. CASE /\ batch' = h /\ attempt' = 1 /\ requests' = requests \cup {Request(h, 1)}
            /\ sender' \in {"post", "drainPost"} /\ dropped' = dropped
  <2> DEFINE r == Request(h, 1)
  <2>1. /\ r \in Requests /\ r.events = h /\ r.attempt = 1 /\ r.adds = 0
    BY <1>2 DEF Request, Requests
  <2> HIDE DEF r
  <2>2. requests' = requests \cup {r}
    BY <1>11 DEF r
  <2>3. Posted' = Posted \cup {h}
    BY <1>5, <2>1, <2>2 DEF Posted
  <2>4. /\ \A x \in requests : x.events # h
        /\ \A x \in ToSet(stream) : x.events # h
    BY <1>10 DEF Posted, Added
  <2>5. TypeOK'
    BY <1>1, <1>3, <1>11, <2>1, <2>2 DEF TypeOK
  <2>6. SenderOK'
    BY <1>6, <1>11 DEF SenderOK, Posting
  <2>7. Accounted'
    BY <1>1, <1>5, <1>6, <1>11 DEF Accounted, Held
  <2>8. PlacesInOrder'
    BY <1>1, <1>9, <1>11 DEF PlacesInOrder
  <2>9. PostedInOrder'
    <3>1. h \subseteq 1..offered
      BY <1>5 DEF Accounted, Held
    <3>2. /\ h # {} /\ h \subseteq 1..offered
          /\ Before(h, Queued') /\ Before(h, window) /\ Before(h, ToSet(eventCh))
      BY <1>6, <1>9, <3>1
    <3>3. \A S \in Posted :
            /\ S # {} /\ S \subseteq 1..offered
            /\ Before(S, Queued') /\ Before(S, window) /\ Before(S, ToSet(eventCh))
            /\ Before(S, h)
            /\ S \subseteq dropped \/ S \in Added
      BY <1>10 DEF PostedInOrder
    <3>4. \A S, T \in Posted \cup {h} : Ordered(S, T)
      BY <1>10 DEF PostedInOrder, Ordered
    <3> QED
      BY <1>1, <1>5, <1>11, <2>3, <3>2, <3>3, <3>4 DEF PostedInOrder
  <2>10. PostsNumbered'
    <3>1. \A x \in requests, y \in requests : SamePost(x, y) => x = y
      BY DEF PostsNumbered
    <3>2. /\ \A x \in requests : ~SamePost(x, r) /\ ~SamePost(r, x)
          /\ \A x \in ToSet(stream) : ~SamePost(x, r)
      BY <2>1, <2>4 DEF SamePost
    <3> QED
      BY <1>1, <1>5, <1>11, <2>1, <2>2, <2>4, <3>1, <3>2 DEF PostsNumbered
  <2> QED
    BY <1>7, <1>8, <2>5, <2>6, <2>7, <2>8, <2>9, <2>10
<1>12. CASE dropped' = dropped \cup h /\ UNCHANGED <<batch, attempt, requests, sender>>
  <2>1. TypeOK'
    BY <1>1, <1>2, <1>3, <1>12 DEF TypeOK
  <2>2. SenderOK'
    BY <1>6, <1>12 DEF SenderOK, Posting
  <2>3. Accounted'
    BY <1>1, <1>5, <1>12 DEF Accounted, Held
  <2>4. PlacesInOrder'
    BY <1>1, <1>5, <1>6, <1>9, <1>12 DEF PlacesInOrder, Before
  <2>5. PostedInOrder'
    <3>1. Posted' = Posted
      BY <1>5, <1>12 DEF Posted
    <3> QED
      BY <1>1, <1>5, <1>10, <1>12, <3>1 DEF PostedInOrder
  <2>6. PostsNumbered'
    BY <1>1, <1>5, <1>12 DEF PostsNumbered
  <2> QED
    BY <1>7, <1>8, <2>1, <2>2, <2>3, <2>4, <2>5, <2>6
<1> QED
  BY <1>2, <1>11, <1>12 DEF TakeBatch

\* When sendBatch returns, the batch is in the stream or given up, and at most
\* the request that was answered is gone.
LEMMA BatchLeaves ==
    ASSUME TeleInv, Posting, requests' \subseteq requests,
           sender' = Returned, batch' = {}, attempt' = 0,
           \/ batch \in Added /\ dropped' = dropped
           \/ dropped' = dropped \cup batch,
           UNCHANGED <<aggVars, sendCh, stream>>
    PROVE  TeleInv'
<1> USE TelemetryAssumption DEF TeleInv
<1>1. /\ UNCHANGED <<offered, eventCh, window, sendCh, stream>> /\ Queued' = Queued
      /\ ~Posting' /\ Streamed' = Streamed /\ Added' = Added
      /\ dropped \subseteq dropped' /\ batch \in SUBSET Nat
      /\ batch \subseteq dropped' \/ batch \in Added
  BY DEF aggVars, Queued, Returned, Posting, Streamed, Added, TypeOK
<1>2. Posted' \subseteq Posted
  BY <1>1 DEF Posted
<1>3. TypeOK'
  BY <1>1 DEF TypeOK
<1>4. SenderOK'
  BY <1>1 DEF SenderOK
<1>5. Accounted'
  <2>1. Held = Held' \cup batch
    BY <1>1 DEF Held
  <2>2. batch \in Added => batch \subseteq Streamed
    BY DEF Added, Streamed
  <2> QED
    BY <1>1, <2>1, <2>2 DEF Accounted
<1>6. ChannelsInOrder' /\ EntriesDistinct'
  BY <1>1 DEF ChannelsInOrder, EntriesDistinct
<1>7. \A S : Before(S, {}) /\ Before({}, S)
  BY DEF Before
<1>8. PlacesInOrder'
  BY <1>1, <1>7 DEF PlacesInOrder
<1>9. PostedInOrder'
  BY <1>1, <1>2, <1>7 DEF PostedInOrder
<1>10. PostsNumbered'
  <2>1. \A x \in requests : x.events # {}
    BY DEF Posted, PostedInOrder
  <2>2. \A x \in ToSet(stream) : x.events # {}
    BY DEF Posted, Added, PostedInOrder
  <2> QED
    BY <1>1, <2>1, <2>2 DEF PostsNumbered
<1>11. StreamSorted'
  <2>1. \A T, S, i : MayFollow(stream, dropped, T, S, i) => MayFollow(stream, dropped', T, S, i)
    BY <1>1 DEF MayFollow
  <2> QED
    BY <1>1, <2>1 DEF StreamSorted
<1> QED
  BY <1>3, <1>4, <1>5, <1>6, <1>8, <1>9, <1>10, <1>11

\* A POST answered 2xx: its handler has added the batch.
LEMMA PostOkStep ==
    ASSUME TeleInv, PostOk
    PROVE  TeleInv'
<1>1. PICK r \in requests :
        r.events = batch /\ r.attempt = attempt /\ r.adds > 0 /\ requests' = requests \ {r}
  BY DEF PostOk
<1>2. batch \in Added
  BY <1>1 DEF TeleInv, PostsNumbered
<1>3. requests' \subseteq requests
  BY <1>1
<1> QED
  BY <1>2, <1>3, BatchLeaves DEF PostOk

\* A failed POST: the batch is posted again or given up; the failed request
\* stays behind.
LEMMA PostFailsStep ==
    ASSUME TeleInv, PostFails
    PROVE  TeleInv'
<1> USE TelemetryAssumption DEF TeleInv
<1>1. Posting /\ UNCHANGED <<aggVars, sendCh, stream>>
  BY DEF PostFails
<1>2. CASE /\ dropped' = dropped \cup batch /\ requests' = requests
           /\ sender' = Returned /\ batch' = {} /\ attempt' = 0
  BY <1>1, <1>2, BatchLeaves
<1>3. CASE /\ attempt < MaxAttempts /\ attempt' = attempt + 1
           /\ requests' = requests \cup {Request(batch, attempt + 1)}
           /\ UNCHANGED <<sender, batch, dropped>>
  <2> DEFINE r == Request(batch, attempt + 1)
  <2>1. /\ UNCHANGED <<offered, eventCh, window, sendCh, stream>> /\ Queued' = Queued
        /\ Posting' /\ Streamed' = Streamed /\ Added' = Added
    BY <1>1, <1>3 DEF aggVars, Queued, Posting, Streamed, Added
  <2>2. attempt \in 1..MaxAttempts /\ batch \in SUBSET Nat /\ batch # {}
    BY <1>1 DEF SenderOK, TypeOK
  <2>3. attempt + 1 \in 1..MaxAttempts /\ attempt < attempt + 1
    BY <1>3, <2>2
  <2>4. r \in Requests /\ r.events = batch /\ r.attempt = attempt + 1 /\ r.adds = 0
    BY <2>2, <2>3 DEF Request, Requests
  <2> HIDE DEF r
  <2>5. requests' = requests \cup {r}
    BY <1>3 DEF r
  <2>6. Posted' = Posted \cup {batch}
    BY <2>1, <2>4, <2>5 DEF Posted
  <2>7. TypeOK'
    BY <1>3, <2>1, <2>2, <2>3, <2>4, <2>5 DEF TypeOK
  <2>8. SenderOK'
    BY <1>1, <1>3, <2>1, <2>2, <2>3 DEF SenderOK
  <2>9. Accounted'
    BY <1>3, <2>1 DEF Accounted, Held
  <2>10. ChannelsInOrder' /\ EntriesDistinct' /\ PlacesInOrder' /\ StreamSorted'
    BY <1>3, <2>1 DEF ChannelsInOrder, EntriesDistinct, PlacesInOrder, StreamSorted
  <2>11. PostedInOrder'
    <3>1. batch \subseteq 1..offered
      BY DEF Accounted, Held
    <3>2. \A S \in Posted \cup {batch} :
            /\ S # {} /\ S \subseteq 1..offered
            /\ Before(S, Queued) /\ Before(S, window) /\ Before(S, ToSet(eventCh))
            /\ S = batch \/ Before(S, batch)
            /\ S = batch \/ S \subseteq dropped \/ S \in Added
      BY <2>2, <3>1 DEF PostedInOrder, PlacesInOrder
    <3>3. \A S, T \in Posted \cup {batch} : Ordered(S, T)
      BY <3>2 DEF PostedInOrder, Ordered
    <3> QED
      BY <1>3, <2>1, <2>6, <3>2, <3>3 DEF PostedInOrder
  <2>12. PostsNumbered'
    <3>1. /\ \A x \in requests : x.attempt \in Nat
          /\ \A x \in ToSet(stream) : x.attempt \in Nat
      <4>1. requests \subseteq Requests /\ ToSet(stream) \subseteq Entries
        BY StreamFacts DEF TypeOK
      <4>2. /\ \A x \in Requests : x.attempt \in Nat
            /\ \A x \in Entries : x.attempt \in Nat
        BY DEF Requests, Entries
      <4> QED
        BY <4>1, <4>2
    <3>2. /\ \A x \in requests : x.events = batch => x.attempt <= attempt /\ x.attempt # attempt + 1
          /\ \A x \in ToSet(stream) : x.events = batch =>
               x.attempt <= attempt /\ x.attempt # attempt + 1
      BY <2>2, <3>1 DEF PostsNumbered
    <3>3. /\ \A x \in requests : ~SamePost(x, r) /\ ~SamePost(r, x)
          /\ \A x \in ToSet(stream) : ~SamePost(x, r)
      BY <2>4, <3>2 DEF SamePost
    <3>4. \A x, y \in requests' : SamePost(x, y) => x = y
      BY <2>5, <3>3 DEF PostsNumbered
    <3>5. \A x \in ToSet(stream), y \in requests' : SamePost(x, y) => x.copy <= y.adds
      BY <2>5, <3>3 DEF PostsNumbered
    <3>6. \A x \in requests' : x.adds > 0 => x.events \in Added
      BY <2>4, <2>5 DEF PostsNumbered
    <3>7. \A n \in Nat : n <= attempt => n <= attempt + 1
      BY <2>2
    <3>8. \A x \in requests' : x.events = batch => x.attempt <= attempt + 1
      BY <2>2, <2>4, <2>5, <3>1, <3>2, <3>7
    <3>9. \A x \in ToSet(stream) : x.events = batch => x.attempt <= attempt + 1
      BY <3>1, <3>2, <3>7
    <3> QED
      BY <1>3, <2>1, <3>4, <3>5, <3>6, <3>8, <3>9 DEF PostsNumbered
  <2> QED
    BY <2>7, <2>8, <2>9, <2>10, <2>11, <2>12
<1> QED
  BY <1>2, <1>3 DEF PostFails

\* A step that moves no event.
LEMMA QuietStep ==
    ASSUME TeleInv,
           UNCHANGED <<offered, eventCh, window, sendCh, batch, attempt, requests, stream, dropped>>,
           Posting' = Posting
    PROVE  TeleInv'
<1>1. Queued' = Queued /\ Streamed' = Streamed /\ Held' = Held /\ Added' = Added
      /\ Posted' = Posted
  BY DEF Queued, Streamed, Held, Added, Posted
<1> QED
  BY <1>1 DEF TeleInv, TypeOK, SenderOK, Accounted, ChannelsInOrder, PlacesInOrder,
              PostedInOrder, PostsNumbered, EntriesDistinct, StreamSorted
-----------------------------------------------------------------------------
(* The invariant and the theorems *)

\* All channels are empty at the start.
LEMMA TeleInitInv == Init => TeleInv
<1> SUFFICES ASSUME Init PROVE TeleInv
  OBVIOUS
<1> USE TelemetryAssumption DEF Init
<1>1. TypeOK
  BY DEF TypeOK
<1>2. Len(eventCh) = 0 /\ Len(sendCh) = 0 /\ Len(stream) = 0
  OBVIOUS
<1>3. ToSet(eventCh) = {} /\ ToSet(sendCh) = {} /\ ToSet(stream) = {}
  <2>1. ToSet(<<>>) = {}
    BY DEF ToSet
  <2> QED
    BY <2>1, Zenon
<1>4. Queued = {} /\ Streamed = {} /\ Held = {} /\ Added = {} /\ Posted = {}
  BY <1>3 DEF Queued, Streamed, Held, Added, Posted
<1>5. SenderOK /\ ~Posting
  BY <1>3 DEF SenderOK, Posting
<1>6. Accounted
  <2>1. 1..offered = {}
    OBVIOUS
  <2> QED
    BY <1>4, <2>1 DEF Accounted
<1>7. ChannelsInOrder /\ StreamSorted /\ EntriesDistinct
  BY <1>2 DEF ChannelsInOrder, StreamSorted, EntriesDistinct
<1>8. PlacesInOrder
  BY <1>3, <1>4 DEF PlacesInOrder, Before
<1>9. PostedInOrder /\ PostsNumbered
  BY <1>3, <1>4 DEF PostedInOrder, PostsNumbered
<1> QED
  BY <1>1, <1>5, <1>6, <1>7, <1>8, <1>9 DEF TeleInv

\* Every step of the three goroutines and of the process keeps the invariant.
LEMMA TeleStep == TeleInv /\ [Next]_vars => TeleInv'
<1> SUFFICES ASSUME TeleInv, [Next]_vars PROVE TeleInv'
  OBVIOUS
<1>1. CASE HandleEntry
  BY <1>1, HandleEntryStep
<1>2. CASE Ingest
  BY <1>2, IngestStep
<1>3. CASE Tick \/ FinalFlush
  BY <1>3, FlushStep DEF Tick, FinalFlush
<1>4. CASE \E permit \in BOOLEAN : TakeBatch(permit)
  BY <1>4, TakeBatchStep
<1>5. CASE PostOk \/ PostFails
  BY <1>5, PostOkStep, PostFailsStep
<1>6. CASE AggregatorDone \/ SenderDone \/ SenderStops \/ Cancel \/ Exit \/ UNCHANGED vars
  <2>1. /\ UNCHANGED <<offered, eventCh, window, sendCh, batch, attempt, requests, stream,
                       dropped>>
        /\ Posting' = Posting
    BY <1>6 DEF AggregatorDone, SenderDone, SenderStops, Cancel, Exit, vars, aggVars,
                sndVars, Posting
  <2> QED
    BY <2>1, QuietStep
<1>7. CASE IngestServer
  BY <1>7, AddStep DEF IngestServer
<1> QED
  BY <1>1, <1>2, <1>3, <1>4, <1>5, <1>6, <1>7 DEF Next, AggregatorStep, SenderStep

\* The invariant holds in every behaviour.
LEMMA TeleInvHolds == Spec => []TeleInv
BY TeleInitInv, TeleStep, PTL DEF Spec

\* Two sets of events, one collected before the other, have no event in common.
LEMMA BeforeIsApart ==
    ASSUME NEW S \in SUBSET Nat, NEW T, Before(S, T)
    PROVE  S \cap T = {}
<1> SUFFICES ASSUME NEW m \in S, m \in T PROVE FALSE
  OBVIOUS
<1>1. m < m /\ m \in Nat
  BY DEF Before
<1> QED
  BY <1>1

\* The size of two finite sets without a common event.
LEMMA ApartSize ==
    ASSUME NEW S, NEW T, IsFiniteSet(S), IsFiniteSet(T), S \cap T = {}
    PROVE  /\ IsFiniteSet(S \cup T)
           /\ Cardinality(S \cup T) = Cardinality(S) + Cardinality(T)
           /\ Cardinality(S) \in Nat /\ Cardinality(T) \in Nat
<1>1. Cardinality(S) \in Nat /\ Cardinality(T) \in Nat
  BY FS_CardinalityType
<1>2. Cardinality(S \cap T) = 0
  BY FS_EmptySet
<1>3. /\ IsFiniteSet(S \cup T)
      /\ Cardinality(S \cup T) = Cardinality(S) + Cardinality(T) - Cardinality(S \cap T)
  BY FS_Union
<1> QED
  BY <1>1, <1>2, <1>3

\* Aggregator.Run, Sender.Run: for any channel sizes, retries and moment of the
\* shutdown, every event a collector offered is in exactly one place of the
\* agent, in the server's stream, or given up at a place that says so.
THEOREM EventsAccountedFor == Spec => []EveryEventAccountedFor
<1>1. TeleInv => EveryEventAccountedFor
  <2> SUFFICES ASSUME TeleInv PROVE EveryEventAccountedFor
    OBVIOUS
  <2> USE DEF TeleInv
  <2>1. offered \in Nat /\ 1..offered = Held \cup Streamed \cup dropped
    BY DEF TypeOK, Accounted
  <2>2. /\ ToSet(eventCh) \in SUBSET (1..offered) /\ window \in SUBSET (1..offered)
        /\ Queued \in SUBSET (1..offered) /\ batch \in SUBSET (1..offered)
    BY <2>1 DEF Held
  <2>3. IsFiniteSet(1..offered)
    BY <2>1, FS_Interval
  <2>4. /\ IsFiniteSet(ToSet(eventCh)) /\ IsFiniteSet(window)
        /\ IsFiniteSet(Queued) /\ IsFiniteSet(batch)
    BY <2>2, <2>3, FS_Subset
  <2>5. Cardinality(ToSet(eventCh)) = Len(eventCh)
    <3>1. /\ Len(eventCh) \in Nat /\ DOMAIN eventCh = 1..Len(eventCh)
          /\ ToSet(eventCh) = {eventCh[i] : i \in 1..Len(eventCh)}
          /\ eventCh \in [1..Len(eventCh) -> Nat]
      BY SetOfSeq DEF TypeOK
    <3>2. eventCh \in [1..Len(eventCh) -> ToSet(eventCh)]
      BY <3>1
    <3>3. \A i, j \in 1..Len(eventCh) : eventCh[i] = eventCh[j] => i = j
      <4> SUFFICES ASSUME NEW i \in 1..Len(eventCh), NEW j \in 1..Len(eventCh),
                          eventCh[i] = eventCh[j], i # j
                   PROVE  FALSE
        OBVIOUS
      <4>1. i < j \/ j < i
        BY <3>1
      <4>2. eventCh[i] < eventCh[j] \/ eventCh[j] < eventCh[i]
        BY <4>1 DEF ChannelsInOrder
      <4> QED
        BY <3>1, <4>2
    <3>4. ExistsBijection(1..Len(eventCh), ToSet(eventCh))
      <4>1. eventCh \in Injection(1..Len(eventCh), ToSet(eventCh))
        BY <3>2, <3>3 DEF Injection, IsInjective
      <4>2. eventCh \in Surjection(1..Len(eventCh), ToSet(eventCh))
        BY <3>1, <3>2 DEF Surjection
      <4> QED
        BY <4>1, <4>2 DEF ExistsBijection, Bijection
    <3>5. IsFiniteSet(1..Len(eventCh)) /\ Cardinality(1..Len(eventCh)) = Len(eventCh)
      BY <3>1, FS_Interval, SMTT(30)
    <3> QED
      BY <3>4, <3>5, FS_Bijection
  <2>6. /\ window \cap ToSet(eventCh) = {}
        /\ Queued \cap (ToSet(eventCh) \cup window) = {}
        /\ batch \cap (ToSet(eventCh) \cup window \cup Queued) = {}
    <3>1. window \in SUBSET Nat /\ Queued \in SUBSET Nat /\ batch \in SUBSET Nat
      BY <2>1, <2>2 DEF TypeOK
    <3> QED
      BY <3>1, BeforeIsApart DEF PlacesInOrder
  <2>7. /\ IsFiniteSet(ToSet(eventCh) \cup window)
        /\ Cardinality(ToSet(eventCh) \cup window) = Len(eventCh) + Cardinality(window)
    BY <2>4, <2>5, <2>6, ApartSize
  <2>8. /\ IsFiniteSet(ToSet(eventCh) \cup window \cup Queued)
        /\ Cardinality(ToSet(eventCh) \cup window \cup Queued)
             = Len(eventCh) + Cardinality(window) + Cardinality(Queued)
    BY <2>4, <2>6, <2>7, ApartSize
  <2>9. Cardinality(ToSet(eventCh) \cup window \cup Queued \cup batch)
          = Len(eventCh) + Cardinality(window) + Cardinality(Queued) + Cardinality(batch)
    BY <2>4, <2>6, <2>8, ApartSize
  <2> QED
    BY <2>1, <2>9 DEF EveryEventAccountedFor, Held
<1> QED
  BY <1>1, TeleInvHolds, PTL

\* Two numbers up to m and n make one of m * n pairs.
LEMMA PairCount ==
    ASSUME NEW m \in Nat, NEW n \in Nat
    PROVE  /\ IsFiniteSet((1..m) \X (1..n))
           /\ Cardinality((1..m) \X (1..n)) = m * n
<1>1. /\ IsFiniteSet(1..m) /\ Cardinality(1..m) = m
      /\ IsFiniteSet(1..n) /\ Cardinality(1..n) = n
  BY FS_Interval, SMTT(30)
<1>2. /\ IsFiniteSet((1..m) \X (1..n))
      /\ Cardinality((1..m) \X (1..n)) = Cardinality(1..m) * Cardinality(1..n)
  BY <1>1, FS_Product
<1> QED
  BY <1>1, <1>2

\* The entries of one batch are told apart by the number of the POST and the
\* number of the copy.
LEMMA CopiesBounded ==
    ASSUME TeleInv, NEW S
    PROVE  Cardinality({j \in 1..Len(stream) : stream[j].events = S})
             <= MaxAttempts * XAddTries
<1> DEFINE C == {j \in 1..Len(stream) : stream[j].events = S}
           P == (1..MaxAttempts) \X (1..XAddTries)
           f == [j \in C |-> <<stream[j].attempt, stream[j].copy>>]
<1>1. MaxAttempts \in Nat /\ XAddTries \in Nat
  BY TelemetryAssumption
<1>2. IsFiniteSet(P) /\ Cardinality(P) = MaxAttempts * XAddTries
  BY <1>1, PairCount
<1>3. \A j \in C : /\ stream[j] \in Entries /\ stream[j].events = S
                  /\ stream[j].attempt \in 1..MaxAttempts /\ stream[j].copy \in 1..XAddTries
                  /\ stream[j] = [events |-> stream[j].events, attempt |-> stream[j].attempt,
                                  copy |-> stream[j].copy]
  BY StreamFacts DEF Entries
<1>4. f \in [C -> P]
  BY <1>3
<1>5. ASSUME NEW i \in C, NEW j \in C, f[i] = f[j]
      PROVE  i = j
  <2>1. stream[i].attempt = stream[j].attempt /\ stream[i].copy = stream[j].copy
    BY <1>5
  <2>2. stream[i] = stream[j]
    BY <1>3, <2>1
  <2> QED
    BY <2>2 DEF TeleInv, EntriesDistinct
<1>6. f \in Injection(C, P)
  BY <1>4, <1>5 DEF Injection, IsInjective
<1> HIDE DEF C, P, f
<1>7. Cardinality(C) <= Cardinality(P)
  BY <1>2, <1>6, FS_Injection
<1> QED
  BY <1>2, <1>7 DEF C

\* sendBatch's retries and HandleIngestBatch: the batches of the server's stream
\* are in the order their events were collected, but for given-up batches and
\* further copies that come late, with a bounded number of copies of each.
THEOREM StreamKeepsOrder == Spec => []StreamInOrder
<1>1. TeleInv => StreamInOrder
  <2> SUFFICES ASSUME TeleInv PROVE StreamInOrder
    OBVIOUS
  <2>1. DOMAIN stream = 1..Len(stream)
    BY SetOfSeq DEF TeleInv, TypeOK
  <2>2. ASSUME NEW i \in DOMAIN stream, NEW j \in DOMAIN stream,
               i < j, stream[i].events # stream[j].events
        PROVE  \/ Before(stream[i].events, stream[j].events)
               \/ /\ Before(stream[j].events, stream[i].events)
                  /\ \/ stream[j].events \subseteq dropped
                     \/ \E k \in 1..(i - 1) : stream[k].events = stream[j].events
    <3>1. MayFollow(stream, dropped, stream[i].events, stream[j].events, i)
      BY <2>1, <2>2 DEF TeleInv, StreamSorted
    <3> QED
      BY <3>1 DEF MayFollow, CameBefore
  <2>3. \A i \in DOMAIN stream :
          Cardinality({j \in DOMAIN stream : stream[j].events = stream[i].events})
              <= MaxAttempts * XAddTries
    BY <2>1, CopiesBounded
  <2> QED
    BY <2>2, <2>3 DEF StreamInOrder
<1> QED
  BY <1>1, TeleInvHolds, PTL
=============================================================================
